------------------------- MODULE KolmogorovSmirnov -------------------------
(***************************************************************************)
(* KolmogorovSmirnovStatistic (proxy/reflex/inbound, stats.go), which      *)
(* compares the packet sizes of shaped traffic with recorded ones: a merge *)
(* of two sorted samples that follows the distance of their distribution   *)
(* functions.  A distance is a numerator over Denominator.                 *)
(***************************************************************************)
EXTENDS Integers, Sequences, SequencesExt, FiniteSets, FiniteSetsExt

Denominator(a, b) == IF a = <<>> \/ b = <<>> THEN 1 ELSE Len(a) * Len(b)

Abs(n) == IF n < 0 THEN -n ELSE n

\* The comparison of the merge: which sample moves on.
FirstIsA_Backwards(x, y) == x > y
FirstIsA(x, y) == x <= y

\* One turn of one of the three loops: the merge, and the two over what is left
\* of one sample.  m.d is the largest distance so far.
Turn(aa, bb, m) ==
  LET takeA == m.j = Len(bb) \/ (m.i < Len(aa) /\ FirstIsA(aa[m.i + 1], bb[m.j + 1]))
      i == IF takeA THEN m.i + 1 ELSE m.i
      j == IF takeA THEN m.j ELSE m.j + 1
  IN  [i |-> i, j |-> j, d |-> Max({m.d, Abs(i * Len(bb) - j * Len(aa))})]

KolmogorovSmirnovStatistic(a, b) ==
  LET aa == SortSeq(a, <)
      bb == SortSeq(b, <)
      merged[n \in 0..(Len(a) + Len(b))] ==
        IF n = 0 THEN [i |-> 0, j |-> 0, d |-> 0] ELSE Turn(aa, bb, merged[n - 1])
  IN  IF a = <<>> \/ b = <<>> THEN 1 ELSE merged[Len(a) + Len(b)].d

-----------------------------------------------------------------------------
(* The definition of the statistic: the largest distance, over all values, *)
(* of the shares of the samples that do not exceed the value.              *)

Below(s, v) == Cardinality({ k \in DOMAIN s : s[k] <= v })

Statistic(a, b) ==
  IF a = <<>> \/ b = <<>> THEN 1
  ELSE Max({ Abs(Below(a, v) * Len(b) - Below(b, v) * Len(a)) : v \in ToSet(a) \cup ToSet(b) })
=============================================================================
