--------------------------- MODULE TrafficProfile ---------------------------
(***************************************************************************)
(* A traffic profile made from observations (proxy/reflex/inbound,         *)
(* morphing.go): CreateProfileFromObservations counts the observed values, *)
(* weightedPickSize and weightedPickDelay draw from the result.  Sizes and *)
(* delays are treated alike by two copies of the same code, modelled once. *)
(*                                                                         *)
(* Weights are counts over a total, and a random number is num / den.      *)
(***************************************************************************)
EXTENDS Integers, Sequences, SequencesExt, FiniteSets, FiniteSetsExt

Freq(observed, v) == Cardinality({ k \in DOMAIN observed : observed[k] = v })
Positive(observed) == { v \in ToSet(observed) : v > 0 }
Total(observed) == Cardinality({ k \in DOMAIN observed : observed[k] > 0 })

\* The values of S in order, each with its count.
Counted(observed, S) ==
  LET sorted == SetToSortSeq(S, <)
  IN  [k \in 1..Cardinality(S) |-> [value |-> sorted[k], count |-> Freq(observed, sorted[k])]]

calculateDistribution_AllCounted(observed) ==
  [dist |-> Counted(observed, Positive(observed)), total |-> Len(observed)]

\* Values that are not positive are left out of the counts and of the total.
calculateDistribution(observed) ==
  [dist |-> Counted(observed, Positive(observed)), total |-> Total(observed)]

\* The counts of the first k entries.
Cumulated(dist, k) == FoldLeft(LAMBDA sum, e : sum + e.count, 0, SubSeq(dist, 1, k))

\* The first entry whose cumulated weight reaches the random number, the last
\* entry when rounding lets none reach it, nothing when there is no entry.
weightedPick(dist, total, num, den) ==
  LET hits == { k \in DOMAIN dist : num * total <= Cumulated(dist, k) * den }
  IN  IF dist = <<>> THEN 0
      ELSE IF hits = {} THEN dist[Len(dist)].value
      ELSE dist[Min(hits)].value
=============================================================================
