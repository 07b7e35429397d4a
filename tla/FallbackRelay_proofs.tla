------------------------ MODULE FallbackRelay_proofs ------------------------
(***************************************************************************)
(* Proofs about FallbackRelay, for any number of chunks and any number of  *)
(* them that the detection had buffered.                                   *)
(***************************************************************************)
EXTENDS FallbackRelay, TLAPS

\* Direction d is complete: its source has ended and all of it is across.
Across(d) == ended[Src(d)] = "fin" /\ Len(passed[d]) = sent[Src(d)]

\* A copy that has ended with nil is complete, and stays so; a nil in the
\* channel, or returned, is that of such a copy.
RelayInv ==
  /\ TypeOK
  /\ main = "dial" => /\ result # "nil" /\ errCh = <<>>
                      /\ \A d \in Directions : gpc[d] = "none"
  /\ \A d \in Directions :
       /\ next[d] = Len(passed[d]) + 1
       /\ Len(passed[d]) <= sent[Src(d)]
       /\ \A i \in 1..Len(passed[d]) : passed[d][i] = i
       /\ gpc[d] = "write" => next[d] <= sent[Src(d)]
       /\ gpc[d] \in {"send", "done"} /\ gerr[d] = "nil" => Across(d)
  /\ result = "nil" \/ (\E i \in 1..Len(errCh) : errCh[i] = "nil")
       => \E d \in Directions : gpc[d] = "done" /\ gerr[d] = "nil"

\* Each direction goes from one of the two peers to one of them.
LEMMA Sides ==
  \A d \in Directions : Src(d) \in Peers /\ Dst(d) \in Peers
BY Zenon DEF Directions, Peers, Src, Dst

\* A relay that has just begun.
LEMMA RelayInit == Init => RelayInv
<1> SUFFICES ASSUME Init PROVE RelayInv
  BY Zenon
<1>1. TypeOK
  BY RelayAssumption DEF RelayConstants, Init, TypeOK
<1>2. ASSUME NEW d \in Directions
      PROVE  /\ next[d] = Len(passed[d]) + 1
             /\ Len(passed[d]) <= sent[Src(d)]
             /\ \A i \in 1..Len(passed[d]) : passed[d][i] = i
             /\ gpc[d] = "none"
  <2>1. passed[d] = <<>> /\ next[d] = 1 /\ gpc[d] = "none"
    BY Zenon DEF Init
  <2>2. sent[Src(d)] \in Nat
    BY <1>1, Sides DEF TypeOK
  <2> QED BY <2>1, <2>2
<1>3. result # "nil" /\ errCh = <<>> /\ Len(errCh) = 0
  BY Zenon DEF Init
<1> QED BY <1>1, <1>2, <1>3 DEF RelayInv

\* The peers send and end: what is complete has ended and gets no more.
LEMMA PeerStep ==
  ASSUME RelayInv, NEW p \in Peers, PeerSends(p) \/ PeerEnds(p)
  PROVE  RelayInv'
<1>1. UNCHANGED <<open, main, result, gpc, gerr, next, passed, errCh>> /\ ended[p] = "no"
  BY Zenon DEF PeerSends, PeerEnds, copies
<1>2. /\ sent \in [Peers -> 0..MaxChunks] /\ MaxChunks \in Nat
      /\ ended \in [Peers -> {"no", "fin", "reset"}]
  BY Zenon, RelayAssumption DEF RelayConstants, RelayInv, TypeOK
<1>3. /\ sent' \in [Peers -> 0..MaxChunks]
      /\ ended' \in [Peers -> {"no", "fin", "reset"}]
      /\ \A q \in Peers : /\ sent'[q] >= sent[q]
                          /\ q # p => sent'[q] = sent[q] /\ ended'[q] = ended[q]
  BY <1>2 DEF PeerSends, PeerEnds
<1>4. TypeOK'
  BY Zenon, <1>1, <1>3 DEF RelayInv, TypeOK
<1>5. ASSUME NEW d \in Directions
      PROVE  /\ Len(passed[d]) <= sent'[Src(d)]
             /\ gpc[d] = "write" => next[d] <= sent'[Src(d)]
             /\ gpc[d] \in {"send", "done"} /\ gerr[d] = "nil" => Across(d)'
  <2>1. Src(d) \in Peers
    BY Zenon, Sides
  <2>2. /\ sent'[Src(d)] \in Nat /\ sent[Src(d)] \in Nat
        /\ sent'[Src(d)] >= sent[Src(d)]
    BY <1>2, <1>3, <2>1
  <2>3. Len(passed[d]) \in Nat /\ next[d] \in Nat
    BY <1>2 DEF RelayInv, TypeOK
  <2>4. Across(d) => Across(d)'
    BY Zenon, <1>1, <1>3, <2>1 DEF Across
  <2> QED BY <2>2, <2>3, <2>4 DEF RelayInv
<1> QED BY Zenon, <1>1, <1>4, <1>5 DEF RelayInv

\* handleFallback and the worker.
LEMMA MainStep ==
  ASSUME RelayInv, Dial \/ FirstResult \/ WorkerCloses
  PROVE  RelayInv'
<1>1. UNCHANGED <<sent, ended, gerr, next, passed>>
  BY Zenon DEF Dial, FirstResult, WorkerCloses, copies
<1>2. \A d \in Directions : Across(d)' <=> Across(d)
  BY Zenon, <1>1 DEF Across
<1>3. errCh \in Seq({"nil", "error"})
  BY Zenon DEF RelayInv, TypeOK
<1>4. CASE Dial
  <2>1. /\ errCh' = errCh /\ errCh = <<>> /\ result' # "nil" /\ result' \in {result, "error"}
        /\ open' \in [Peers -> BOOLEAN] /\ main' \in {"wait", "returned"}
        /\ gpc' = gpc \/ gpc' = [d \in Directions |-> "read"]
    BY Zenon, <1>4 DEF Dial, RelayInv, TypeOK
  <2>2. TypeOK'
    BY Zenon, <1>1, <2>1 DEF RelayInv, TypeOK
  <2>3. \A d \in Directions : gpc'[d] \in {"none", "read"}
    BY Zenon, <1>4, <2>1 DEF Dial, RelayInv
  <2>4. Len(errCh') = 0
    BY Zenon, <2>1
  <2> QED BY <1>1, <2>1, <2>2, <2>3, <2>4 DEF RelayInv
<1>5. CASE FirstResult
  <2>1. /\ errCh # <<>> /\ result' = Head(errCh) /\ errCh' = Tail(errCh) /\ gpc' = gpc
        /\ open' \in [Peers -> BOOLEAN] /\ main' = "returned"
    BY Zenon, <1>5 DEF FirstResult, copies, RelayInv, TypeOK
  <2>2. /\ Tail(errCh) \in Seq({"nil", "error"}) /\ Head(errCh) \in {"nil", "error"}
        /\ Head(errCh) = errCh[1] /\ Len(errCh) \in Nat \ {0} /\ Len(Tail(errCh)) = Len(errCh) - 1
        /\ \A i \in 1..(Len(errCh) - 1) : Tail(errCh)[i] = errCh[i + 1]
    BY <1>3, <2>1
  <2>3. TypeOK'
    BY Zenon, <1>1, <2>1, <2>2 DEF RelayInv, TypeOK
  <2>4. result' = "nil" \/ (\E i \in 1..Len(errCh') : errCh'[i] = "nil")
          => \E i \in 1..Len(errCh) : errCh[i] = "nil"
    BY <2>1, <2>2
  <2> QED BY Zenon, <1>1, <1>2, <2>1, <2>3, <2>4 DEF RelayInv
<1>6. CASE WorkerCloses
  <2>1. UNCHANGED <<gpc, result, errCh>> /\ open' \in [Peers -> BOOLEAN] /\ main' = "closed"
    BY Zenon, <1>6 DEF WorkerCloses, copies, RelayInv, TypeOK
  <2>2. TypeOK'
    BY Zenon, <1>1, <2>1 DEF RelayInv, TypeOK
  <2> QED BY Zenon, <1>1, <1>2, <2>1, <2>2 DEF RelayInv
<1> QED BY Zenon, <1>4, <1>5, <1>6

\* The copies.  Only a source that has ended and was read to its end gives nil.
LEMMA CopyStep ==
  ASSUME RelayInv, NEW d \in Directions, Copy(d)
  PROVE  RelayInv'
<1>1. UNCHANGED <<sent, ended, open, main, result>> /\ gpc[d] # "none" /\ main # "dial"
  BY Zenon DEF Copy, CopyRead, CopyWrite, Send, RelayInv
<1>2. /\ Src(d) \in Peers /\ sent[Src(d)] \in 0..MaxChunks /\ MaxChunks \in Nat
      /\ next[d] \in 1..(MaxChunks + 1) /\ passed[d] \in Seq(1..MaxChunks)
      /\ errCh \in Seq({"nil", "error"}) /\ gerr[d] \in {"nil", "error"}
  BY Zenon, RelayAssumption, Sides DEF RelayConstants, RelayInv, TypeOK
<1>3. /\ next[d] = Len(passed[d]) + 1 /\ Len(passed[d]) \in Nat
      /\ Len(passed[d]) <= sent[Src(d)]
  BY <1>2 DEF RelayInv
<1>4. CASE /\ gpc[d] = "read" /\ gpc' = [gpc EXCEPT ![d] = "write"] /\ HasChunk(d)
           /\ UNCHANGED <<gerr, next, passed, errCh>>
  <2>1. TypeOK'
    BY Zenon, <1>1, <1>4 DEF RelayInv, TypeOK
  <2>same. \A x \in Directions : Across(x)' <=> Across(x)
    BY Zenon, <1>1, <1>4 DEF Across
  <2>2. gpc'[d] = "write" /\ \A x \in Directions \ {d} : gpc'[x] = gpc[x]
    BY Zenon, <1>1, <1>4 DEF RelayInv, TypeOK
  <2>3. next[d] <= sent[Src(d)]
    BY Zenon, <1>4 DEF HasChunk
  <2> QED BY Zenon, <2>same, <1>1, <1>4, <2>1, <2>2, <2>3 DEF RelayInv
<1>5. CASE /\ gpc[d] \in {"read", "write"} /\ UNCHANGED errCh
           /\ \E e \in {"nil", "error"} : Ends(d, e) /\ (e = "nil" => Across(d))
  <2>1. PICK e \in {"nil", "error"} : Ends(d, e) /\ (e = "nil" => Across(d))
    BY Zenon, <1>5
  <2>2. TypeOK'
    BY Zenon, <1>1, <1>5, <2>1 DEF RelayInv, TypeOK, Ends
  <2>same. \A x \in Directions : Across(x)' <=> Across(x)
    BY Zenon, <1>1, <2>1 DEF Across, Ends
  <2>3. /\ gpc'[d] = "send" /\ gerr'[d] = e
        /\ \A x \in Directions \ {d} : gpc'[x] = gpc[x] /\ gerr'[x] = gerr[x]
    BY Zenon, <1>1, <2>1 DEF RelayInv, TypeOK, Ends
  <2>4. UNCHANGED <<next, passed>>
    BY Zenon, <2>1 DEF Ends
  <2> QED BY Zenon, <2>same, <1>1, <1>5, <2>1, <2>2, <2>3, <2>4 DEF RelayInv
<1>6. CASE /\ gpc[d] = "write" /\ passed' = [passed EXCEPT ![d] = Append(@, next[d])]
           /\ next' = [next EXCEPT ![d] = @ + 1] /\ gpc' = [gpc EXCEPT ![d] = "read"]
           /\ UNCHANGED <<gerr, errCh>>
  <2>1. next[d] <= sent[Src(d)]
    BY Zenon, <1>6 DEF RelayInv
  <2>2. next[d] \in 1..MaxChunks /\ next[d] + 1 \in 1..(MaxChunks + 1)
    BY <1>2, <2>1
  <2> DEFINE p == Append(passed[d], next[d])
  <2>3. /\ p \in Seq(1..MaxChunks) /\ Len(p) = Len(passed[d]) + 1
        /\ \A i \in 1..Len(passed[d]) : p[i] = passed[d][i]
        /\ p[Len(passed[d]) + 1] = next[d]
    BY <1>2, <2>2
  <2>4. \A i \in 1..Len(passed[d]) : passed[d][i] = i
    BY Zenon DEF RelayInv
  <2>5. \A i \in 1..Len(p) : p[i] = i
    BY <1>3, <2>3, <2>4
  <2>6. /\ gpc'[d] = "read" /\ next'[d] = next[d] + 1 /\ passed'[d] = p
        /\ \A x \in Directions \ {d} :
             gpc'[x] = gpc[x] /\ next'[x] = next[x] /\ passed'[x] = passed[x]
    BY Zenon, <1>6 DEF RelayInv, TypeOK
  <2> HIDE DEF p
  <2>7. /\ next' \in [Directions -> 1..(MaxChunks + 1)]
        /\ passed' \in [Directions -> Seq(1..MaxChunks)]
        /\ gpc' \in [Directions -> {"none", "read", "write", "send", "done"}]
    BY Zenon, <1>6, <2>2, <2>3 DEF RelayInv, TypeOK, p
  <2>8. TypeOK'
    BY Zenon, <1>1, <1>6, <2>7 DEF RelayInv, TypeOK
  <2>9. \A x \in Directions : x # d => (Across(x)' <=> Across(x))
    BY Zenon, <1>1, <2>6 DEF Across
  <2>10. next[d] + 1 = Len(p) + 1 /\ Len(p) <= sent[Src(d)]
    BY Zenon, <1>2, <1>3, <2>1, <2>3
  <2>11. ASSUME NEW x \in Directions
         PROVE  /\ next'[x] = Len(passed'[x]) + 1
                /\ Len(passed'[x]) <= sent[Src(x)]
                /\ \A i \in 1..Len(passed'[x]) : passed'[x][i] = i
                /\ gpc'[x] = "write" => next'[x] <= sent[Src(x)]
                /\ gpc'[x] \in {"send", "done"} /\ gerr[x] = "nil" => Across(x)'
    <3>1. CASE x = d
      BY Zenon, <2>5, <2>6, <2>10, <3>1
    <3>2. CASE x # d
      BY Zenon, <2>6, <2>9, <3>2 DEF RelayInv
    <3> QED BY Zenon, <3>1, <3>2
  <2> QED BY Zenon, <1>1, <1>6, <2>6, <2>8, <2>11 DEF RelayInv
<1>7. CASE Send(d)
  <2>1. /\ gpc[d] = "send" /\ errCh' = Append(errCh, gerr[d]) /\ gpc' = [gpc EXCEPT ![d] = "done"]
        /\ UNCHANGED <<gerr, next, passed>>
    BY Zenon, <1>7 DEF Send
  <2>2. TypeOK'
    BY <1>1, <1>2, <2>1 DEF RelayInv, TypeOK
  <2>same. \A x \in Directions : Across(x)' <=> Across(x)
    BY Zenon, <1>1, <2>1 DEF Across
  <2>3. gpc'[d] = "done" /\ \A x \in Directions \ {d} : gpc'[x] = gpc[x]
    BY Zenon, <1>1, <2>1 DEF RelayInv, TypeOK
  <2> DEFINE ch == Append(errCh, gerr[d])
  <2>5. /\ Len(ch) = Len(errCh) + 1 /\ ch[Len(errCh) + 1] = gerr[d] /\ Len(errCh) \in Nat
        /\ \A i \in 1..Len(errCh) : ch[i] = errCh[i]
    BY <1>2
  <2> HIDE DEF ch
  <2>6. (\E i \in 1..Len(ch) : ch[i] = "nil")
           => gerr[d] = "nil" \/ \E i \in 1..Len(errCh) : errCh[i] = "nil"
    BY <2>5
  <2>4. (\E i \in 1..Len(errCh') : errCh'[i] = "nil")
           => gerr[d] = "nil" \/ \E i \in 1..Len(errCh) : errCh[i] = "nil"
    BY Zenon, <2>1, <2>6 DEF ch
  <2> QED BY Zenon, <2>same, <1>1, <2>1, <2>2, <2>3, <2>4 DEF RelayInv
<1>8. ASSUME gpc[d] = "read", ~ HasChunk(d), ended[Src(d)] = "fin", open[Src(d)]
      PROVE  Across(d)
  BY <1>2, <1>3, <1>8 DEF HasChunk, Across
<1> QED BY Zenon, <1>4, <1>5, <1>6, <1>7, <1>8
           DEF Copy, CopyRead, CopyWrite

-----------------------------------------------------------------------------

\* The inductive invariant of handleFallback's relay.
THEOREM RelayInvariant == Spec => []RelayInv
<1>1. RelayInv /\ [Next]_vars => RelayInv'
  <2> SUFFICES ASSUME RelayInv, [Next]_vars PROVE RelayInv'
    BY Zenon
  <2>1. CASE UNCHANGED vars
    BY Zenon, <2>1 DEF RelayInv, TypeOK, Across, vars
  <2>2. CASE Next
    BY Zenon, <2>2, PeerStep, MainStep, CopyStep DEF Next
  <2> QED BY Zenon, <2>1, <2>2
<1> QED BY <1>1, RelayInit, PTL DEF Spec

\* However much is sent and however much of it the detection had buffered,
\* handleFallback gives each side what the other sent, in order.
THEOREM RelayedInOrder == Spec => []RelayInOrder
<1>1. RelayInv => RelayInOrder
  BY Zenon DEF RelayInv, RelayInOrder
<1> QED BY <1>1, RelayInvariant, PTL

\* When handleFallback returns nil one of the two copies has passed on all
\* that its side sent before it ended.
THEOREM NilIsComplete == Spec => []NilMeansOneComplete
<1>1. RelayInv => NilMeansOneComplete
  BY Zenon DEF RelayInv, NilMeansOneComplete, Across
<1> QED BY <1>1, RelayInvariant, PTL
=============================================================================
