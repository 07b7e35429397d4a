------------------------------ MODULE KcpSteps -----------------------------
(***************************************************************************)
(* The invariant of Kcp, for any windows, loads, faults and interleavings  *)
(* of calls: it holds at first, what follows from it, when a step keeps    *)
(* it, and the steps of the network, of Write, and those that load or      *)
(* store the state of a connection.                                        *)
(***************************************************************************)
EXTENDS Kcp, TLAPS

\* The receiving worker of e has, or had, segment number n.
Has(e, n) == n < rcv[e].next \/ n \in Numbers(rcv[e])

\* The windows hold segments that were pushed.
Windows ==
  \A e \in Ends :
    /\ snd[e].pushed <= load.writes[e]
    /\ \A k \in snd[e].window : k < snd[e].pushed
    /\ Start <= rcv[e].next /\ rcv[e].next <= Start + snd[Peer(e)].pushed
    /\ \A c \in rcv[e].cache :
         c[1] = Start + c[2] /\ rcv[e].next <= c[1] /\ c[2] < snd[Peer(e)].pushed

\* Nothing that was left over for the reader of e has been dropped.
Whole(e) == ~ released[e] \/ e \notin load.bytes

\* got continues what the reader of e has been given, up to number n.
Continues(e, got, n) ==
  /\ \A i \in 1..Len(received[e]) : received[e][i] = i - 1
  /\ \A i \in 1..Len(got) : got[i] = Len(received[e]) + i - 1
  /\ Start + Len(received[e]) + Len(got) = n

\* What has been read, and what is left over.
Reading ==
  \A e \in Ends :
    /\ e \notin load.bytes => rcv[e].left = <<>>
    /\ Whole(e) => Continues(e, rcv[e].left, rcv[e].next)

\* A packet m on its way to e carries a segment of its peer, and tells of no
\* segment of e that the peer does not have.
Truthful(e, m) ==
  /\ m.type = "data" => m.number = Start + m.payload /\ m.payload < snd[Peer(e)].pushed
  /\ m.type # "data" => m.next <= rcv[Peer(e)].next
  /\ m.type = "ack" => \A n \in m.numbers : Has(Peer(e), n)

Flight ==
  \A e \in Ends :
    /\ \A n \in rcv[e].acks : Has(e, n)
    /\ \A m \in Range(net[e]) : Truthful(e, m)

\* A segment that is not in the window any more is at the peer.
Kept ==
  \A e \in Ends : ~ cleared[e] =>
    \A k \in 0..(snd[e].pushed - 1) : k \in snd[e].window \/ Has(Peer(e), Start + k)

KcpInv == TypeOK /\ Windows /\ Reading /\ Flight /\ Kept

-----------------------------------------------------------------------------
(* What the operations on sequences do to the set of their elements.       *)

\* A concatenation has the elements of both parts.
LEMMA RangeConcat ==
  ASSUME NEW S, NEW s \in Seq(S), NEW t \in Seq(S)
  PROVE  Range(s \o t) = Range(s) \cup Range(t)
<1>1. ASSUME NEW x \in Range(s \o t) PROVE x \in Range(s) \cup Range(t)
  <2>1. PICK i \in 1..Len(s \o t) : x = (s \o t)[i]
    BY <1>1 DEF Range
  <2>2. CASE i <= Len(s)
    BY <2>1, <2>2 DEF Range
  <2>3. CASE i > Len(s)
    <3>1. x = t[i - Len(s)] /\ i - Len(s) \in 1..Len(t)
      BY <2>1, <2>3
    <3> QED BY <3>1 DEF Range
  <2> QED BY <2>2, <2>3
<1>2. ASSUME NEW x \in Range(s) PROVE x \in Range(s \o t)
  <2>1. PICK i \in 1..Len(s) : x = s[i]
    BY <1>2 DEF Range
  <2>2. x = (s \o t)[i] /\ i \in 1..Len(s \o t)
    BY <2>1
  <2> QED BY <2>2 DEF Range
<1>3. ASSUME NEW x \in Range(t) PROVE x \in Range(s \o t)
  <2>1. PICK i \in 1..Len(t) : x = t[i]
    BY <1>3 DEF Range
  <2>2. x = (s \o t)[Len(s) + i] /\ Len(s) + i \in 1..Len(s \o t)
    BY <2>1
  <2> QED BY <2>2 DEF Range
<1> QED BY Zenon, <1>1, <1>2, <1>3

\* Append adds one element.
LEMMA RangeAppend ==
  ASSUME NEW S, NEW s \in Seq(S), NEW x \in S
  PROVE  Range(Append(s, x)) = Range(s) \cup {x}
<1>1. ASSUME NEW y \in Range(Append(s, x)) PROVE y \in Range(s) \cup {x}
  <2>1. PICK i \in 1..Len(Append(s, x)) : y = Append(s, x)[i]
    BY <1>1 DEF Range
  <2>2. CASE i \in 1..Len(s)
    BY <2>1, <2>2 DEF Range
  <2>3. CASE i = Len(s) + 1
    BY <2>1, <2>3
  <2> QED BY <2>1, <2>2, <2>3
<1>2. ASSUME NEW y \in Range(s) PROVE y \in Range(Append(s, x))
  <2>1. PICK i \in 1..Len(s) : y = s[i]
    BY <1>2 DEF Range
  <2>2. y = Append(s, x)[i] /\ i \in 1..Len(Append(s, x))
    BY <2>1
  <2> QED BY <2>2 DEF Range
<1>3. x \in Range(Append(s, x))
  <2>1. x = Append(s, x)[Len(s) + 1] /\ Len(s) + 1 \in 1..Len(Append(s, x))
    OBVIOUS
  <2> QED BY <2>1 DEF Range
<1> QED BY Zenon, <1>1, <1>2, <1>3

\* A subsequence has no other elements.
LEMMA RangeSubSeq ==
  ASSUME NEW S, NEW s \in Seq(S), NEW m \in Int, NEW n \in Int, 1 <= m, n <= Len(s)
  PROVE  SubSeq(s, m, n) \in Seq(S) /\ Range(SubSeq(s, m, n)) \subseteq Range(s)
<1>1. SubSeq(s, m, n) \in Seq(S)
  OBVIOUS
<1>2. ASSUME NEW x \in Range(SubSeq(s, m, n)) PROVE x \in Range(s)
  <2>1. PICK i \in 1..Len(SubSeq(s, m, n)) : x = SubSeq(s, m, n)[i]
    BY <1>1, <1>2 DEF Range
  <2>2. x = s[m + i - 1] /\ m + i - 1 \in 1..Len(s)
    BY <2>1
  <2> QED BY <2>2 DEF Range
<1> QED BY Zenon, <1>1, <1>2

\* The tail has no other elements, and the head is one of them.
LEMMA RangeTail ==
  ASSUME NEW S, NEW s \in Seq(S), s # <<>>
  PROVE  /\ Tail(s) \in Seq(S) /\ Range(Tail(s)) \subseteq Range(s)
         /\ Head(s) \in Range(s) /\ Head(s) \in S
<1>1. Tail(s) \in Seq(S) /\ Len(s) \in Nat /\ Len(s) >= 1
  OBVIOUS
<1>2. ASSUME NEW x \in Range(Tail(s)) PROVE x \in Range(s)
  <2>1. PICK i \in 1..Len(Tail(s)) : x = Tail(s)[i]
    BY <1>1, <1>2 DEF Range
  <2>2. x = s[i + 1] /\ i + 1 \in 1..Len(s)
    BY <1>1, <2>1
  <2> QED BY <2>2 DEF Range
<1>3. Head(s) = s[1] /\ 1 \in 1..Len(s)
  BY <1>1
<1> QED BY <1>1, <1>2, <1>3 DEF Range

-----------------------------------------------------------------------------
(* Facts about the operators.                                              *)

\* There are two ends, and each is the peer of the other.
LEMMA PeerFacts ==
  ASSUME NEW e \in Ends
  PROVE  Peer(e) \in Ends /\ Peer(e) # e /\ Peer(Peer(e)) = e /\ \A f \in Ends : f # e => f = Peer(e)
BY KcpAssumption DEF Ends, Peer

\* Numbers do not wrap around.
LEMMA NumIs ==
  ASSUME load \in Loads, NEW e \in Ends, NEW k \in Nat, k <= load.writes[e] + WindowSize
  PROVE  Num(k) = Start + k
BY KcpAssumption, NoWrapAssumption DEF Num, Plus

\* uint32 addition does not leave the naturals.
LEMMA PlusNat ==
  ASSUME NEW x \in Nat, NEW y \in Nat
  PROVE  Plus(x, y) \in Nat
BY KcpAssumption DEF Plus

\* The place of the k-th segment in what is left over.
LEMMA Offset ==
  ASSUME NEW s \in Nat, NEW k \in Nat, NEW a \in Nat, NEW b \in Nat, s + k < s + a + b, k >= a
  PROVE  k - a + 1 \in 1..b /\ a + (k - a + 1) - 1 = k
OBVIOUS

\* What has been read is no more than what was sent.
LEMMA Within ==
  ASSUME NEW s \in Nat, NEW a \in Nat, NEW b \in Nat, NEW n, NEW p \in Nat, s + a + b = n, n <= s + p
  PROVE  a <= p
OBVIOUS

-----------------------------------------------------------------------------
(* The invariant holds at first, and what it says.                         *)

\* Two new connections.
LEMMA KcpInit == Init => KcpInv
<1> SUFFICES ASSUME Init PROVE KcpInv
  BY Zenon
<1>1. load \in Loads /\ \A e \in Ends : load.writes[e] \in Nat
  BY Zenon, NoWrapAssumption DEF Init
<1>2. Num(0) = Start
  <2>1. A \in Ends /\ load.writes[A] \in Nat /\ 0 <= load.writes[A] + WindowSize
    BY <1>1, KcpAssumption DEF Ends
  <2> QED BY <1>1, <2>1, NumIs, KcpAssumption
<1>3. Start \in Nat /\ Start \in Firsts
  BY Zenon, KcpAssumption DEF Firsts
<1> DEFINE s0 == [window |-> {}, pushed |-> 0, first |-> Num(0), updated |-> FALSE, remoteNext |-> RemoteNext]
           r0 == [next |-> Num(0), cache |-> {}, left |-> <<>>, acks |-> {}, dirty |-> FALSE]
<1>4. s0 \in SendingWorkers /\ s0.pushed = 0 /\ s0.window = {}
  BY Zenon, <1>2, <1>3, KcpAssumption DEF SendingWorkers
<1>5. r0 \in ReceivingWorkers /\ r0.next = Start /\ r0.cache = {} /\ r0.left = <<>> /\ r0.acks = {}
  BY <1>2, <1>3 DEF ReceivingWorkers
<1>6. snd = [e \in Ends |-> s0] /\ rcv = [e \in Ends |-> r0]
  BY Zenon DEF Init
<1> HIDE DEF s0, r0
<1>7. /\ snd \in [Ends -> SendingWorkers] /\ rcv \in [Ends -> ReceivingWorkers]
      /\ \A e \in Ends : snd[e] = s0 /\ rcv[e] = r0
  BY ZenonT(60), <1>4, <1>5, <1>6
<1>8. /\ \A e \in Ends : received[e] = <<>> /\ net[e] = <<>>
      /\ received \in [Ends -> Seq(Nat)] /\ net \in [Ends -> Seq(Packets)]
  BY DEF Init
<1>9. ControlOK
  <2>1. Idle \in CallRecords
    BY Zenon DEF Idle, Phase, CallRecords, Phases
  <2>2. call \in [Ends -> [Calls -> CallRecords]] /\ state \in [Ends -> States]
    BY Zenon, <2>1 DEF Init, States
  <2>3. /\ running \in [Ends -> BOOLEAN] /\ dying \in [Ends -> BOOLEAN]
        /\ released \in [Ends -> BOOLEAN] /\ cleared \in [Ends -> BOOLEAN]
        /\ expired \in [Ends -> BOOLEAN] /\ closed \in [Ends -> BOOLEAN]
        /\ missed \in [Ends -> BOOLEAN]
    BY Zenon DEF Init
  <2>4. owed \in [Ends -> Nat] /\ reader \in [Ends -> {"none", "look", "take", "check", "eof"}]
    BY DEF Init
  <2> QED BY Zenon, <2>2, <2>3, <2>4 DEF ControlOK
<1>10. TypeOK
  BY ZenonT(60), <1>1, <1>7, <1>8, <1>9 DEF TypeOK
<1>11. Windows
  BY <1>1, <1>3, <1>4, <1>5, <1>7, PeerFacts DEF Windows
<1>12. Reading
  <2> SUFFICES ASSUME NEW e \in Ends
               PROVE  rcv[e].left = <<>> /\ Continues(e, rcv[e].left, rcv[e].next)
    BY Zenon DEF Reading
  <2>1. Len(received[e]) = 0 /\ rcv[e].left = <<>> /\ Len(rcv[e].left) = 0 /\ rcv[e].next = Start
    BY <1>5, <1>7, <1>8
  <2> QED BY <1>3, <2>1 DEF Continues
<1>13. Flight
  BY <1>5, <1>7, <1>8 DEF Flight, Range
<1>14. Kept
  BY <1>4, <1>7 DEF Kept
<1> QED BY Zenon, <1>10, <1>11, <1>12, <1>13, <1>14 DEF KcpInv

\* The next number is past all that has been read.
LEMMA InvOrdered == KcpInv => DeliveredInOrder
<1> SUFFICES ASSUME KcpInv, NEW e \in Ends, Whole(e)
             PROVE  /\ Len(received[e]) <= snd[Peer(e)].pushed
                    /\ \A i \in 1..Len(received[e]) : received[e][i] = i - 1
  BY Zenon DEF DeliveredInOrder, Whole
<1>1. Peer(e) \in Ends
  BY Zenon, PeerFacts
<1>2. rcv[e] \in ReceivingWorkers /\ received[e] \in Seq(Nat) /\ snd[Peer(e)] \in SendingWorkers
  BY Zenon, <1>1 DEF KcpInv, TypeOK
<1>3. /\ Len(received[e]) \in Nat /\ snd[Peer(e)].pushed \in Nat /\ rcv[e].next \in Nat
      /\ Len(rcv[e].left) \in Nat
  BY <1>2 DEF SendingWorkers, ReceivingWorkers
<1>4. /\ Start + Len(received[e]) + Len(rcv[e].left) = rcv[e].next
      /\ rcv[e].next <= Start + snd[Peer(e)].pushed
      /\ \A i \in 1..Len(received[e]) : received[e][i] = i - 1
  BY Zenon DEF KcpInv, Reading, Windows, Continues
<1>5. Len(received[e]) <= snd[Peer(e)].pushed
  BY ZenonT(60), <1>3, <1>4, Within, KcpAssumption
<1> QED BY Zenon, <1>4, <1>5

\* A segment the peer has is read, left over or in its cache.
LEMMA InvAcknowledged == KcpInv => AckedMeansHeld
<1> SUFFICES ASSUME KcpInv, NEW e \in Ends, ~ cleared[e], ~ released[Peer(e)],
                    NEW k \in 0..(snd[e].pushed - 1), k \notin snd[e].window
             PROVE  k \in Held(Peer(e))
  BY Zenon DEF AckedMeansHeld
<1> DEFINE p == Peer(e)
<1>1. p \in Ends
  BY Zenon, PeerFacts
<1>2. rcv[p] \in ReceivingWorkers /\ received[p] \in Seq(Nat) /\ rcv[p].next \in Nat /\ rcv[p].left \in Seq(Nat)
  BY Zenon, <1>1 DEF KcpInv, TypeOK, ReceivingWorkers
<1>3. k \in Nat
  OBVIOUS
<1>4. Has(p, Start + k)
  BY Zenon DEF KcpInv, Kept
<1> HIDE DEF p
<1>5. /\ Start + Len(received[p]) + Len(rcv[p].left) = rcv[p].next
      /\ \A i \in 1..Len(rcv[p].left) : rcv[p].left[i] = Len(received[p]) + i - 1
      /\ \A i \in 1..Len(received[p]) : received[p][i] = i - 1
  BY Zenon, <1>1 DEF KcpInv, Reading, Whole, Continues, p
<1>6. CASE k < Len(received[p])
  <2>1. k + 1 \in 1..Len(received[p]) /\ received[p][k + 1] = k
    BY SMTT(30), <1>2, <1>3, <1>5, <1>6
  <2> QED BY Zenon, <2>1 DEF Held, p
<1>7. CASE Start + k < rcv[p].next /\ ~ (k < Len(received[p]))
  <2> DEFINE i == k - Len(received[p]) + 1
  <2>1. i \in 1..Len(rcv[p].left) /\ Len(received[p]) + i - 1 = k
    <3>1. Len(received[p]) \in Nat /\ Len(rcv[p].left) \in Nat
      BY <1>2
    <3>2. Start + k < Start + Len(received[p]) + Len(rcv[p].left)
      BY Zenon, <1>5, <1>7
    <3>3. k >= Len(received[p])
      BY <1>3, <1>7, <3>1
    <3>4. Start \in Nat
      BY Zenon, KcpAssumption
    <3> QED BY ZenonT(60), <1>3, <3>1, <3>2, <3>3, <3>4, Offset
  <2>2. rcv[p].left[i] = k
    BY ZenonT(60), <1>5, <2>1
  <2> HIDE DEF i
  <2> QED BY Zenon, <2>1, <2>2 DEF Held, p
<1>8. CASE Start + k \in Numbers(rcv[p])
  <2>1. PICK c \in rcv[p].cache : c[1] = Start + k
    BY Zenon, <1>8 DEF Numbers
  <2>2. c[1] = Start + c[2] /\ c[2] \in Nat
    BY Zenon, <1>1, <1>2 DEF KcpInv, Windows, ReceivingWorkers
  <2>3. c[2] = k
    BY <1>3, <2>1, <2>2, KcpAssumption
  <2> QED BY Zenon, <2>3 DEF Held, p
<1> QED BY Zenon, <1>4, <1>6, <1>7, <1>8 DEF Has

-----------------------------------------------------------------------------
(* The workers.                                                            *)

\* FindFirstUnacknowledged sets the window and keeps the count of segments.
LEMMA FindFirstType ==
  ASSUME NEW s \in SendingWorkers, NEW w \in SUBSET Nat
  PROVE  /\ FindFirstUnacknowledged(s, w) \in SendingWorkers
         /\ FindFirstUnacknowledged(s, w).window = w
         /\ FindFirstUnacknowledged(s, w).pushed = s.pushed
<1> DEFINE first == IF w # {} THEN FirstNumber(w) ELSE Num(s.pushed)
<1>1. first \in Firsts
  BY ZenonT(60), PlusNat, KcpAssumption DEF Firsts, Num, SendingWorkers
<1> HIDE DEF first
<1>2. FindFirstUnacknowledged(s, w)
        = [s EXCEPT !.window = w, !.first = first, !.updated = @ \/ first # s.first]
  BY Zenon DEF FindFirstUnacknowledged, first
<1> QED BY ZenonT(60), <1>1, <1>2 DEF SendingWorkers

\* Push adds the next segment to the window.
LEMMA PushType ==
  ASSUME NEW s \in SendingWorkers
  PROVE  LET p == [s EXCEPT !.window = @ \cup {s.pushed}, !.pushed = @ + 1]
         IN  p \in SendingWorkers /\ p.window = s.window \cup {s.pushed} /\ p.pushed = s.pushed + 1
<1>1. s.window \cup {s.pushed} \in SUBSET Nat /\ s.pushed + 1 \in Nat
  BY DEF SendingWorkers
<1> DEFINE w == s.window \cup {s.pushed}
           n == s.pushed + 1
<1> HIDE DEF w, n
<1>2. [s EXCEPT !.window = w, !.pushed = n] \in SendingWorkers
  BY ZenonT(60), <1>1 DEF SendingWorkers, w, n
<1> QED BY Zenon, <1>2 DEF SendingWorkers, w, n

\* A ReceivingWorker with another leftOver, or with its acknowledgements sent.
LEMMA ReceiverFields ==
  ASSUME NEW r \in ReceivingWorkers, NEW q \in Seq(Nat)
  PROVE  /\ [r EXCEPT !.left = q] \in ReceivingWorkers
         /\ [r EXCEPT !.dirty = FALSE] \in ReceivingWorkers
BY ZenonT(60) DEF ReceivingWorkers

\* The length of a concatenation.
LEMMA ConcatLen ==
  ASSUME NEW S, NEW s \in Seq(S), NEW t \in Seq(S)
  PROVE  Len(s \o t) = Len(s) + Len(t)
OBVIOUS

\* Taking n segments moves next on and takes them out of the cache.
LEMMA TakenFields ==
  ASSUME NEW r \in ReceivingWorkers, NEW n, Plus(r.next, n) \in Nat
  PROVE  /\ Taken(r, n) \in ReceivingWorkers
         /\ Taken(r, n).next = Plus(r.next, n) /\ Taken(r, n).acks = r.acks
         /\ Taken(r, n).cache = {c \in r.cache : \A i \in 0..(n - 1) : c[1] # Plus(r.next, i)}
<1> DEFINE k == Plus(r.next, n)
           w == {c \in r.cache : \A i \in 0..(n - 1) : c[1] # Plus(r.next, i)}
<1>1. Taken(r, n) = [r EXCEPT !.cache = w, !.next = k]
  BY Zenon DEF Taken
<1>2. w \in SUBSET (Nat \X Nat) /\ k \in Nat
  BY Zenon DEF ReceivingWorkers
<1> HIDE DEF k, w
<1>3. /\ Taken(r, n) \in ReceivingWorkers
      /\ Taken(r, n).next = k /\ Taken(r, n).acks = r.acks /\ Taken(r, n).cache = w
  BY ZenonT(60), <1>1, <1>2 DEF ReceivingWorkers
<1> QED BY Zenon, <1>3 DEF k, w

\* Segments leave the window for packets that tell of them.
LEMMA InputSndWindow ==
  ASSUME NEW e \in Ends, snd[e] \in SendingWorkers, NEW m \in Packets
  PROVE  /\ InputSnd(e, m) \in SendingWorkers
         /\ InputSnd(e, m).pushed = snd[e].pushed
         /\ InputSnd(e, m).window \subseteq snd[e].window
         /\ \A k \in snd[e].window \ InputSnd(e, m).window :
              m.type # "data" /\ (Num(k) < m.next \/ (m.type = "ack" /\ Num(k) \in m.numbers))
<1>1. snd[e].window \in SUBSET Nat
  BY Zenon DEF SendingWorkers
<1>2. ASSUME NEW una \in Nat
      PROVE  /\ Clear(snd[e].window, una) \subseteq snd[e].window
             /\ \A k \in snd[e].window \ Clear(snd[e].window, una) : Num(k) < una
  <2>1. ASSUME NEW k \in snd[e].window PROVE Num(k) \in Nat
    BY ZenonT(60), <1>1, PlusNat, KcpAssumption DEF Num
  <2> QED BY <1>1, <2>1 DEF Clear
<1>3. CASE m.type = "data" \/ (m.type = "ack" /\ released[e])
  BY Zenon, <1>3 DEF InputSnd
<1>4. CASE m.type = "ack" /\ ~ released[e]
  <2>1. m.next \in Nat /\ m.window \in Nat /\ m.numbers \in SUBSET Nat
    BY Zenon, <1>4 DEF Packets
  <2> DEFINE t == [snd[e] EXCEPT !.remoteNext = IF @ < m.window THEN m.window ELSE @]
             w == processAck(Clear(snd[e].window, m.next), m.numbers)
  <2>2. t \in SendingWorkers /\ t.pushed = snd[e].pushed
    BY Zenon, <2>1 DEF SendingWorkers
  <2>3. w \subseteq snd[e].window /\ w \in SUBSET Nat
    BY Zenon, <1>1, <1>2, <2>1 DEF processAck
  <2>4. \A k \in snd[e].window \ w : Num(k) < m.next \/ Num(k) \in m.numbers
    BY Zenon, <1>2, <2>1 DEF processAck
  <2>5. InputSnd(e, m) = FindFirstUnacknowledged(t, w)
    BY Zenon, <1>4 DEF InputSnd, ProcessAckSegment
  <2> HIDE DEF t, w
  <2>6. InputSnd(e, m) \in SendingWorkers /\ InputSnd(e, m).window = w
        /\ InputSnd(e, m).pushed = snd[e].pushed
    BY <2>2, <2>3, <2>5, FindFirstType
  <2> QED BY Zenon, <1>4, <2>3, <2>4, <2>6
<1>5. CASE m.type \in {"ping", "terminate"}
  <2>1. m.next \in Nat
    BY Zenon, <1>5 DEF Packets
  <2> DEFINE w == Clear(snd[e].window, m.next)
  <2>2. w \in SUBSET Nat
    BY Zenon, <1>1, <1>2, <2>1
  <2>3. InputSnd(e, m) = FindFirstUnacknowledged(snd[e], w)
    BY Zenon, <1>5 DEF InputSnd, ProcessReceivingNext
  <2>4. InputSnd(e, m) \in SendingWorkers /\ InputSnd(e, m).window = w
        /\ InputSnd(e, m).pushed = snd[e].pushed
    BY <2>2, <2>3, FindFirstType
  <2> QED BY Zenon, <1>2, <1>5, <2>1, <2>4
<1> QED BY Zenon, <1>3, <1>4, <1>5 DEF Packets

\* What a packet does to the receiving worker.
LEMMA InputRcvFacts ==
  ASSUME NEW e \in Ends, TypeOK, NEW m \in Packets
  PROVE  /\ InputRcv(e, m) \in ReceivingWorkers
         /\ InputRcv(e, m).next = rcv[e].next /\ InputRcv(e, m).left = rcv[e].left
         /\ rcv[e].cache \subseteq InputRcv(e, m).cache
         /\ \A c \in InputRcv(e, m).cache \ rcv[e].cache :
              /\ m.type = "data" /\ c = <<m.number, m.payload>>
              /\ Sub(m.number, rcv[e].next) < WindowSize
         /\ \A n \in InputRcv(e, m).acks \ rcv[e].acks :
              m.type = "data" /\ n = m.number /\ n \in Numbers(InputRcv(e, m))
<1>1. rcv[e] \in ReceivingWorkers
  BY Zenon DEF TypeOK
<1>2. CASE m.type = "data" /\ Sub(m.number, rcv[e].next) < WindowSize
  <2>1. m.number \in Nat /\ m.payload \in Nat
    BY Zenon, <1>2 DEF Packets
  <2> DEFINE a == {n \in rcv[e].acks : n >= m.sendingNext} \cup {m.number}
             c == IF m.number \in Numbers(rcv[e]) THEN rcv[e].cache
                  ELSE rcv[e].cache \cup {<<m.number, m.payload>>}
  <2>2. Sub(m.number, rcv[e].next) \in Int
    BY <1>1, <2>1, KcpAssumption DEF Sub, ReceivingWorkers
  <2>3. InputRcv(e, m) = [rcv[e] EXCEPT !.acks = a, !.dirty = TRUE, !.cache = c]
    BY <1>1, <1>2, <2>2, KcpAssumption DEF InputRcv, ProcessDataSegment, ReceivingWorkers
  <2>4. a \subseteq Nat /\ a \ rcv[e].acks \subseteq {m.number}
    BY Zenon, <1>1, <2>1 DEF ReceivingWorkers
  <2>5. c \subseteq Nat \X Nat /\ rcv[e].cache \subseteq c
        /\ c \ rcv[e].cache \subseteq {<<m.number, m.payload>>}
    BY <1>1, <2>1 DEF ReceivingWorkers
  <2>6. \E x \in c : x[1] = m.number
    <3>1. CASE m.number \in Numbers(rcv[e])
      BY Zenon, <3>1 DEF Numbers
    <3>2. CASE m.number \notin Numbers(rcv[e])
      <4>1. <<m.number, m.payload>> \in c /\ <<m.number, m.payload>>[1] = m.number
        BY Zenon, <3>2
      <4> QED BY Zenon, <4>1
    <3> QED BY Zenon, <3>1, <3>2
  <2> HIDE DEF a, c
  <2>7. /\ InputRcv(e, m) \in ReceivingWorkers
        /\ InputRcv(e, m).next = rcv[e].next /\ InputRcv(e, m).left = rcv[e].left
        /\ InputRcv(e, m).cache = c /\ InputRcv(e, m).acks = a
    BY ZenonT(60), <1>1, <2>3, <2>4, <2>5 DEF ReceivingWorkers
  <2>8. m.number \in Numbers(InputRcv(e, m))
    BY Zenon, <2>6, <2>7 DEF Numbers
  <2> QED BY Zenon, <1>2, <2>4, <2>5, <2>7, <2>8
<1>3. CASE m.type = "data" /\ ~ (Sub(m.number, rcv[e].next) < WindowSize)
  <2>1. Sub(m.number, rcv[e].next) \in Int
    BY <1>1, <1>3, KcpAssumption DEF Sub, ReceivingWorkers, Packets
  <2>2. InputRcv(e, m) = rcv[e]
    BY <1>1, <1>3, <2>1, KcpAssumption DEF InputRcv, ProcessDataSegment, ReceivingWorkers
  <2> QED BY Zenon, <1>1, <2>2
<1>4. CASE m.type = "ack"
  <2>1. InputRcv(e, m) = rcv[e]
    BY Zenon, <1>4 DEF InputRcv
  <2> QED BY Zenon, <1>1, <2>1
<1>5. CASE m.type \in {"ping", "terminate"}
  <2> DEFINE kept == {n \in rcv[e].acks : n >= m.sendingNext}
  <2>1. InputRcv(e, m) = [rcv[e] EXCEPT !.acks = kept, !.dirty = @ \/ kept # rcv[e].acks]
    BY Zenon, <1>5 DEF InputRcv, ProcessSendingNext
  <2>2. kept \subseteq rcv[e].acks
    BY Zenon
  <2> HIDE DEF kept
  <2> QED BY ZenonT(60), <1>1, <2>1, <2>2 DEF ReceivingWorkers
<1> QED BY Zenon, <1>2, <1>3, <1>4, <1>5 DEF Packets

\* The packets flush makes.
LEMMA PacketFacts ==
  ASSUME KcpInv, NEW e \in Ends, NEW s \in SendingWorkers, NEW st
  PROVE  /\ \A cmd \in {"ping", "terminate"} :
              Ping(s, rcv[e], st, cmd) \in Packets /\ Truthful(Peer(e), Ping(s, rcv[e], st, cmd))
         /\ AckSegment(rcv[e], st) \in Packets /\ Truthful(Peer(e), AckSegment(rcv[e], st))
         /\ \A k \in snd[e].window :
              DataSegment(s, k, st) \in Packets /\ Truthful(Peer(e), DataSegment(s, k, st))
<1>1. Peer(e) \in Ends /\ Peer(Peer(e)) = e
  BY Zenon, PeerFacts
<1>2. rcv[e] \in ReceivingWorkers /\ rcv[e].next \in Nat /\ rcv[e].acks \in SUBSET Nat
  BY Zenon DEF KcpInv, TypeOK, ReceivingWorkers
<1>3. s.first \in Firsts
  BY Zenon DEF SendingWorkers
<1>4. ASSUME NEW cmd \in {"ping", "terminate"}
      PROVE  Ping(s, rcv[e], st, cmd) \in Packets /\ Truthful(Peer(e), Ping(s, rcv[e], st, cmd))
  BY <1>1, <1>2, <1>3 DEF Ping, Packets, Truthful
<1>5. AckSegment(rcv[e], st) \in Packets /\ Truthful(Peer(e), AckSegment(rcv[e], st))
  <2>1. Plus(rcv[e].next, WindowSize) \in Nat
    BY ZenonT(60), <1>2, PlusNat, KcpAssumption
  <2>2. \A n \in rcv[e].acks : Has(e, n)
    BY Zenon DEF KcpInv, Flight
  <2> QED BY <1>1, <1>2, <2>1, <2>2 DEF AckSegment, Packets, Truthful
<1>6. ASSUME NEW k \in snd[e].window
      PROVE  DataSegment(s, k, st) \in Packets /\ Truthful(Peer(e), DataSegment(s, k, st))
  <2>1. k \in Nat /\ k < snd[e].pushed /\ snd[e].pushed \in Nat /\ snd[e].pushed <= load.writes[e]
    BY Zenon DEF KcpInv, TypeOK, SendingWorkers, Windows
  <2>2. load \in Loads /\ load.writes[e] \in Nat
    BY Zenon, NoWrapAssumption DEF KcpInv, TypeOK
  <2>3. k <= load.writes[e] + WindowSize
    BY <2>1, <2>2, KcpAssumption
  <2>4. Num(k) = Start + k /\ Num(k) \in Nat
    BY <2>1, <2>2, <2>3, NumIs, KcpAssumption
  <2> QED BY Zenon, <1>1, <1>3, <2>1, <2>4 DEF DataSegment, Packets, Truthful
<1> QED BY Zenon, <1>4, <1>5, <1>6

\* A list of segments of the window is a sequence of packets.
LEMMA SegmentList ==
  ASSUME KcpInv, NEW e \in Ends, NEW s \in SendingWorkers, NEW st, NEW D \in SUBSET snd[e].window,
         NEW f \in Transmissions(s, D)
  PROVE  LET q == [i \in DOMAIN f |-> DataSegment(s, f[i], st)]
         IN  q \in Seq(Packets) /\ \A m \in Range(q) : Truthful(Peer(e), m)
<1> DEFINE out == Flushed(s, D)
           q == [i \in DOMAIN f |-> DataSegment(s, f[i], st)]
<1>1. out \subseteq snd[e].window
  BY Zenon DEF Flushed
<1>2. f \in Seq(out)
  BY Zenon DEF Transmissions
<1> HIDE DEF out
<1>7. ASSUME NEW i \in DOMAIN f
      PROVE  DataSegment(s, f[i], st) \in Packets /\ Truthful(Peer(e), DataSegment(s, f[i], st))
  <2>1. f[i] \in snd[e].window
    BY <1>1, <1>2
  <2> QED BY Zenon, <2>1, PacketFacts
<1>8. DOMAIN f = 1..Len(f) /\ Len(f) \in Nat
  BY <1>2
<1>9. q \in Seq(Packets)
  BY <1>7, <1>8
<1>10. \A m \in Range(q) : Truthful(Peer(e), m)
  BY Zenon, <1>7 DEF Range
<1> QED BY Zenon, <1>9, <1>10

-----------------------------------------------------------------------------
(* What every step does, and why that keeps the invariant.                 *)

\* Nothing a packet tells of is undone.
Growing ==
  \A e \in Ends :
    /\ snd'[e].pushed >= snd[e].pushed
    /\ rcv'[e].next >= rcv[e].next
    /\ \A n \in Nat : Has(e, n) => Has(e, n)'

\* New packets and acknowledgements are truthful.
NewTruthful ==
  \A e \in Ends :
    /\ \A n \in rcv'[e].acks : n \in rcv[e].acks \/ Has(e, n)'
    /\ \A m \in Range(net'[e]) : m \in Range(net[e]) \/ Truthful(e, m)'

\* Segments enter the window when they are pushed and leave it when the peer
\* has them.
WindowStep ==
  \A e \in Ends : ~ cleared'[e] =>
    /\ ~ cleared[e]
    /\ \A k \in 0..(snd'[e].pushed - 1) :
         \/ k \in snd'[e].window
         \/ k < snd[e].pushed /\ k \notin snd[e].window
         \/ Has(Peer(e), Start + k)'

\* A step keeps the invariant if it keeps its local parts, loses nothing that is
\* held, sends only truthful packets and drops only segments that the peer has.
LEMMA Combine ==
  ASSUME KcpInv, TypeOK', Windows', Reading', Growing, NewTruthful, WindowStep
  PROVE  KcpInv'
<1>1. Flight'
  <2> SUFFICES ASSUME NEW e \in Ends
               PROVE  /\ \A n \in rcv'[e].acks : Has(e, n)'
                      /\ \A m \in Range(net'[e]) : Truthful(e, m)'
    BY Zenon DEF Flight
  <2>1. ASSUME NEW n \in rcv'[e].acks PROVE Has(e, n)'
    <3>1. n \in Nat
      BY Zenon DEF TypeOK, ReceivingWorkers
    <3> QED BY Zenon, <3>1 DEF KcpInv, Flight, Growing, NewTruthful
  <2>2. ASSUME NEW m \in Range(net[e]) PROVE Truthful(e, m)'
    <3>1. Truthful(e, m) /\ m \in Packets
      <4>1. net[e] \in Seq(Packets)
        BY Zenon DEF KcpInv, TypeOK
      <4> QED BY <4>1 DEF KcpInv, Flight, Range
    <3>2. Peer(e) \in Ends
      BY Zenon, PeerFacts
    <3>3. m.type = "data" => m.number = Start + m.payload /\ m.payload < snd'[Peer(e)].pushed
      <4>1. m.type = "data" => m.number = Start + m.payload /\ m.payload < snd[Peer(e)].pushed
        BY Zenon, <3>1 DEF Truthful
      <4>2. snd[Peer(e)].pushed \in Nat /\ snd'[Peer(e)].pushed \in Nat
        BY Zenon, <3>2 DEF KcpInv, TypeOK, SendingWorkers
      <4>3. m.type = "data" => m.payload \in Nat
        BY Zenon, <3>1 DEF Packets
      <4>4. snd'[Peer(e)].pushed >= snd[Peer(e)].pushed
        BY Zenon, <3>2 DEF Growing
      <4> QED BY <4>1, <4>2, <4>3, <4>4
    <3>4. m.type # "data" => m.next <= rcv'[Peer(e)].next
      <4>1. m.type # "data" => m.next <= rcv[Peer(e)].next
        BY Zenon, <3>1 DEF Truthful
      <4>2. rcv[Peer(e)].next \in Nat /\ rcv'[Peer(e)].next \in Nat
        BY Zenon, <3>2 DEF KcpInv, TypeOK, ReceivingWorkers
      <4>3. m.type # "data" => m.next \in Nat
        BY Zenon, <3>1 DEF Packets
      <4>4. rcv'[Peer(e)].next >= rcv[Peer(e)].next
        BY Zenon, <3>2 DEF Growing
      <4> QED BY <4>1, <4>2, <4>3, <4>4
    <3>5. m.type = "ack" => \A n \in m.numbers : Has(Peer(e), n)'
      BY Zenon, <3>1, <3>2 DEF Truthful, Growing, Packets
    <3> QED BY Zenon, <3>3, <3>4, <3>5 DEF Truthful
  <2> QED BY Zenon, <2>1, <2>2 DEF NewTruthful
<1>2. Kept'
  <2> SUFFICES ASSUME NEW e \in Ends, ~ cleared'[e], NEW k \in 0..(snd'[e].pushed - 1)
               PROVE  k \in snd'[e].window \/ Has(Peer(e), Start + k)'
    BY Zenon DEF Kept
  <2>1. CASE k < snd[e].pushed /\ k \notin snd[e].window
    <3>1. snd[e].pushed \in Nat /\ ~ cleared[e]
      BY Zenon DEF KcpInv, TypeOK, SendingWorkers, WindowStep
    <3>2. Has(Peer(e), Start + k)
      BY <2>1, <3>1 DEF KcpInv, Kept
    <3>3. Start + k \in Nat /\ Peer(e) \in Ends
      BY PeerFacts, KcpAssumption
    <3> QED BY Zenon, <3>2, <3>3 DEF Growing
  <2> QED BY Zenon, <2>1 DEF WindowStep
<1> QED BY Zenon, <1>1, <1>2 DEF KcpInv

\* The parts that are about unchanged state.
LEMMA SameWorkers ==
  ASSUME KcpInv, UNCHANGED <<load, snd, rcv, cleared>>
  PROVE  Windows' /\ Growing /\ WindowStep /\ (\A e \in Ends, n \in Nat : Has(e, n)' = Has(e, n))
<1>1. \A e \in Ends, n \in Nat : Has(e, n)' = Has(e, n)
  BY Zenon DEF Has
<1>2. Windows'
  BY Zenon DEF KcpInv, Windows
<1>3. Growing
  BY <1>1 DEF Growing, KcpInv, TypeOK, SendingWorkers, ReceivingWorkers
<1>4. WindowStep
  BY DEF WindowStep, KcpInv, TypeOK, SendingWorkers
<1> QED BY Zenon, <1>1, <1>2, <1>3, <1>4

\* The reader has been given nothing new.
LEMMA SameReading ==
  ASSUME KcpInv, UNCHANGED <<load, released, received>>,
         \A f \in Ends : rcv'[f].next = rcv[f].next /\ rcv'[f].left = rcv[f].left
  PROVE  Reading'
<1> SUFFICES ASSUME NEW f \in Ends
             PROVE  /\ f \notin load'.bytes => rcv'[f].left = <<>>
                    /\ Whole(f)' => Continues(f, rcv[f].left, rcv[f].next)'
  BY Zenon DEF Reading, Continues
<1>1. /\ f \notin load.bytes => rcv[f].left = <<>>
      /\ Whole(f) => Continues(f, rcv[f].left, rcv[f].next)
  BY Zenon DEF KcpInv, Reading
<1>2. Whole(f)' = Whole(f)
  BY Zenon DEF Whole
<1>3. rcv'[f].next = rcv[f].next /\ rcv'[f].left = rcv[f].left
  BY Zenon
<1> QED BY Zenon, <1>1, <1>2, <1>3 DEF Continues

\* A step that leaves the workers, the packets and the reader's data alone.
LEMMA QuietStep ==
  ASSUME KcpInv, ControlOK', UNCHANGED <<load, snd, rcv, released, cleared, received, net>>
  PROVE  KcpInv' /\ Growing
<1>1. TypeOK'
  BY Zenon DEF KcpInv, TypeOK
<1>2. Reading'
  BY Zenon DEF KcpInv, Reading, Whole, Continues
<1>3. NewTruthful
  BY Zenon DEF NewTruthful
<1> QED BY Zenon, <1>1, <1>2, <1>3, SameWorkers, Combine

-----------------------------------------------------------------------------
(* Calls.                                                                  *)

\* Call x of e goes on as c.
Calling(e, x, c) == call' = [call EXCEPT ![e][x] = c]

\* No other call is affected.
LEMMA CallStep ==
  ASSUME ControlOK, NEW e \in Ends, NEW x \in Calls, NEW c \in CallRecords, Calling(e, x, c)
  PROVE  /\ call' \in [Ends -> [Calls -> CallRecords]]
         /\ call'[e][x] = c
         /\ \A f \in Ends, y \in Calls : f # e \/ y # x => call'[f][y] = call[f][y]
<1> DEFINE d == [call[e] EXCEPT ![x] = c]
<1>1. call \in [Ends -> [Calls -> CallRecords]] /\ call[e] \in [Calls -> CallRecords]
  BY Zenon DEF ControlOK
<1>2. call' = [call EXCEPT ![e] = d]
  BY Zenon DEF Calling
<1>3. d \in [Calls -> CallRecords] /\ d[x] = c /\ \A y \in Calls : y # x => d[y] = call[e][y]
  BY Zenon, <1>1
<1> HIDE DEF d
<1> QED BY Zenon, <1>1, <1>2, <1>3

\* SetState, and going on without.
LEMMA SetStateCall ==
  ASSUME ControlOK, NEW e \in Ends, NEW x \in Calls, NEW st \in States \cup {None}, NEW p \in Phases,
         SetState(e, x, st, p)
  PROVE  \E c \in CallRecords : Calling(e, x, c) /\ c.at = p /\ c.set = st /\ c.entered = None
<1> DEFINE d == IF p = "idle" THEN None ELSE call[e][x].due
           c == [at |-> p, set |-> st, entered |-> None, due |-> d]
<1>1. call[e][x] \in CallRecords
  BY Zenon DEF ControlOK
<1>2. d \in {None, "some", "all", "late", "quiet"}
  <2>1. call[e][x].due \in {None, "some", "all", "late", "quiet"}
    BY Zenon, <1>1 DEF CallRecords
  <2> QED BY <2>1
<1>3. Calling(e, x, c)
  BY Zenon DEF SetState, Calling
<1> HIDE DEF d
<1>4. c \in CallRecords /\ c.at = p /\ c.set = st /\ c.entered = None
  BY Zenon, <1>2 DEF CallRecords
<1> QED BY Zenon, <1>3, <1>4

\* Goto.
LEMMA GotoCall ==
  ASSUME ControlOK, NEW e \in Ends, NEW x \in Calls, NEW p \in Phases, Goto(e, x, p)
  PROVE  \E c \in CallRecords : Calling(e, x, c) /\ c.at = p /\ c.set = None /\ c.entered = None
<1>1. SetState(e, x, None, p) /\ None \in States \cup {None}
  BY Zenon DEF Goto
<1> QED BY <1>1, SetStateCall

\* SetState if the state changes.
LEMMA MovesCall ==
  ASSUME ControlOK, NEW e \in Ends, NEW x \in Calls, NEW st \in States, NEW p \in Phases,
         Moves(e, x, st, p)
  PROVE  \E c \in CallRecords :
           /\ Calling(e, x, c) /\ c.at = p /\ c.entered = None
           /\ c.set = IF st # state[e] THEN st ELSE None
<1>1. CASE st # state[e]
  <2>1. SetState(e, x, st, p) /\ st \in States \cup {None}
    BY Zenon, <1>1 DEF Moves
  <2> QED BY <1>1, <2>1, SetStateCall
<1>2. CASE st = state[e]
  <2>1. Goto(e, x, p)
    BY Zenon, <1>2 DEF Moves
  <2> QED BY ZenonT(30), <1>2, <2>1, GotoCall
<1> QED BY Zenon, <1>1, <1>2

\* The states that calls lead to.
LEMMA AfterStates ==
  ASSUME NEW st \in States
  PROVE  AfterClose(st) \in States /\ OnPeerClosed(st) \in States /\ OnTerminate(st) \in States
BY Zenon DEF States, AfterClose, OnPeerClosed, OnTerminate

\* The names of the calls.
LEMMA CallNames ==
  /\ "close" \in Calls /\ "input" \in Calls /\ "write" \in Calls /\ "data" \in Calls /\ "ping" \in Calls
  /\ Updaters \subseteq Calls
BY Zenon DEF Calls, Updaters

\* A flag of one end that is raised.
LEMMA Raised ==
  ASSUME NEW v, NEW w, v \in [Ends -> BOOLEAN], NEW e \in Ends, NEW b \in BOOLEAN,
         w = [v EXCEPT ![e] = @ \/ b]
  PROVE  /\ w \in [Ends -> BOOLEAN] /\ w[e] = (v[e] \/ b)
         /\ \A f \in Ends : f # e => w[f] = v[f]
BY Zenon

\* StoreState.
LEMMA StoreCall ==
  ASSUME ControlOK, NEW e \in Ends, NEW x \in Calls, StoreState(e, x)
  PROVE  /\ call[e][x].set \in States
         /\ \E c \in CallRecords :
              /\ Calling(e, x, c) /\ c.at = call[e][x].at /\ c.set = None
              /\ c.entered = IF call[e][x].set = "ReadyToClose" THEN None ELSE call[e][x].set
<1> DEFINE n == IF call[e][x].set = "ReadyToClose" THEN None ELSE call[e][x].set
           c == [call[e][x] EXCEPT !.set = None, !.entered = n]
<1>1. call[e][x] \in CallRecords
  BY Zenon DEF ControlOK
<1>2. call[e][x].set \in States /\ n \in States \cup {None}
  BY Zenon, <1>1 DEF StoreState, CallRecords
<1>3. Calling(e, x, c)
  BY Zenon DEF StoreState, Calling
<1> HIDE DEF n
<1>4. c \in CallRecords /\ c.at = call[e][x].at /\ c.set = None /\ c.entered = n
  BY ZenonT(60), <1>1, <1>2 DEF CallRecords
<1> QED BY Zenon, <1>2, <1>3, <1>4 DEF n

\* EnterState.
LEMMA EnterCall ==
  ASSUME ControlOK, NEW e \in Ends, NEW x \in Calls, EnterState(e, x)
  PROVE  \E c \in CallRecords :
           Calling(e, x, c) /\ c.at = call[e][x].at /\ c.set = call[e][x].set /\ c.entered = None
<1> DEFINE c == [call[e][x] EXCEPT !.entered = None]
<1>1. call[e][x] \in CallRecords
  BY Zenon DEF ControlOK
<1>2. Calling(e, x, c)
  BY Zenon DEF EnterState, Calling
<1>3. c \in CallRecords /\ c.at = call[e][x].at /\ c.set = call[e][x].set /\ c.entered = None
  BY ZenonT(60), <1>1 DEF CallRecords
<1> QED BY Zenon, <1>2, <1>3

\* A call goes on, and at most the state and the history of its end change.
LEMMA QuietCall ==
  ASSUME KcpInv, NEW e \in Ends, NEW x \in Calls, NEW c \in CallRecords, Calling(e, x, c),
         state' \in [Ends -> States], expired' \in [Ends -> BOOLEAN], closed' \in [Ends -> BOOLEAN],
         owed' \in [Ends -> Nat],
         UNCHANGED <<load, snd, rcv, running, dying, released, cleared, reader, received, missed, net>>
  PROVE  KcpInv' /\ Growing
<1>1. ControlOK
  BY Zenon DEF KcpInv, TypeOK
<1>2. call' \in [Ends -> [Calls -> CallRecords]]
  BY Zenon, <1>1, CallStep
<1>3. ControlOK'
  BY Zenon, <1>1, <1>2 DEF ControlOK
<1> QED BY Zenon, <1>3, QuietStep

\* StoreState: only the state of the connection changes.
LEMMA StoreStep ==
  ASSUME KcpInv, NEW e \in Ends, NEW x \in Calls, StoreState(e, x)
  PROVE  KcpInv' /\ Growing
<1>1. ControlOK
  BY Zenon DEF KcpInv, TypeOK
<1>2. state' = [state EXCEPT ![e] = call[e][x].set]
      /\ UNCHANGED <<load, snd, rcv, running, dying, released, cleared, reader, received, missed, net>>
      /\ UNCHANGED <<expired, closed, owed>>
  BY Zenon DEF StoreState, lifeVars, appVars
<1>3. call[e][x].set \in States /\ \E c \in CallRecords : Calling(e, x, c)
  BY Zenon, <1>1, StoreCall
<1>4. state' \in [Ends -> States]
  BY Zenon, <1>1, <1>2, <1>3 DEF ControlOK
<1> QED BY ZenonT(60), <1>1, <1>2, <1>3, <1>4, QuietCall DEF ControlOK

\* Close.
LEMMA CloseStep ==
  ASSUME KcpInv, NEW e \in Ends, Close(e)
  PROVE  KcpInv' /\ Growing
<1>1. ControlOK /\ snd[e] \in SendingWorkers
  BY Zenon DEF KcpInv, TypeOK
<1>2. /\ closed' = [closed EXCEPT ![e] = TRUE] /\ owed' = [owed EXCEPT ![e] = snd[e].pushed]
      /\ Moves(e, "close", AfterClose(state[e]), "idle")
      /\ UNCHANGED <<load, snd, rcv, running, dying, released, cleared, reader, received, missed, net>>
      /\ UNCHANGED <<state, expired>>
  BY Zenon DEF Close, lifeVars
<1>3. state[e] \in States /\ "close" \in Calls /\ "idle" \in Phases
  BY Zenon, <1>1, CallNames DEF ControlOK, Phases
<1>4. \E c \in CallRecords : Calling(e, "close", c)
  BY Zenon, <1>1, <1>2, <1>3, AfterStates, MovesCall
<1>5. closed' \in [Ends -> BOOLEAN] /\ owed' \in [Ends -> Nat]
  BY Zenon, <1>1, <1>2 DEF ControlOK, SendingWorkers
<1> QED BY ZenonT(60), <1>1, <1>2, <1>3, <1>4, <1>5, QuietCall DEF ControlOK

\* What Input does before the workers are called.
LEMMA OptionCall ==
  ASSUME ControlOK, NEW e \in Ends, HandleOption(e)
  PROVE  \E c \in CallRecords :
           /\ Calling(e, "input", c) /\ c.entered = None
           /\ c.at = IF Head(net[e]).type = "terminate" THEN "command" ELSE "worker"
           /\ c.set = IF Head(net[e]).close /\ OnPeerClosed(state[e]) # state[e]
                      THEN OnPeerClosed(state[e]) ELSE None
<1> DEFINE p == IF Head(net[e]).type = "terminate" THEN "command" ELSE "worker"
<1>1. state[e] \in States /\ "input" \in Calls /\ p \in Phases
  BY Zenon, CallNames DEF ControlOK, Phases
<1>2. IF Head(net[e]).close THEN Moves(e, "input", OnPeerClosed(state[e]), p) ELSE Goto(e, "input", p)
  BY Zenon DEF HandleOption
<1> HIDE DEF p
<1>3. CASE Head(net[e]).close
  <2>1. \E c \in CallRecords :
           /\ Calling(e, "input", c) /\ c.at = p /\ c.entered = None
           /\ c.set = IF OnPeerClosed(state[e]) # state[e] THEN OnPeerClosed(state[e]) ELSE None
    <3> DEFINE st == OnPeerClosed(state[e])
    <3>1. st \in States /\ Moves(e, "input", st, p)
      BY Zenon, <1>1, <1>2, <1>3, AfterStates
    <3> HIDE DEF st
    <3>2. \E c \in CallRecords :
            /\ Calling(e, "input", c) /\ c.at = p /\ c.entered = None
            /\ c.set = IF st # state[e] THEN st ELSE None
      BY <1>1, <3>1, MovesCall
    <3> QED BY Zenon, <3>2 DEF st
  <2> QED BY Zenon, <1>3, <2>1 DEF p
<1>4. CASE ~ Head(net[e]).close
  <2>1. \E c \in CallRecords : Calling(e, "input", c) /\ c.at = p /\ c.set = None /\ c.entered = None
    BY Zenon, <1>1, <1>2, <1>4, GotoCall
  <2> QED BY Zenon, <1>4, <2>1 DEF p
<1> QED BY Zenon, <1>3, <1>4

\* A terminate command.
LEMMA CommandCall ==
  ASSUME ControlOK, NEW e \in Ends, HandleTerminate(e)
  PROVE  \E c \in CallRecords :
           /\ Calling(e, "input", c) /\ c.at = "worker" /\ c.entered = None
           /\ c.set = IF OnTerminate(state[e]) # state[e] THEN OnTerminate(state[e]) ELSE None
<1>1. state[e] \in States /\ "input" \in Calls /\ "worker" \in Phases
  BY Zenon, CallNames DEF ControlOK, Phases
<1>2. Moves(e, "input", OnTerminate(state[e]), "worker")
  BY Zenon DEF HandleTerminate
<1> DEFINE st == OnTerminate(state[e])
<1>3. st \in States /\ Moves(e, "input", st, "worker")
  BY Zenon, <1>1, <1>2, AfterStates
<1> HIDE DEF st
<1>4. \E c \in CallRecords :
        /\ Calling(e, "input", c) /\ c.at = "worker" /\ c.entered = None
        /\ c.set = IF st # state[e] THEN st ELSE None
  BY <1>1, <1>3, MovesCall
<1> QED BY Zenon, <1>4 DEF st

\* The two of them.
LEMMA InputBeginsStep ==
  ASSUME KcpInv, NEW e \in Ends, HandleOption(e) \/ HandleTerminate(e)
  PROVE  KcpInv' /\ Growing
<1>1. ControlOK
  BY Zenon DEF KcpInv, TypeOK
<1>2. /\ UNCHANGED <<load, snd, rcv, running, dying, released, cleared, reader, received, missed, net>>
      /\ UNCHANGED <<state, expired, closed, owed>>
  BY ZenonT(60) DEF HandleOption, HandleTerminate, lifeVars, appVars
<1>3. \E c \in CallRecords : Calling(e, "input", c)
  BY Zenon, <1>1, OptionCall, CommandCall
<1> QED BY ZenonT(60), <1>1, <1>2, <1>3, CallNames, QuietCall DEF ControlOK

\* flush before it sends anything.
LEMMA FlushBeginsCall ==
  ASSUME ControlOK, NEW e \in Ends, NEW u \in Updaters, NEW due \in Dues, FlushBegins(e, u, due)
  PROVE  \E c \in CallRecords :
           /\ Calling(e, u, c) /\ c.at = (IF due = "quiet" THEN "close" ELSE "drain")
           /\ c.set = None /\ c.entered = None
<1> DEFINE p == IF due = "quiet" THEN "close" ELSE "drain"
           c == [Phase(p) EXCEPT !.due = due]
<1>1. p \in Phases
  BY Zenon DEF Phases
<1>2. due \in {None, "some", "all", "late", "quiet"}
  BY Zenon DEF Dues
<1>3. Calling(e, u, c)
  BY Zenon DEF FlushBegins, Calling
<1> HIDE DEF p
<1>4. c \in CallRecords /\ c.at = p /\ c.set = None /\ c.entered = None
  BY Zenon, <1>1, <1>2 DEF Phase, CallRecords
<1> QED BY Zenon, <1>3, <1>4 DEF p

\* The end of ReadyToClose.
LEMMA FlushClosesCall ==
  ASSUME ControlOK, NEW e \in Ends, NEW u \in Updaters, FlushCloses(e, u)
  PROVE  \E c \in CallRecords :
           /\ Calling(e, u, c) /\ c.entered = None
           /\ \/ /\ call[e][u].at = "close" /\ c.at = "drain"
              \/ /\ call[e][u].at = "drain" /\ c.set = None
                 /\ c.at = IF state[e] = "ReadyToClose" THEN "empty" ELSE "ask"
              \/ /\ call[e][u].at = "empty" /\ c.at = "ask"
                 /\ c.set = IF snd[e].window = {} THEN "Terminating" ELSE None
<1>1. u \in Calls /\ state[e] \in States
  BY Zenon, CallNames DEF ControlOK
<1>2. \A p : At(e, u, p) => call[e][u].at = p
  BY Zenon DEF At, Phase
<1>3. CASE At(e, u, "close") /\ Moves(e, u, AfterClose(state[e]), "drain")
  <2>1. "drain" \in Phases
    BY Zenon DEF Phases
  <2>2. AfterClose(state[e]) \in States /\ Moves(e, u, AfterClose(state[e]), "drain")
    BY Zenon, <1>1, <1>3, AfterStates
  <2>3. \E c \in CallRecords : Calling(e, u, c) /\ c.at = "drain" /\ c.entered = None
    BY <1>1, <2>1, <2>2, MovesCall
  <2> QED BY Zenon, <1>2, <1>3, <2>3
<1>4. CASE At(e, u, "drain") /\ Goto(e, u, IF state[e] = "ReadyToClose" THEN "empty" ELSE "ask")
  <2> DEFINE p == IF state[e] = "ReadyToClose" THEN "empty" ELSE "ask"
  <2>1. p \in Phases
    BY Zenon DEF Phases
  <2> HIDE DEF p
  <2>2. Goto(e, u, p)
    BY Zenon, <1>4 DEF p
  <2> QED BY ZenonT(30), <1>1, <1>2, <1>4, <2>1, <2>2, GotoCall DEF p
<1>5. CASE At(e, u, "empty") /\ SetState(e, u, IF snd[e].window = {} THEN "Terminating" ELSE None, "ask")
  <2> DEFINE st == IF snd[e].window = {} THEN "Terminating" ELSE None
  <2>1. st \in States \cup {None} /\ "ask" \in Phases
    BY Zenon DEF Phases, States
  <2>2. SetState(e, u, st, "ask")
    BY Zenon, <1>5
  <2> HIDE DEF st
  <2>3. \E c \in CallRecords : Calling(e, u, c) /\ c.at = "ask" /\ c.set = st /\ c.entered = None
    BY <1>1, <2>1, <2>2, SetStateCall
  <2> QED BY Zenon, <1>2, <1>5, <2>3 DEF st
<1> QED BY Zenon, <1>3, <1>4, <1>5 DEF FlushCloses

\* The timers.
LEMMA FlushTimersCall ==
  ASSUME ControlOK, NEW e \in Ends, NEW u \in Updaters, FlushTimers(e, u)
  PROVE  \E c \in CallRecords :
           /\ Calling(e, u, c) /\ c.entered = None /\ c.set \in {None, "Terminating"}
           /\ \/ c.at = "terminate" /\ state[e] = "Terminating" /\ c.set = None
              \/ c.at \in {"ready", "acks"}
           /\ Expires(e, c.set # None)
<1>1. /\ u \in Calls /\ state[e] \in States /\ {"ready", "acks", "terminate"} \subseteq Phases
      /\ "Terminating" \in States \cup {None} /\ None \in States \cup {None}
  BY Zenon, CallNames DEF ControlOK, Phases, States
<1>2. \/ state[e] = "Terminating" /\ Goto(e, u, "terminate")
      \/ \E p \in {"ready", "acks"}, st \in {None, "Terminating"} : SetState(e, u, st, p)
  BY ZenonT(60) DEF FlushTimers, Goto
<1>3. Expires(e, call'[e][u].set # None)
  BY Zenon DEF FlushTimers
<1>4. CASE state[e] = "Terminating" /\ Goto(e, u, "terminate")
  <2>1. PICK c \in CallRecords : Calling(e, u, c) /\ c.at = "terminate" /\ c.set = None /\ c.entered = None
    BY Zenon, <1>1, <1>4, GotoCall
  <2>2. call'[e][u] = c
    BY Zenon, <1>1, <2>1, CallStep
  <2> QED BY Zenon, <1>3, <1>4, <2>1, <2>2
<1>5. ASSUME NEW p \in {"ready", "acks"}, NEW st \in {None, "Terminating"}, SetState(e, u, st, p)
      PROVE  \E c \in CallRecords :
               /\ Calling(e, u, c) /\ c.entered = None /\ c.set \in {None, "Terminating"}
               /\ c.at \in {"ready", "acks"}
               /\ Expires(e, c.set # None)
  <2>1. p \in Phases /\ st \in States \cup {None}
    BY Zenon, <1>1
  <2>2. PICK c \in CallRecords : Calling(e, u, c) /\ c.at = p /\ c.set = st /\ c.entered = None
    BY <1>1, <1>5, <2>1, SetStateCall
  <2>3. call'[e][u] = c
    BY Zenon, <1>1, <2>2, CallStep
  <2> QED BY Zenon, <1>3, <2>2, <2>3
<1> QED BY Zenon, <1>2, <1>4, <1>5

\* All of them keep the invariant.
LEMMA FlushBeginsStep ==
  ASSUME KcpInv, NEW e \in Ends, NEW u \in Updaters,
         (\E due \in Dues : FlushBegins(e, u, due)) \/ FlushCloses(e, u) \/ FlushTimers(e, u)
  PROVE  KcpInv' /\ Growing
<1>1. ControlOK /\ u \in Calls
  BY Zenon, CallNames DEF KcpInv, TypeOK
<1>2. /\ UNCHANGED <<load, snd, rcv, running, dying, released, cleared, reader, received, missed, net>>
      /\ UNCHANGED <<state, closed, owed>>
      /\ \E late \in BOOLEAN : expired' = [expired EXCEPT ![e] = @ \/ late]
  <2>1. ASSUME NEW due \in Dues, FlushBegins(e, u, due)
        PROVE  /\ UNCHANGED <<load, snd, rcv, running, dying, released, cleared, reader, received, missed, net>>
               /\ UNCHANGED <<state, closed, owed>>
               /\ \E late \in BOOLEAN : expired' = [expired EXCEPT ![e] = @ \/ late]
    BY ZenonT(60), <2>1 DEF FlushBegins, appVars, Expires
  <2>2. CASE FlushCloses(e, u)
    <3>1. expired' = expired /\ expired \in [Ends -> BOOLEAN]
      BY Zenon, <1>1, <2>2 DEF FlushCloses, lifeVars, ControlOK
    <3>2. expired' = [expired EXCEPT ![e] = @ \/ FALSE]
      BY <3>1
    <3> QED BY ZenonT(60), <2>2, <3>2 DEF FlushCloses, lifeVars, appVars
  <2>3. CASE FlushTimers(e, u)
    BY ZenonT(60), <2>3 DEF FlushTimers, appVars, Expires
  <2> QED BY Zenon, <2>1, <2>2, <2>3
<1>3. \E c \in CallRecords : Calling(e, u, c)
  BY Zenon, <1>1, FlushBeginsCall, FlushClosesCall, FlushTimersCall
<1>4. expired' \in [Ends -> BOOLEAN]
  BY Zenon, <1>1, <1>2, Raised DEF ControlOK
<1> QED BY ZenonT(60), <1>1, <1>2, <1>3, <1>4, QuietCall DEF ControlOK

\* A write begins.
LEMMA WriteBeginsCall ==
  ASSUME ControlOK, NEW e \in Ends, WriteBegins(e)
  PROVE  \E c \in CallRecords : Calling(e, "write", c) /\ c.at = "push" /\ c.set = None /\ c.entered = None
<1>1. "write" \in Calls /\ "push" \in Phases /\ Goto(e, "write", "push")
  BY Zenon, CallNames DEF Phases, WriteBegins
<1> QED BY Zenon, <1>1, GotoCall

\* It leaves the workers alone.
LEMMA WriteBeginsStep ==
  ASSUME KcpInv, NEW e \in Ends, WriteBegins(e)
  PROVE  KcpInv' /\ Growing
<1>1. ControlOK
  BY Zenon DEF KcpInv, TypeOK
<1>2. /\ UNCHANGED <<load, snd, rcv, running, dying, released, cleared, reader, received, missed, net>>
      /\ UNCHANGED <<state, expired, closed, owed>>
  BY ZenonT(60) DEF WriteBegins, lifeVars, appVars
<1>3. \E c \in CallRecords : Calling(e, "write", c)
  BY Zenon, <1>1, WriteBeginsCall
<1> QED BY ZenonT(60), <1>1, <1>2, <1>3, CallNames, QuietCall DEF ControlOK

\* The end of the ping updater, and the looks of a read.
LEMMA LookStep ==
  ASSUME KcpInv, NEW e \in Ends, UpdaterEnds(e) \/ ReadLook(e) \/ ReadCheck(e)
  PROVE  KcpInv' /\ Growing
<1>1. ControlOK
  BY Zenon DEF KcpInv, TypeOK
<1>2. CASE UpdaterEnds(e)
  <2>1. /\ UNCHANGED <<load, snd, rcv, released, cleared, received, net>>
        /\ UNCHANGED <<state, call, dying, expired, reader, missed, closed, owed>>
        /\ running' = [running EXCEPT ![e] = FALSE]
    BY Zenon, <1>2 DEF UpdaterEnds, appVars
  <2>2. running' \in [Ends -> BOOLEAN]
    BY Zenon, <1>1, <2>1 DEF ControlOK
  <2>3. ControlOK'
    BY Zenon, <1>1, <2>1, <2>2 DEF ControlOK
  <2> QED BY Zenon, <2>1, <2>3, QuietStep
<1>3. CASE ReadLook(e)
  <2>1. /\ UNCHANGED <<load, snd, rcv, released, cleared, received, net>>
        /\ UNCHANGED <<state, call, running, dying, expired, missed, closed, owed>>
        /\ reader' = [reader EXCEPT ![e] = IF AtEnd(state[e]) THEN "eof" ELSE "take"]
    BY Zenon, <1>3 DEF ReadLook, lifeVars
  <2>2. reader' \in [Ends -> {"none", "look", "take", "check", "eof"}]
    BY Zenon, <1>1, <2>1 DEF ControlOK
  <2>3. ControlOK'
    BY Zenon, <1>1, <2>1, <2>2 DEF ControlOK
  <2> QED BY Zenon, <2>1, <2>3, QuietStep
<1>4. CASE ReadCheck(e)
  <2> DEFINE ends == state[e] = "PeerTerminating" /\ e \notin load.bytes
             b == ends /\ rcv[e].next \in Numbers(rcv[e])
  <2>1. /\ UNCHANGED <<load, snd, rcv, released, cleared, received, net>>
        /\ UNCHANGED <<state, call, running, dying, expired, closed, owed>>
        /\ reader' = [reader EXCEPT ![e] = IF ends THEN "eof" ELSE "look"]
        /\ missed' = [missed EXCEPT ![e] = b]
    BY Zenon, <1>4 DEF ReadCheck, lifeVars
  <2>2. reader' \in [Ends -> {"none", "look", "take", "check", "eof"}]
    BY Zenon, <1>1, <2>1 DEF ControlOK
  <2>3. missed' \in [Ends -> BOOLEAN]
    <3>1. b \in BOOLEAN
      BY Zenon
    <3> HIDE DEF b
    <3> QED BY Zenon, <1>1, <2>1, <3>1 DEF ControlOK
  <2>4. ControlOK'
    BY Zenon, <1>1, <2>1, <2>2, <2>3 DEF ControlOK
  <2> QED BY Zenon, <2>1, <2>4, QuietStep
<1> QED BY Zenon, <1>2, <1>3, <1>4

-----------------------------------------------------------------------------
(* Faults and Write.                                                       *)

\* The network: what is left of the packets after a fault was there before.
LEMMA WithoutSeq ==
  ASSUME NEW q \in Seq(Packets), NEW i \in 1..Len(q)
  PROVE  Without(q, i) \in Seq(Packets) /\ Range(Without(q, i)) \subseteq Range(q)
<1> DEFINE a == SubSeq(q, 1, i - 1)
           b == SubSeq(q, i + 1, Len(q))
<1>1. a \in Seq(Packets) /\ Range(a) \subseteq Range(q)
  BY RangeSubSeq
<1>2. b \in Seq(Packets) /\ Range(b) \subseteq Range(q)
  BY RangeSubSeq
<1> HIDE DEF a, b
<1>3. a \o b \in Seq(Packets) /\ Range(a \o b) = Range(a) \cup Range(b)
  BY <1>1, <1>2, RangeConcat
<1> QED BY Zenon, <1>1, <1>2, <1>3 DEF Without, a, b

\* A fault changes the order and the number of the packets, and makes up none.
LEMMA FaultNet ==
  ASSUME KcpInv, NEW e \in Ends, Fault(e)
  PROVE  net' \in [Ends -> Seq(Packets)] /\ \A f \in Ends : Range(net'[f]) \subseteq Range(net[f])
<1>1. net[e] \in Seq(Packets) /\ net \in [Ends -> Seq(Packets)]
  BY Zenon DEF KcpInv, TypeOK
<1>2. \E q \in Seq(Packets) : net' = [net EXCEPT ![e] = q] /\ Range(q) \subseteq Range(net[e])
  <2>1. PICK i \in 1..Len(net[e]) :
          \/ net' = [net EXCEPT ![e] = Without(@, i)]
          \/ net' = [net EXCEPT ![e] = Append(@, @[i])]
          \/ net' = [net EXCEPT ![e] = Append(Without(@, i), @[i])]
    BY Zenon DEF Fault
  <2>2. net[e][i] \in Packets /\ net[e][i] \in Range(net[e])
    BY <1>1 DEF Range
  <2>3. Without(net[e], i) \in Seq(Packets) /\ Range(Without(net[e], i)) \subseteq Range(net[e])
    BY Zenon, <1>1, WithoutSeq
  <2>4. /\ Append(net[e], net[e][i]) \in Seq(Packets)
        /\ Range(Append(net[e], net[e][i])) \subseteq Range(net[e])
    BY <1>1, <2>2, RangeAppend
  <2>5. /\ Append(Without(net[e], i), net[e][i]) \in Seq(Packets)
        /\ Range(Append(Without(net[e], i), net[e][i])) \subseteq Range(net[e])
    BY <2>2, <2>3, RangeAppend
  <2> QED BY ZenonT(60), <1>1, <2>1, <2>3, <2>4, <2>5
<1> QED BY Zenon, <1>1, <1>2

\* A fault.
LEMMA FaultStep ==
  ASSUME KcpInv, NEW e \in Ends, Fault(e)
  PROVE  KcpInv' /\ Growing
<1>1. /\ UNCHANGED <<load, state, call, snd, rcv, running, dying, released, cleared, expired, received>>
      /\ UNCHANGED <<reader, missed, closed, owed>>
  BY Zenon DEF Fault, lifeVars, appVars
<1>2. net' \in [Ends -> Seq(Packets)] /\ \A f \in Ends : Range(net'[f]) \subseteq Range(net[f])
  BY Zenon, FaultNet
<1>3. ControlOK'
  BY Zenon, <1>1 DEF KcpInv, TypeOK, ControlOK
<1>4. TypeOK'
  BY Zenon, <1>1, <1>2, <1>3 DEF KcpInv, TypeOK
<1>5. Reading'
  BY Zenon, <1>1 DEF KcpInv, Reading, Whole, Continues
<1>6. NewTruthful
  BY Zenon, <1>1, <1>2 DEF NewTruthful
<1> QED BY Zenon, <1>1, <1>4, <1>5, <1>6, SameWorkers, Combine

\* The end of a write.
LEMMA WriteCall ==
  ASSUME ControlOK, NEW e \in Ends, WritePushes(e)
  PROVE  \E c \in CallRecords : Calling(e, "write", c) /\ c.at = "idle" /\ c.set = None /\ c.entered = None
<1>1. "write" \in Calls /\ "idle" \in Phases /\ Goto(e, "write", "idle")
  BY Zenon, CallNames DEF Phases, WritePushes
<1> QED BY Zenon, <1>1, GotoCall

\* The application writes a segment.
LEMMA WriteStep ==
  ASSUME KcpInv, NEW e \in Ends, WritePushes(e)
  PROVE  KcpInv' /\ Growing
<1>1. /\ UNCHANGED <<load, state, rcv, running, dying, released, cleared, expired, received, net>>
      /\ UNCHANGED <<reader, missed, closed, owed>>
      /\ snd[e].pushed < load.writes[e]
  BY Zenon DEF WritePushes, lifeVars, appVars
<1>2. snd \in [Ends -> SendingWorkers] /\ snd[e] \in SendingWorkers
  BY Zenon DEF KcpInv, TypeOK
<1>3. \E s \in SendingWorkers :
        /\ snd' = [snd EXCEPT ![e] = s]
        /\ s = snd[e] \/ (s.window = snd[e].window \cup {snd[e].pushed} /\ s.pushed = snd[e].pushed + 1)
  <2> DEFINE p == [snd[e] EXCEPT !.window = @ \cup {snd[e].pushed}, !.pushed = @ + 1]
  <2>1. p \in SendingWorkers /\ p.window = snd[e].window \cup {snd[e].pushed}
        /\ p.pushed = snd[e].pushed + 1
    BY ZenonT(60), <1>2, PushType
  <2>2. snd = [snd EXCEPT ![e] = snd[e]]
    BY Zenon, <1>2
  <2>3. snd' = [snd EXCEPT ![e] = snd[e]] \/ snd' = [snd EXCEPT ![e] = p]
    BY Zenon, <2>2 DEF WritePushes, Push
  <2> HIDE DEF p
  <2> QED BY Zenon, <1>2, <2>1, <2>3
<1>4. PICK s \in SendingWorkers :
        /\ snd' = [snd EXCEPT ![e] = s]
        /\ s = snd[e] \/ (s.window = snd[e].window \cup {snd[e].pushed} /\ s.pushed = snd[e].pushed + 1)
  BY ZenonT(60), <1>3
<1>5. snd' \in [Ends -> SendingWorkers] /\ snd'[e] = s /\ \A f \in Ends : f # e => snd'[f] = snd[f]
  BY Zenon, <1>2, <1>4
<1>6. ControlOK'
  <2>1. ControlOK
    BY Zenon DEF KcpInv, TypeOK
  <2>2. PICK c \in CallRecords : Calling(e, "write", c)
    BY Zenon, <2>1, WriteCall
  <2>3. call' \in [Ends -> [Calls -> CallRecords]]
    BY Zenon, <2>1, <2>2, CallNames, CallStep
  <2> QED BY Zenon, <1>1, <2>1, <2>3 DEF ControlOK
<1>7. TypeOK'
  BY Zenon, <1>1, <1>5, <1>6 DEF KcpInv, TypeOK
<1>9. Reading'
  BY Zenon, <1>1 DEF KcpInv, Reading, Whole, Continues
<1>10. \A f \in Ends : snd[f].pushed \in Nat /\ snd'[f].pushed >= snd[f].pushed
  BY <1>2, <1>4, <1>5 DEF SendingWorkers
<1>11. \A f \in Ends, n \in Nat : Has(f, n)' = Has(f, n)
  BY Zenon, <1>1 DEF Has
<1>12. Growing
  BY <1>1, <1>10, <1>11 DEF Growing, KcpInv, TypeOK, ReceivingWorkers
<1>13. NewTruthful
  BY Zenon, <1>1 DEF NewTruthful
<1>14. WindowStep
  <2> SUFFICES ASSUME NEW f \in Ends, ~ cleared[f], NEW k \in 0..(snd'[f].pushed - 1)
               PROVE  k \in snd'[f].window \/ (k < snd[f].pushed /\ k \notin snd[f].window)
    BY Zenon, <1>1 DEF WindowStep
  <2>1. CASE f = e
    BY <1>2, <1>4, <1>5, <2>1 DEF SendingWorkers
  <2>2. CASE f # e
    BY <1>2, <1>5, <2>2 DEF SendingWorkers
  <2> QED BY Zenon, <2>1, <2>2
<1>15. Windows'
  <2> SUFFICES ASSUME NEW f \in Ends
               PROVE  /\ snd'[f].pushed <= load.writes[f]
                      /\ \A k \in snd'[f].window : k < snd'[f].pushed
                      /\ Start <= rcv[f].next /\ rcv[f].next <= Start + snd'[Peer(f)].pushed
                      /\ \A c \in rcv[f].cache :
                           c[1] = Start + c[2] /\ rcv[f].next <= c[1] /\ c[2] < snd'[Peer(f)].pushed
    BY Zenon, <1>1 DEF Windows
  <2>1. load.writes[f] \in Nat
    BY Zenon, NoWrapAssumption DEF KcpInv, TypeOK
  <2>2. snd'[f].pushed <= load.writes[f] /\ \A k \in snd'[f].window : k < snd'[f].pushed
    <3>1. CASE f = e
      BY <1>1, <1>2, <1>4, <1>5, <2>1, <3>1 DEF KcpInv, Windows, SendingWorkers
    <3>2. CASE f # e
      BY Zenon, <1>5, <3>2 DEF KcpInv, Windows
    <3> QED BY Zenon, <3>1, <3>2
  <2>3. Peer(f) \in Ends /\ snd'[Peer(f)].pushed \in Nat /\ snd[Peer(f)].pushed \in Nat
        /\ snd'[Peer(f)].pushed >= snd[Peer(f)].pushed
    BY Zenon, <1>5, <1>10, PeerFacts DEF SendingWorkers
  <2>4. rcv[f] \in ReceivingWorkers
    BY Zenon DEF KcpInv, TypeOK
  <2>5. \A c \in rcv[f].cache : c[2] \in Nat
    BY Zenon, <2>4 DEF ReceivingWorkers
  <2> QED BY <2>2, <2>3, <2>4, <2>5, KcpAssumption DEF KcpInv, Windows, ReceivingWorkers
<1> QED BY Zenon, <1>7, <1>9, <1>12, <1>13, <1>14, <1>15, Combine

-----------------------------------------------------------------------------
(* What follows a store of the state, and Input.                           *)

\* The window shrinks, and nothing else about what was pushed changes.
LEMMA Shrinks ==
  ASSUME KcpInv, NEW e \in Ends, NEW s \in SendingWorkers,
         s.pushed = snd[e].pushed, s.window \subseteq snd[e].window,
         snd' = [snd EXCEPT ![e] = s], UNCHANGED load
  PROVE  /\ snd' \in [Ends -> SendingWorkers] /\ snd'[e] = s
         /\ \A f \in Ends :
              /\ snd[f].pushed \in Nat /\ snd'[f].pushed = snd[f].pushed
              /\ f # e => snd'[f] = snd[f]
              /\ snd'[f].pushed <= load'.writes[f]
              /\ \A k \in snd'[f].window : k < snd'[f].pushed
<1>1. snd \in [Ends -> SendingWorkers]
  BY Zenon DEF KcpInv, TypeOK
<1>2. snd' \in [Ends -> SendingWorkers] /\ snd'[e] = s /\ \A f \in Ends : f # e => snd'[f] = snd[f]
  BY Zenon, <1>1
<1>3. ASSUME NEW f \in Ends
      PROVE  snd[f].pushed \in Nat /\ snd'[f].pushed = snd[f].pushed /\ snd'[f].window \subseteq snd[f].window
  <2>1. snd[f].pushed \in Nat
    BY Zenon, <1>1 DEF SendingWorkers
  <2> QED BY Zenon, <1>2, <2>1
<1> QED BY Zenon, <1>2, <1>3 DEF KcpInv, Windows

\* If the receiving workers keep next and cache too, so do the invariants.
LEMMA ShrinksOnly ==
  ASSUME KcpInv, NEW e \in Ends, NEW s \in SendingWorkers,
         s.pushed = snd[e].pushed, s.window \subseteq snd[e].window,
         snd' = [snd EXCEPT ![e] = s], UNCHANGED load,
         rcv' \in [Ends -> ReceivingWorkers],
         \A f \in Ends : rcv'[f].next = rcv[f].next /\ rcv'[f].cache = rcv[f].cache
  PROVE  Windows' /\ Growing /\ \A f \in Ends : \A n : Has(f, n)' = Has(f, n)
<1>1. \A f \in Ends : \A n : Has(f, n)' = Has(f, n)
  BY Zenon DEF Has, Numbers
<1>2. \A f \in Ends :
        /\ snd[f].pushed \in Nat /\ snd'[f].pushed = snd[f].pushed
        /\ snd'[f].pushed <= load'.writes[f]
        /\ \A k \in snd'[f].window : k < snd'[f].pushed
  BY ZenonT(60), Shrinks
<1>3. Windows'
  <2> SUFFICES ASSUME NEW f \in Ends
               PROVE  /\ snd'[f].pushed <= load'.writes[f]
                      /\ \A k \in snd'[f].window : k < snd'[f].pushed
                      /\ Start <= rcv'[f].next /\ rcv'[f].next <= Start + snd'[Peer(f)].pushed
                      /\ \A c \in rcv'[f].cache :
                           c[1] = Start + c[2] /\ rcv'[f].next <= c[1] /\ c[2] < snd'[Peer(f)].pushed
    BY Zenon DEF Windows
  <2> QED BY Zenon, <1>2, PeerFacts DEF KcpInv, Windows
<1>4. Growing
  <2>1. \A f \in Ends : rcv[f].next \in Nat
    BY Zenon DEF KcpInv, TypeOK, ReceivingWorkers
  <2> QED BY <1>1, <1>2, <2>1 DEF Growing
<1> QED BY Zenon, <1>1, <1>3, <1>4

\* A flag that is raised, or not, when the window is not empty.
LEMMA ClearedFlag ==
  ASSUME ControlOK, NEW e \in Ends, cleared' = [cleared EXCEPT ![e] = @ \/ snd[e].window # {}]
  PROVE  /\ cleared' \in [Ends -> BOOLEAN]
         /\ \A f \in Ends : cleared[f] => cleared'[f]
         /\ \A f \in Ends : f # e => cleared'[f] = cleared[f]
         /\ ~ cleared'[e] => ~ cleared[e] /\ snd[e].window = {}
<1> DEFINE c == snd[e].window # {}
<1>1. c \in BOOLEAN /\ cleared \in [Ends -> BOOLEAN]
  BY Zenon DEF ControlOK
<1>2. cleared' = [cleared EXCEPT ![e] = @ \/ c]
  BY Zenon
<1> HIDE DEF c
<1>3. cleared' \in [Ends -> BOOLEAN] /\ cleared'[e] = (cleared[e] \/ c)
      /\ \A f \in Ends : f # e => cleared'[f] = cleared[f]
  BY Zenon, <1>1, <1>2, Raised
<1> QED BY Zenon, <1>1, <1>3 DEF c

\* CloseWrite, with what is left over or without.
LEMMA CloseWriteStep ==
  ASSUME KcpInv, NEW e \in Ends, ControlOK',
         snd' = [snd EXCEPT ![e] = CloseWrite(@)],
         cleared' = [cleared EXCEPT ![e] = @ \/ snd[e].window # {}],
         \A f \in Ends : released[f] => released'[f],
         rcv' \in [Ends -> ReceivingWorkers],
         \A f \in Ends : /\ rcv'[f].next = rcv[f].next /\ rcv'[f].cache = rcv[f].cache
                         /\ rcv'[f].acks = rcv[f].acks
                         /\ rcv'[f].left = rcv[f].left \/ (released'[f] /\ rcv'[f].left = <<>>),
         UNCHANGED <<load, received, net>>
  PROVE  KcpInv' /\ Growing
<1> DEFINE s == CloseWrite(snd[e])
<1>1. s \in SendingWorkers /\ s.pushed = snd[e].pushed /\ s.window = {}
  BY ZenonT(60) DEF KcpInv, TypeOK, SendingWorkers, CloseWrite
<1>2. snd' = [snd EXCEPT ![e] = s]
  BY Zenon
<1> HIDE DEF s
<1>3. snd' \in [Ends -> SendingWorkers] /\ snd'[e] = s /\ \A f \in Ends : f # e => snd'[f] = snd[f]
  BY ZenonT(60), <1>1, <1>2, Shrinks
<1>4. TypeOK'
  BY Zenon, <1>3 DEF KcpInv, TypeOK
<1>5. Reading'
  <2> SUFFICES ASSUME NEW f \in Ends
               PROVE  /\ f \notin load.bytes => rcv'[f].left = <<>>
                      /\ Whole(f)' => Continues(f, rcv[f].left, rcv[f].next)' /\ rcv'[f].left = rcv[f].left
    BY Zenon DEF Reading, Continues
  <2>1. /\ f \notin load.bytes => rcv[f].left = <<>>
        /\ Whole(f) => Continues(f, rcv[f].left, rcv[f].next)
    BY Zenon DEF KcpInv, Reading
  <2>2. Whole(f)' => Whole(f) /\ rcv'[f].left = rcv[f].left
    BY Zenon, <2>1 DEF Whole
  <2> QED BY Zenon, <2>1, <2>2 DEF Continues
<1>6. Windows' /\ Growing /\ \A f \in Ends : \A n : Has(f, n)' = Has(f, n)
  BY ZenonT(60), <1>1, <1>2, ShrinksOnly
<1>7. NewTruthful
  BY Zenon DEF NewTruthful
<1>8. WindowStep
  <2>0. ControlOK
    BY Zenon DEF KcpInv, TypeOK
  <2>1. \A f \in Ends : ~ cleared'[f] => ~ cleared[f] /\ snd'[f].window = snd[f].window
    BY Zenon, <1>1, <1>3, <2>0, ClearedFlag
  <2>2. \A f \in Ends : snd'[f].pushed = snd[f].pushed /\ snd[f].pushed \in Nat
    BY ZenonT(60), <1>1, <1>3 DEF KcpInv, TypeOK, SendingWorkers
  <2> QED BY <2>1, <2>2 DEF WindowStep
<1> QED BY Zenon, <1>4, <1>5, <1>6, <1>7, <1>8, Combine

\* EnterState.
LEMMA EnterStep ==
  ASSUME KcpInv, NEW e \in Ends, NEW x \in Calls, EnterState(e, x)
  PROVE  KcpInv' /\ Growing
<1>1. ControlOK /\ rcv \in [Ends -> ReceivingWorkers]
  BY Zenon DEF KcpInv, TypeOK
<1>2. /\ snd' = [snd EXCEPT ![e] = CloseWrite(@)]
      /\ cleared' = [cleared EXCEPT ![e] = @ \/ snd[e].window # {}]
      /\ dying' = [dying EXCEPT ![e] = @ \/ call[e][x].entered = "Terminated"]
      /\ UNCHANGED <<load, state, rcv, running, released, expired, net>>
      /\ UNCHANGED <<reader, received, missed, closed, owed>>
  BY Zenon DEF EnterState, appVars
<1>3. call' \in [Ends -> [Calls -> CallRecords]]
  BY Zenon, <1>1, EnterCall, CallStep
<1>4. dying' \in [Ends -> BOOLEAN] /\ cleared' \in [Ends -> BOOLEAN]
  BY Zenon, <1>1, <1>2, Raised, ClearedFlag DEF ControlOK
<1>5. ControlOK'
  BY Zenon, <1>1, <1>2, <1>3, <1>4 DEF ControlOK
<1> QED BY ZenonT(60), <1>1, <1>2, <1>5, CloseWriteStep

\* Terminate.
LEMMA TerminateStep ==
  ASSUME KcpInv, NEW e \in Ends, Terminate(e)
  PROVE  KcpInv' /\ Growing
<1>1. ControlOK
  BY Zenon DEF KcpInv, TypeOK
<1>2. /\ snd' = [snd EXCEPT ![e] = CloseWrite(@)]
      /\ cleared' = [cleared EXCEPT ![e] = @ \/ snd[e].window # {}]
      /\ dying' = [dying EXCEPT ![e] = FALSE]
      /\ released' = [released EXCEPT ![e] = TRUE]
      /\ rcv' = [rcv EXCEPT ![e].left = <<>>]
      /\ UNCHANGED <<load, state, call, running, expired, net>>
      /\ UNCHANGED <<reader, received, missed, closed, owed>>
  BY Zenon DEF Terminate, appVars
<1>3. /\ released' \in [Ends -> BOOLEAN] /\ released'[e]
      /\ \A f \in Ends : released[f] => released'[f]
  BY Zenon, <1>1, <1>2 DEF ControlOK
<1>4. dying' \in [Ends -> BOOLEAN] /\ cleared' \in [Ends -> BOOLEAN]
  BY Zenon, <1>1, <1>2, ClearedFlag DEF ControlOK
<1>5. ControlOK'
  BY Zenon, <1>1, <1>2, <1>3, <1>4 DEF ControlOK
<1>6. /\ rcv' \in [Ends -> ReceivingWorkers]
      /\ \A f \in Ends : /\ rcv'[f].next = rcv[f].next /\ rcv'[f].cache = rcv[f].cache
                         /\ rcv'[f].acks = rcv[f].acks
                         /\ rcv'[f].left = rcv[f].left \/ (released'[f] /\ rcv'[f].left = <<>>)
  <2>1. rcv \in [Ends -> ReceivingWorkers] /\ rcv[e] \in ReceivingWorkers /\ <<>> \in Seq(Nat)
    BY DEF KcpInv, TypeOK
  <2> DEFINE r == [rcv[e] EXCEPT !.left = <<>>]
  <2>2. r \in ReceivingWorkers /\ r.next = rcv[e].next /\ r.cache = rcv[e].cache /\ r.acks = rcv[e].acks
        /\ r.left = <<>>
    BY ZenonT(60), <2>1, ReceiverFields DEF ReceivingWorkers
  <2>3. rcv' = [rcv EXCEPT ![e] = r]
    BY Zenon, <1>2
  <2> HIDE DEF r
  <2> QED BY Zenon, <1>3, <2>1, <2>2, <2>3
<1> QED BY ZenonT(60), <1>2, <1>3, <1>5, <1>6, CloseWriteStep

\* The end of Input.
LEMMA ProcessCall ==
  ASSUME ControlOK, NEW e \in Ends, ProcessSegment(e)
  PROVE  \E c \in CallRecords : Calling(e, "input", c) /\ c.at = "idle" /\ c.set = None /\ c.entered = None
<1>1. "input" \in Calls /\ "idle" \in Phases /\ Goto(e, "input", "idle")
  BY Zenon, CallNames DEF Phases, ProcessSegment
<1> QED BY Zenon, <1>1, GotoCall

\* The workers get the packet: it is truthful, so what it acknowledges is at
\* the peer and what it carries may join the cache.
LEMMA ProcessStep ==
  ASSUME KcpInv, NEW e \in Ends, ProcessSegment(e)
  PROVE  KcpInv' /\ Growing
<1> DEFINE m == Head(net[e])
           s == InputSnd(e, m)
           r == InputRcv(e, m)
<1>2. /\ net[e] # <<>> /\ net' = [net EXCEPT ![e] = Tail(@)]
      /\ rcv' = [rcv EXCEPT ![e] = r] /\ snd' = [snd EXCEPT ![e] = s]
      /\ UNCHANGED <<load, state, running, dying, released, cleared, expired, received>>
      /\ UNCHANGED <<reader, missed, closed, owed>>
  BY ZenonT(60) DEF ProcessSegment, lifeVars, appVars
<1>3. net \in [Ends -> Seq(Packets)] /\ net[e] \in Seq(Packets) /\ snd[e] \in SendingWorkers
      /\ rcv \in [Ends -> ReceivingWorkers] /\ rcv[e] \in ReceivingWorkers
  BY Zenon DEF KcpInv, TypeOK
<1>4. Tail(net[e]) \in Seq(Packets) /\ Range(Tail(net[e])) \subseteq Range(net[e])
      /\ m \in Range(net[e]) /\ m \in Packets
  BY Zenon, <1>2, <1>3, RangeTail
<1>5. Truthful(e, m)
  BY Zenon, <1>4 DEF KcpInv, Flight
<1> HIDE DEF m
<1>9. /\ s \in SendingWorkers /\ s.pushed = snd[e].pushed /\ s.window \subseteq snd[e].window
      /\ \A k \in snd[e].window \ s.window :
           m.type # "data" /\ (Num(k) < m.next \/ (m.type = "ack" /\ Num(k) \in m.numbers))
  BY ZenonT(60), <1>3, <1>4, InputSndWindow
<1>10. /\ r \in ReceivingWorkers /\ r.next = rcv[e].next /\ r.left = rcv[e].left
       /\ rcv[e].cache \subseteq r.cache
       /\ \A c \in r.cache \ rcv[e].cache :
            /\ m.type = "data" /\ c = <<m.number, m.payload>>
            /\ Sub(m.number, rcv[e].next) < WindowSize
       /\ \A n \in r.acks \ rcv[e].acks : m.type = "data" /\ n = m.number /\ n \in Numbers(r)
  BY Zenon, <1>4, InputRcvFacts DEF KcpInv
<1> HIDE DEF s, r
<1>14. /\ snd' \in [Ends -> SendingWorkers] /\ snd'[e] = s
       /\ \A f \in Ends :
            /\ snd[f].pushed \in Nat /\ snd'[f].pushed = snd[f].pushed
            /\ f # e => snd'[f] = snd[f]
            /\ snd'[f].pushed <= load'.writes[f]
            /\ \A k \in snd'[f].window : k < snd'[f].pushed
  BY ZenonT(60), <1>2, <1>9, Shrinks
<1>15. rcv' \in [Ends -> ReceivingWorkers] /\ rcv'[e] = r /\ \A f \in Ends : f # e => rcv'[f] = rcv[f]
  BY ZenonT(60), <1>2, <1>3, <1>10
<1>16. net' \in [Ends -> Seq(Packets)] /\ \A f \in Ends : Range(net'[f]) \subseteq Range(net[f])
  BY Zenon, <1>2, <1>3, <1>4
<1>17. TypeOK'
  <2>1. ControlOK
    BY Zenon DEF KcpInv, TypeOK
  <2>2. PICK c \in CallRecords : Calling(e, "input", c)
    BY Zenon, <2>1, ProcessCall
  <2>3. call' \in [Ends -> [Calls -> CallRecords]]
    BY Zenon, <2>1, <2>2, CallNames, CallStep
  <2>4. ControlOK'
    BY Zenon, <1>2, <2>1, <2>3 DEF ControlOK
  <2> QED BY Zenon, <1>2, <1>14, <1>15, <1>16, <2>4 DEF KcpInv, TypeOK
<1>19. Reading'
  <2>1. \A f \in Ends : rcv'[f].next = rcv[f].next /\ rcv'[f].left = rcv[f].left
    BY Zenon, <1>10, <1>15
  <2> QED BY Zenon, <1>2, <2>1, SameReading
<1>20. \A f \in Ends : rcv'[f].next = rcv[f].next /\ rcv[f].cache \subseteq rcv'[f].cache
  BY Zenon, <1>10, <1>15
<1>21. Growing
  <2>1. \A f \in Ends, n \in Nat : Has(f, n) => Has(f, n)'
    BY Zenon, <1>20 DEF Has, Numbers
  <2>2. \A f \in Ends : rcv[f].next \in Nat
    BY Zenon DEF KcpInv, TypeOK, ReceivingWorkers
  <2> QED BY <1>14, <1>20, <2>1, <2>2 DEF Growing
<1>22. NewTruthful
  <2>1. ASSUME NEW f \in Ends, NEW n \in rcv'[f].acks PROVE n \in rcv[f].acks \/ Has(f, n)'
    BY Zenon, <1>10, <1>15, <2>1 DEF Has
  <2> QED BY Zenon, <1>16, <2>1 DEF NewTruthful
<1>23. Windows'
  <2> SUFFICES ASSUME NEW f \in Ends
               PROVE  /\ snd'[f].pushed <= load'.writes[f]
                      /\ \A k \in snd'[f].window : k < snd'[f].pushed
                      /\ Start <= rcv'[f].next /\ rcv'[f].next <= Start + snd'[Peer(f)].pushed
                      /\ \A c \in rcv'[f].cache :
                           c[1] = Start + c[2] /\ rcv'[f].next <= c[1] /\ c[2] < snd'[Peer(f)].pushed
    BY Zenon DEF Windows
  <2>1. Peer(f) \in Ends /\ snd'[Peer(f)].pushed = snd[Peer(f)].pushed
    BY Zenon, <1>14, PeerFacts
  <2>2. \A c \in rcv[f].cache :
          c[1] = Start + c[2] /\ rcv'[f].next <= c[1] /\ c[2] < snd'[Peer(f)].pushed
    BY Zenon, <1>20, <2>1 DEF KcpInv, Windows
  <2>3. ASSUME NEW c \in rcv'[f].cache \ rcv[f].cache
        PROVE  c[1] = Start + c[2] /\ rcv'[f].next <= c[1] /\ c[2] < snd'[Peer(f)].pushed
    <3>1. f = e
      BY Zenon, <1>15, <2>3
    <3>2. /\ m.type = "data" /\ c = <<m.number, m.payload>>
          /\ Sub(m.number, rcv[e].next) < WindowSize
      BY Zenon, <1>10, <1>15, <2>3, <3>1
    <3>3. m.number \in Nat /\ m.payload \in Nat /\ rcv[e].next \in Nat
      BY Zenon, <1>3, <1>4, <3>2 DEF Packets, ReceivingWorkers
    <3>4. m.number = Start + m.payload /\ m.payload < snd[Peer(e)].pushed
      BY Zenon, <1>5, <3>2 DEF Truthful
    <3>5. rcv[e].next <= Start + load.writes[Peer(e)] /\ load.writes[Peer(e)] \in Nat
          /\ 2 * (Start + load.writes[Peer(e)] + WindowSize) <= Range32
      <4>1. load.writes[Peer(e)] \in Nat /\ 2 * (Start + load.writes[Peer(e)] + WindowSize) <= Range32
        BY Zenon, <2>1, <3>1, NoWrapAssumption DEF KcpInv, TypeOK
      <4>2. snd[Peer(e)].pushed \in Nat /\ snd[Peer(e)].pushed <= load.writes[Peer(e)]
        BY Zenon, <1>14, <2>1, <3>1 DEF KcpInv, Windows
      <4>3. rcv[e].next <= Start + snd[Peer(e)].pushed
        BY Zenon DEF KcpInv, Windows
      <4> QED BY <3>3, <4>1, <4>2, <4>3, KcpAssumption
    <3>6. rcv[e].next <= m.number
      BY <3>2, <3>3, <3>5, KcpAssumption DEF Sub
    <3> QED BY Zenon, <1>20, <2>1, <3>1, <3>2, <3>4, <3>6
  <2>4. Start <= rcv'[f].next /\ rcv'[f].next <= Start + snd'[Peer(f)].pushed
    BY Zenon, <1>20, <2>1 DEF KcpInv, Windows
  <2> QED BY Zenon, <1>14, <2>2, <2>3, <2>4
<1>24. WindowStep
  <2> SUFFICES ASSUME NEW f \in Ends, ~ cleared'[f]
               PROVE  /\ ~ cleared[f]
                      /\ \A k \in 0..(snd'[f].pushed - 1) :
                           \/ k \in snd'[f].window
                           \/ k < snd[f].pushed /\ k \notin snd[f].window
                           \/ Has(Peer(f), Start + k)'
    BY Zenon DEF WindowStep
  <2>1. CASE f # e
    BY <1>2, <1>14, <2>1
  <2>2. CASE f = e
    <3>1. ~ cleared[e]
      BY Zenon, <1>2, <2>2
    <3>2. ASSUME NEW k \in 0..(snd'[e].pushed - 1), k \notin s.window, k \in snd[e].window
          PROVE  Has(Peer(e), Start + k)'
      <4>1. m.type # "data" /\ (Num(k) < m.next \/ (m.type = "ack" /\ Num(k) \in m.numbers))
        BY Zenon, <1>9, <3>2
      <4>2. Num(k) = Start + k
        <5>1. k \in Nat /\ k <= load.writes[e] + WindowSize /\ load \in Loads
          <6>1. load.writes[e] \in Nat /\ snd'[e].pushed \in Nat /\ snd'[e].pushed <= load.writes[e]
            BY ZenonT(60), <1>2, <1>14, NoWrapAssumption DEF KcpInv, TypeOK
          <6>2. load \in Loads
            BY Zenon DEF KcpInv, TypeOK
          <6> QED BY <6>1, <6>2, KcpAssumption
        <5> QED BY Zenon, <5>1, NumIs
      <4>3. Peer(e) \in Ends /\ Peer(e) # e
        BY Zenon, PeerFacts
      <4>4. rcv[Peer(e)].next \in Nat /\ m.next \in Nat
        BY Zenon, <1>4, <4>1, <4>3 DEF KcpInv, TypeOK, ReceivingWorkers, Packets
      <4>5. Has(Peer(e), Start + k)
        BY <1>5, <4>1, <4>2, <4>4, KcpAssumption DEF Truthful, Has
      <4> QED BY Zenon, <1>15, <4>3, <4>5 DEF Has
    <3> QED BY <1>14, <2>2, <3>1, <3>2
  <2> QED BY Zenon, <2>1, <2>2
<1> QED BY Zenon, <1>17, <1>19, <1>21, <1>22, <1>23, <1>24, Combine
=============================================================================
