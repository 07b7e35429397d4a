----------------------------- MODULE Kcp_proofs -----------------------------
(***************************************************************************)
(* Proofs about Kcp, for any windows, loads, faults and interleavings of   *)
(* calls: what flush sends and Read takes keeps the invariant of KcpSteps, *)
(* and so it always holds, with what follows from it; and a second         *)
(* invariant, of a connection that one side closes, says what io.EOF means *)
(* to the other.                                                           *)
(***************************************************************************)
EXTENDS KcpSteps

-----------------------------------------------------------------------------
(* What flush sends.                                                       *)

\* Packets are added to those on their way to the peer.
LEMMA SendsNet ==
  ASSUME KcpInv, NEW e \in Ends, NEW q \in Seq(Packets), Sends(e, q)
  PROVE  /\ net' \in [Ends -> Seq(Packets)] /\ net'[e] = net[e]
         /\ Range(net'[Peer(e)]) = Range(net[Peer(e)]) \cup Range(q)
<1> DEFINE n == net[Peer(e)] \o q
<1>1. Peer(e) \in Ends /\ Peer(e) # e /\ net \in [Ends -> Seq(Packets)]
  BY Zenon, PeerFacts DEF KcpInv, TypeOK
<1>2. net[Peer(e)] \in Seq(Packets)
  BY Zenon, <1>1
<1>3. n \in Seq(Packets) /\ Range(n) = Range(net[Peer(e)]) \cup Range(q)
  BY <1>2, RangeConcat
<1>4. net' = [net EXCEPT ![Peer(e)] = n]
  BY Zenon DEF Sends
<1> HIDE DEF n
<1> QED BY Zenon, <1>1, <1>3, <1>4

\* A step that sends truthful packets, and keeps the windows.
LEMMA SendStep ==
  ASSUME KcpInv, NEW e \in Ends, ControlOK', NEW s \in SendingWorkers,
         s.pushed = snd[e].pushed, s.window = snd[e].window, snd' = [snd EXCEPT ![e] = s],
         UNCHANGED <<load, released, cleared, received>>,
         rcv' \in [Ends -> ReceivingWorkers],
         \A f \in Ends : /\ rcv'[f].next = rcv[f].next /\ rcv'[f].cache = rcv[f].cache
                         /\ rcv'[f].acks = rcv[f].acks /\ rcv'[f].left = rcv[f].left,
         NEW q \in Seq(Packets), Sends(e, q), \A m \in Range(q) : Truthful(Peer(e), m)
  PROVE  KcpInv' /\ Growing
<1>1. /\ snd' \in [Ends -> SendingWorkers] /\ snd'[e] = s
      /\ \A f \in Ends :
           /\ snd[f].pushed \in Nat /\ snd'[f].pushed = snd[f].pushed
           /\ f # e => snd'[f] = snd[f]
  BY ZenonT(60), Shrinks
<1>2. Windows' /\ Growing /\ \A f \in Ends : \A n : Has(f, n)' = Has(f, n)
  BY ZenonT(60), ShrinksOnly
<1>3. /\ net' \in [Ends -> Seq(Packets)] /\ net'[e] = net[e]
      /\ Range(net'[Peer(e)]) = Range(net[Peer(e)]) \cup Range(q)
  BY Zenon, SendsNet
<1>4. TypeOK'
  BY Zenon, <1>1, <1>3 DEF KcpInv, TypeOK
<1>5. Reading'
  BY Zenon, SameReading
<1>6. NewTruthful
  <2> SUFFICES ASSUME NEW f \in Ends, NEW m \in Range(net'[f])
               PROVE  m \in Range(net[f]) \/ Truthful(f, m)'
    BY Zenon DEF NewTruthful
  <2>1. CASE f = e
    BY Zenon, <1>3, <2>1
  <2>2. CASE f = Peer(e) /\ Truthful(f, m)
    <3>1. Peer(f) \in Ends
      BY Zenon, PeerFacts
    <3> QED BY <1>1, <1>2, <2>2, <3>1 DEF Truthful
  <2> QED BY Zenon, <1>3, <2>1, <2>2, PeerFacts
<1>7. WindowStep
  <2> SUFFICES ASSUME NEW f \in Ends, ~ cleared'[f]
               PROVE  /\ ~ cleared[f]
                      /\ \A k \in 0..(snd'[f].pushed - 1) :
                           \/ k \in snd'[f].window
                           \/ k < snd[f].pushed /\ k \notin snd[f].window
    BY Zenon DEF WindowStep
  <2> QED BY <1>1
<1> QED BY Zenon, <1>2, <1>4, <1>5, <1>6, <1>7, Combine

\* Typing of a call that sends.
LEMMA SendControl ==
  ASSUME ControlOK, NEW e \in Ends, NEW u \in Updaters, NEW c \in CallRecords, Calling(e, u, c),
         expired' \in [Ends -> BOOLEAN],
         UNCHANGED <<state, running, dying, released, cleared, reader, missed, closed, owed>>
  PROVE  ControlOK'
<1>1. call' \in [Ends -> [Calls -> CallRecords]]
  BY Zenon, CallNames, CallStep
<1> QED BY Zenon, <1>1 DEF ControlOK

\* One packet.
LEMMA OnePacket ==
  ASSUME NEW m \in Packets
  PROVE  <<m>> \in Seq(Packets) /\ Range(<<m>>) = {m}
BY DEF Range

\* The steps of flush that leave the workers alone but send a command.
LEMMA TerminateCall ==
  ASSUME ControlOK, NEW e \in Ends, NEW u \in Updaters, FlushTerminate(e, u)
  PROVE  \E c \in CallRecords :
           /\ Calling(e, u, c) /\ c.at = "idle" /\ c.entered = None /\ c.set \in {None, "Terminated"}
           /\ Expires(e, c.set # None)
<1> DEFINE late == call[e][u].due = "late" /\ RunsOut(e, u, "Terminating")
           st == IF late THEN "Terminated" ELSE None
<1>1. u \in Calls /\ "idle" \in Phases /\ st \in States \cup {None} /\ st \in {None, "Terminated"}
  BY Zenon, CallNames DEF Phases, States
<1>2. SetState(e, u, st, "idle") /\ Expires(e, late)
  BY Zenon DEF FlushTerminate
<1>3. late = (st # None)
  BY Zenon DEF None
<1> HIDE DEF late, st
<1>4. PICK c \in CallRecords : Calling(e, u, c) /\ c.at = "idle" /\ c.set = st /\ c.entered = None
  BY <1>1, <1>2, SetStateCall
<1> QED BY Zenon, <1>1, <1>2, <1>3, <1>4

\* FlushPing.
LEMMA PingCall ==
  ASSUME ControlOK, NEW e \in Ends, NEW u \in Updaters, FlushPing(e, u)
  PROVE  \E c \in CallRecords : Calling(e, u, c) /\ c.at = "idle" /\ c.set = None /\ c.entered = None
<1>1. u \in Calls /\ "idle" \in Phases /\ Goto(e, u, "idle")
  BY Zenon, CallNames DEF Phases, FlushPing
<1> QED BY Zenon, <1>1, GotoCall

\* A terminate command, or a ping.
LEMMA CommandStep ==
  ASSUME KcpInv, NEW e \in Ends, NEW u \in Updaters, FlushTerminate(e, u) \/ FlushPing(e, u)
  PROVE  KcpInv' /\ Growing
<1>1. ControlOK /\ snd[e] \in SendingWorkers /\ snd \in [Ends -> SendingWorkers]
      /\ rcv \in [Ends -> ReceivingWorkers]
  BY Zenon DEF KcpInv, TypeOK
<1>2. /\ UNCHANGED <<load, state, snd, rcv, running, dying, released, cleared, received>>
      /\ UNCHANGED <<reader, missed, closed, owed>>
      /\ \E cmd \in {"ping", "terminate"} : Sends(e, <<Ping(snd[e], rcv[e], state[e], cmd)>>)
      /\ \E b \in BOOLEAN : expired' = [expired EXCEPT ![e] = @ \/ b]
  <2>1. CASE FlushTerminate(e, u)
    BY ZenonT(60), <2>1 DEF FlushTerminate, appVars, Expires
  <2>2. CASE FlushPing(e, u)
    <3>1. expired' = expired /\ expired \in [Ends -> BOOLEAN]
      BY Zenon, <1>1, <2>2 DEF FlushPing, lifeVars, ControlOK
    <3>2. expired' = [expired EXCEPT ![e] = @ \/ FALSE]
      BY <3>1
    <3> QED BY ZenonT(60), <2>2, <3>2 DEF FlushPing, lifeVars, appVars
  <2> QED BY Zenon, <2>1, <2>2
<1>3. PICK cmd \in {"ping", "terminate"} : Sends(e, <<Ping(snd[e], rcv[e], state[e], cmd)>>)
  BY Zenon, <1>2
<1> DEFINE m == Ping(snd[e], rcv[e], state[e], cmd)
<1>4. m \in Packets /\ Truthful(Peer(e), m)
  BY Zenon, <1>1, PacketFacts
<1>5. expired' \in [Ends -> BOOLEAN]
  BY Zenon, <1>1, <1>2, Raised DEF ControlOK
<1>6. ControlOK'
  <2>1. \E c \in CallRecords : Calling(e, u, c)
    BY Zenon, <1>1, TerminateCall, PingCall
  <2> QED BY Zenon, <1>1, <1>2, <1>5, <2>1, SendControl
<1>7. Sends(e, <<m>>)
  BY Zenon, <1>3
<1> HIDE DEF m
<1>8. <<m>> \in Seq(Packets) /\ \A x \in Range(<<m>>) : Truthful(Peer(e), x)
  BY Zenon, <1>4, OnePacket
<1>9. snd' = [snd EXCEPT ![e] = snd[e]]
  BY Zenon, <1>1, <1>2
<1>10. rcv' = rcv
  BY Zenon, <1>2
<1> QED BY ZenonT(60), <1>1, <1>2, <1>6, <1>7, <1>8, <1>9, <1>10, SendStep

\* Sending the acknowledgements changes nothing else of the ReceivingWorker.
LEMMA CleanReceiver ==
  ASSUME KcpInv, NEW e \in Ends, rcv' = [rcv EXCEPT ![e].dirty = FALSE]
  PROVE  /\ rcv' \in [Ends -> ReceivingWorkers]
         /\ \A f \in Ends : /\ rcv'[f].next = rcv[f].next /\ rcv'[f].cache = rcv[f].cache
                            /\ rcv'[f].acks = rcv[f].acks /\ rcv'[f].left = rcv[f].left
<1> DEFINE c == [rcv[e] EXCEPT !.dirty = FALSE]
<1>1. rcv \in [Ends -> ReceivingWorkers] /\ rcv[e] \in ReceivingWorkers
  BY Zenon DEF KcpInv, TypeOK
<1>2. <<>> \in Seq(Nat)
  BY SMT
<1>3. c \in ReceivingWorkers /\ c.next = rcv[e].next /\ c.cache = rcv[e].cache
      /\ c.acks = rcv[e].acks /\ c.left = rcv[e].left
  BY ZenonT(60), <1>1, <1>2, ReceiverFields DEF ReceivingWorkers
<1>4. rcv' = [rcv EXCEPT ![e] = c]
  BY Zenon
<1> HIDE DEF c
<1> QED BY Zenon, <1>1, <1>3, <1>4

\* FlushAcks goes on with the segments, after at most one packet.
LEMMA AcksCall ==
  ASSUME ControlOK, NEW e \in Ends, NEW u \in Updaters, NEW again \in BOOLEAN, FlushAcks(e, u, again)
  PROVE  /\ \E c \in CallRecords : Calling(e, u, c) /\ c.at = "segments" /\ c.set = None /\ c.entered = None
         /\ Sends(e, <<AckSegment(rcv[e], state[e])>>) \/ Sends(e, <<>>)
<1>1. u \in Calls /\ "segments" \in Phases /\ Goto(e, u, "segments")
  BY Zenon, CallNames DEF Phases, FlushAcks
<1>2. Sends(e, <<AckSegment(rcv[e], state[e])>>) \/ Sends(e, <<>>)
  BY Zenon DEF FlushAcks
<1> QED BY Zenon, <1>1, <1>2, GotoCall

\* The acknowledgements.
LEMMA AcksStep ==
  ASSUME KcpInv, NEW e \in Ends, NEW u \in Updaters, NEW again \in BOOLEAN, FlushAcks(e, u, again)
  PROVE  KcpInv' /\ Growing
<1>1. ControlOK /\ snd[e] \in SendingWorkers /\ snd \in [Ends -> SendingWorkers]
  BY Zenon DEF KcpInv, TypeOK
<1>2. /\ UNCHANGED <<load, state, snd, running, dying, released, cleared, received, expired>>
      /\ UNCHANGED <<reader, missed, closed, owed>>
      /\ rcv' = [rcv EXCEPT ![e].dirty = FALSE]
  BY Zenon DEF FlushAcks, lifeVars, appVars
<1>3. ControlOK'
  <2>1. \E c \in CallRecords : Calling(e, u, c)
    BY Zenon, <1>1, AcksCall
  <2>2. expired' \in [Ends -> BOOLEAN]
    BY Zenon, <1>1, <1>2 DEF ControlOK
  <2> QED BY Zenon, <1>1, <1>2, <2>1, <2>2, SendControl
<1>4. /\ rcv' \in [Ends -> ReceivingWorkers]
      /\ \A f \in Ends : /\ rcv'[f].next = rcv[f].next /\ rcv'[f].cache = rcv[f].cache
                         /\ rcv'[f].acks = rcv[f].acks /\ rcv'[f].left = rcv[f].left
  BY Zenon, <1>2, CleanReceiver
<1> DEFINE m == AckSegment(rcv[e], state[e])
<1>5. m \in Packets /\ Truthful(Peer(e), m)
  BY Zenon, <1>1, PacketFacts
<1>6. Sends(e, <<m>>) \/ Sends(e, <<>>)
  BY Zenon, <1>1, AcksCall
<1> HIDE DEF m
<1>7. \E q \in Seq(Packets) : Sends(e, q) /\ \A x \in Range(q) : Truthful(Peer(e), x)
  <2>1. <<m>> \in Seq(Packets) /\ \A x \in Range(<<m>>) : Truthful(Peer(e), x)
    BY Zenon, <1>5, OnePacket
  <2>2. <<>> \in Seq(Packets) /\ Range(<<>>) = {}
    BY DEF Range
  <2> QED BY Zenon, <1>6, <2>1, <2>2
<1>8. snd' = [snd EXCEPT ![e] = snd[e]]
  BY Zenon, <1>1, <1>2
<1> QED BY ZenonT(60), <1>1, <1>2, <1>3, <1>4, <1>7, <1>8, SendStep

\* FlushSegments goes on with a ping, or ends.
LEMMA SegmentsCall ==
  ASSUME ControlOK, NEW e \in Ends, NEW u \in Updaters, NEW D, NEW ping, FlushSegments(e, u, D, ping)
  PROVE  \E c \in CallRecords :
           Calling(e, u, c) /\ c.at \in {"ping", "idle"} /\ c.set = None /\ c.entered = None
<1> DEFINE p == IF ping \/ (snd[e].updated /\ snd[e].window = {} /\ ~ released[e]) THEN "ping" ELSE "idle"
<1>1. u \in Calls /\ p \in Phases /\ p \in {"ping", "idle"} /\ Goto(e, u, p)
  BY Zenon, CallNames DEF Phases, FlushSegments
<1> HIDE DEF p
<1>2. \E c \in CallRecords : Calling(e, u, c) /\ c.at = p /\ c.set = None /\ c.entered = None
  BY <1>1, GotoCall
<1> QED BY Zenon, <1>1, <1>2

\* The segments.
LEMMA SegmentsStep ==
  ASSUME KcpInv, NEW e \in Ends, NEW u \in Updaters, NEW D \in SUBSET snd[e].window, NEW ping \in BOOLEAN,
         FlushSegments(e, u, D, ping)
  PROVE  KcpInv' /\ Growing
<1> DEFINE b == snd[e].updated /\ released[e]
           s == [snd[e] EXCEPT !.updated = b]
           due == IF released[e] THEN {} ELSE D
<1>1. ControlOK /\ snd[e] \in SendingWorkers /\ snd \in [Ends -> SendingWorkers]
      /\ rcv \in [Ends -> ReceivingWorkers]
  BY Zenon DEF KcpInv, TypeOK
<1>2. /\ UNCHANGED <<load, state, rcv, running, dying, released, cleared, received, expired>>
      /\ UNCHANGED <<reader, missed, closed, owed>>
      /\ snd' = [snd EXCEPT ![e] = s]
  BY Zenon DEF FlushSegments, lifeVars, appVars
<1>3. PICK f \in Transmissions(snd[e], due) :
        Sends(e, [i \in DOMAIN f |-> DataSegment(snd[e], f[i], state[e])])
  BY Zenon DEF FlushSegments
<1>4. due \subseteq snd[e].window /\ b \in BOOLEAN
  BY Zenon
<1> HIDE DEF due, b
<1>5. s \in SendingWorkers /\ s.pushed = snd[e].pushed /\ s.window = snd[e].window
  BY ZenonT(60), <1>1, <1>4 DEF SendingWorkers
<1> HIDE DEF s
<1>6. ControlOK'
  <2>1. \E c \in CallRecords : Calling(e, u, c)
    BY Zenon, <1>1, SegmentsCall
  <2>2. expired' \in [Ends -> BOOLEAN]
    BY Zenon, <1>1, <1>2 DEF ControlOK
  <2> QED BY Zenon, <1>1, <1>2, <2>1, <2>2, SendControl
<1> DEFINE d == [i \in DOMAIN f |-> DataSegment(snd[e], f[i], state[e])]
<1>7. d \in Seq(Packets) /\ \A m \in Range(d) : Truthful(Peer(e), m)
  BY ZenonT(60), <1>1, <1>4, SegmentList
<1>8. Sends(e, d)
  BY Zenon, <1>3
<1> HIDE DEF d
<1>9. rcv' = rcv
  BY Zenon, <1>2
<1> QED BY ZenonT(60), <1>1, <1>2, <1>5, <1>6, <1>7, <1>8, <1>9, SendStep

-----------------------------------------------------------------------------
(* The reader.                                                             *)

\* What is given to the reader is no longer left.
LEMMA Shift ==
  ASSUME NEW s \in Nat, NEW a \in Nat, NEW g \in Nat, NEW w \in 0..g
  PROVE  s + (a + w) + (g - w) = s + a + g
OBVIOUS

\* Places in what is left.
LEMMA Places ==
  ASSUME NEW a \in Nat, NEW w \in Nat, NEW i \in Nat
  PROVE  a + (w + i) - 1 = a + w + i - 1
OBVIOUS

\* got is split between reader and leftOver, and continues what was received.
LEMMA GiveStep ==
  ASSUME KcpInv, NEW e \in Ends, NEW got \in Seq(Nat), NEW r \in ReceivingWorkers,
         Give(e, got, r), ControlOK',
         UNCHANGED <<load, snd, released, cleared, net>>,
         Whole(e) => Continues(e, got, r.next),
         rcv[e].next <= r.next, r.next <= Start + snd[Peer(e)].pushed, r.acks = rcv[e].acks,
         \A n \in Nat : Has(e, n) => n < r.next \/ n \in Numbers(r),
         \A c \in r.cache : c[1] = Start + c[2] /\ r.next <= c[1] /\ c[2] < snd[Peer(e)].pushed
  PROVE  KcpInv' /\ Growing /\ \A f \in Ends : Len(received'[f]) >= Len(received[f])
<1> DEFINE now == IF e \in load.bytes /\ got # <<>> THEN 1 ELSE Len(got)
           front == SubSeq(got, 1, now)
           back == SubSeq(got, now + 1, Len(got))
           r2 == [r EXCEPT !.left = back]
<1>1. now \in 0..Len(got) /\ Len(got) \in Nat /\ (e \notin load.bytes => now = Len(got))
  OBVIOUS
<1>2. received' = [received EXCEPT ![e] = @ \o front] /\ rcv' = [rcv EXCEPT ![e] = r2]
  BY Zenon DEF Give
<1> HIDE DEF now
<1>3. front \in Seq(Nat) /\ Len(front) = now /\ \A i \in 1..now : front[i] = got[i]
  BY <1>1
<1>4. /\ back \in Seq(Nat) /\ Len(back) = Len(got) - now
      /\ \A i \in 1..(Len(got) - now) : back[i] = got[now + i]
      /\ e \notin load.bytes => back = <<>>
  BY <1>1
<1> HIDE DEF front, back
<1>5. r2 \in ReceivingWorkers /\ r2.next = r.next /\ r2.cache = r.cache /\ r2.acks = r.acks /\ r2.left = back
  BY ZenonT(60), <1>4, ReceiverFields DEF ReceivingWorkers
<1> HIDE DEF r2
<1>6. received \in [Ends -> Seq(Nat)] /\ rcv \in [Ends -> ReceivingWorkers]
      /\ snd \in [Ends -> SendingWorkers]
  BY Zenon DEF KcpInv, TypeOK
<1>7. rcv' \in [Ends -> ReceivingWorkers] /\ rcv'[e] = r2 /\ \A f \in Ends : f # e => rcv'[f] = rcv[f]
  BY Zenon, <1>2, <1>5, <1>6
<1>8. /\ received' \in [Ends -> Seq(Nat)] /\ received'[e] = received[e] \o front
      /\ \A f \in Ends : f # e => received'[f] = received[f]
  <2>1. received[e] \o front \in Seq(Nat)
    BY <1>3, <1>6
  <2> DEFINE q == received[e] \o front
  <2> HIDE DEF q
  <2>2. received' = [received EXCEPT ![e] = q]
    BY Zenon, <1>2 DEF q
  <2> QED BY Zenon, <1>6, <2>1, <2>2 DEF q
<1>9. TypeOK'
  BY Zenon, <1>7, <1>8 DEF KcpInv, TypeOK
<1>10. received[e] \in Seq(Nat) /\ Len(received[e]) \in Nat /\ Len(received'[e]) = Len(received[e]) + now
  <2>1. received[e] \in Seq(Nat) /\ Len(received[e]) \in Nat
    BY <1>6
  <2>2. Len(received[e] \o front) = Len(received[e]) + Len(front)
    BY ZenonT(60), <1>3, <2>1, ConcatLen
  <2> QED BY Zenon, <1>3, <1>8, <2>1, <2>2
<1>11. Reading'
  <2> SUFFICES ASSUME NEW f \in Ends
               PROVE  /\ f \notin load.bytes => rcv'[f].left = <<>>
                      /\ Whole(f) => Continues(f, rcv[f].left, rcv[f].next)'
    BY Zenon DEF Reading, Whole, Continues
  <2>1. CASE f # e
    <3>1. rcv'[f] = rcv[f] /\ received'[f] = received[f]
      BY Zenon, <1>7, <1>8, <2>1
    <3>2. /\ f \notin load.bytes => rcv[f].left = <<>>
          /\ Whole(f) => Continues(f, rcv[f].left, rcv[f].next)
      BY Zenon DEF KcpInv, Reading
    <3>3. Whole(f) => Continues(f, rcv[f].left, rcv[f].next)'
      BY Zenon, <3>1, <3>2 DEF Continues
    <3> QED BY Zenon, <3>1, <3>2, <3>3
  <2>2. CASE f = e
    <3>1. rcv'[e].next = r.next /\ rcv'[e].left = back /\ r.next \in Nat
      BY Zenon, <1>5, <1>7 DEF ReceivingWorkers
    <3>2. ASSUME Whole(e) PROVE Continues(e, rcv[e].left, rcv[e].next)'
      <4>1. /\ \A i \in 1..Len(received[e]) : received[e][i] = i - 1
            /\ \A i \in 1..Len(got) : got[i] = Len(received[e]) + i - 1
            /\ Start + Len(received[e]) + Len(got) = r.next
        BY Zenon, <3>2 DEF Continues
      <4>2. ASSUME NEW i \in 1..(Len(received[e]) + now) PROVE received'[e][i] = i - 1
        <5>1. CASE i <= Len(received[e])
          <6>1. received'[e][i] = received[e][i]
            BY <1>1, <1>3, <1>8, <1>10, <5>1
          <6> QED BY <1>10, <4>1, <5>1, <6>1
        <5>2. CASE i > Len(received[e])
          <6>1. received'[e][i] = front[i - Len(received[e])] /\ i - Len(received[e]) \in 1..now
            BY SMTT(30), <1>1, <1>3, <1>8, <1>10, <5>2
          <6>2. front[i - Len(received[e])] = Len(received[e]) + (i - Len(received[e])) - 1
            <7> DEFINE j == i - Len(received[e])
            <7>1. j \in 1..now /\ j \in 1..Len(got)
              BY <1>1, <6>1
            <7> HIDE DEF j
            <7>2. front[j] = Len(received[e]) + j - 1
              BY Zenon, <1>3, <4>1, <7>1
            <7> QED BY Zenon, <7>2 DEF j
          <6> QED BY <1>1, <1>10, <6>1, <6>2
        <5> QED BY <1>1, <1>10, <5>1, <5>2
      <4>3. \A i \in 1..Len(received'[e]) : received'[e][i] = i - 1
        BY Zenon, <1>10, <4>2
      <4>4. ASSUME NEW i \in 1..(Len(got) - now)
            PROVE  back[i] = Len(received[e]) + now + i - 1
        <5>1. back[i] = got[now + i] /\ now + i \in 1..Len(got)
          BY <1>1, <1>4
        <5>2. got[now + i] = Len(received[e]) + (now + i) - 1
          BY Zenon, <4>1, <5>1
        <5>3. now \in Nat /\ i \in Nat
          BY <1>1
        <5>4. Len(received[e]) + (now + i) - 1 = Len(received[e]) + now + i - 1
          BY Zenon, <1>10, <5>3, Places
        <5> QED BY Zenon, <5>1, <5>2, <5>4
      <4>5. \A i \in 1..Len(rcv'[e].left) : rcv'[e].left[i] = Len(received'[e]) + i - 1
        BY Zenon, <1>4, <1>10, <3>1, <4>4
      <4>6. Start + Len(received'[e]) + Len(rcv'[e].left) = rcv'[e].next
        <5>1. Start + (Len(received[e]) + now) + (Len(got) - now) = r.next
          <6>1. Start \in Nat /\ Len(got) \in Nat /\ Len(received[e]) \in Nat
            BY Zenon, <1>1, <1>10, KcpAssumption
          <6>2. Start + (Len(received[e]) + now) + (Len(got) - now) = Start + Len(received[e]) + Len(got)
            BY Zenon, <1>1, <6>1, Shift
          <6> QED BY Zenon, <4>1, <6>2
        <5> QED BY Zenon, <1>4, <1>10, <3>1, <5>1
      <4> QED BY Zenon, <4>3, <4>5, <4>6 DEF Continues
    <3> QED BY Zenon, <1>4, <2>2, <3>1, <3>2
  <2> QED BY ZenonT(60), <2>1, <2>2
<1>12. Windows'
  <2> SUFFICES ASSUME NEW f \in Ends
               PROVE  /\ Start <= rcv'[f].next /\ rcv'[f].next <= Start + snd[Peer(f)].pushed
                      /\ \A c \in rcv'[f].cache :
                           c[1] = Start + c[2] /\ rcv'[f].next <= c[1] /\ c[2] < snd[Peer(f)].pushed
    BY Zenon DEF KcpInv, Windows
  <2>1. CASE f # e
    BY Zenon, <1>7, <2>1 DEF KcpInv, Windows
  <2>2. CASE f = e
    <3>1. Start <= r.next
      <4>1. Start <= rcv[e].next /\ rcv[e].next \in Nat /\ r.next \in Nat
        BY Zenon, <1>6 DEF KcpInv, Windows, ReceivingWorkers
      <4> QED BY <4>1, KcpAssumption
    <3> QED BY Zenon, <1>5, <1>7, <2>2, <3>1
  <2> QED BY Zenon, <2>1, <2>2
<1>13. \A f \in Ends, n \in Nat : Has(f, n) => Has(f, n)'
  <2>1. ASSUME NEW n \in Nat, Has(e, n) PROVE Has(e, n)'
    BY ZenonT(60), <1>5, <1>7, <2>1 DEF Has, Numbers
  <2>2. ASSUME NEW f \in Ends, f # e, NEW n \in Nat, Has(f, n) PROVE Has(f, n)'
    BY Zenon, <1>7, <2>2 DEF Has
  <2> QED BY ZenonT(60), <2>1, <2>2
<1>14. Growing
  <2>1. \A f \in Ends : rcv[f].next \in Nat /\ snd[f].pushed \in Nat
    BY SMTT(30), <1>6 DEF ReceivingWorkers, SendingWorkers
  <2>2. \A f \in Ends : rcv'[f].next >= rcv[f].next
    <3>1. r.next \in Nat
      BY Zenon DEF ReceivingWorkers
    <3> QED BY <1>5, <1>7, <2>1, <3>1
  <2> QED BY <1>13, <2>1, <2>2 DEF Growing
<1>15. NewTruthful
  BY Zenon, <1>5, <1>7 DEF NewTruthful
<1>16. WindowStep
  BY DEF WindowStep, KcpInv, TypeOK, SendingWorkers
<1>17. ASSUME NEW f \in Ends PROVE Len(received'[f]) >= Len(received[f])
  <2>1. CASE f = e
    BY <1>1, <1>10, <2>1
  <2>2. CASE f # e
    <3>1. received'[f] = received[f] /\ Len(received[f]) \in Nat
      BY <1>6, <1>8, <2>2
    <3> QED BY <3>1
  <2> QED BY Zenon, <2>1, <2>2
<1> QED BY Zenon, <1>9, <1>11, <1>12, <1>14, <1>15, <1>16, <1>17, Combine

\* n segments that follow each other from next on.
LEMMA RunFacts ==
  ASSUME KcpInv, NEW e \in Ends, NEW n \in 0..WindowSize, IsRun(rcv[e], n)
  PROVE  /\ \A i \in 0..n : Plus(rcv[e].next, i) = rcv[e].next + i
         /\ \A i \in 0..(n - 1) : \E c \in rcv[e].cache : c[1] = rcv[e].next + i
         /\ rcv[e].next + n <= Start + snd[Peer(e)].pushed
<1>1. Peer(e) \in Ends /\ rcv[e] \in ReceivingWorkers /\ rcv[e].next \in Nat
  BY Zenon, PeerFacts DEF KcpInv, TypeOK, ReceivingWorkers
<1>2. snd[Peer(e)].pushed \in Nat /\ snd[Peer(e)].pushed <= load.writes[Peer(e)]
  BY Zenon, <1>1 DEF KcpInv, TypeOK, SendingWorkers, Windows
<1>3. load.writes[Peer(e)] \in Nat /\ 2 * (Start + load.writes[Peer(e)] + WindowSize) <= Range32
  BY Zenon, <1>1, NoWrapAssumption DEF KcpInv, TypeOK
<1>4. rcv[e].next <= Start + snd[Peer(e)].pushed
  BY ZenonT(60) DEF KcpInv, Windows
<1>5. ASSUME NEW i \in 0..n PROVE Plus(rcv[e].next, i) = rcv[e].next + i
  <2>1. rcv[e].next + i < Range32 \/ (Start + load.writes[Peer(e)] + WindowSize = 0)
    BY <1>1, <1>2, <1>3, <1>4, KcpAssumption
  <2> QED BY <1>1, <1>3, <2>1, KcpAssumption DEF Plus
<1>6. ASSUME NEW i \in 0..(n - 1) PROVE \E c \in rcv[e].cache : c[1] = rcv[e].next + i
  <2>1. Plus(rcv[e].next, i) = rcv[e].next + i
    BY <1>5
  <2> QED BY Zenon, <2>1 DEF IsRun, Numbers
<1>7. rcv[e].next + n <= Start + snd[Peer(e)].pushed
  <2>1. CASE n = 0
    BY <1>1, <1>4, <2>1
  <2>2. CASE n > 0
    <3>1. PICK c \in rcv[e].cache : c[1] = rcv[e].next + (n - 1)
      BY <1>6, <2>2
    <3>2. c[1] = Start + c[2] /\ c[2] < snd[Peer(e)].pushed /\ c[2] \in Nat
      BY Zenon, <1>1 DEF KcpInv, Windows, ReceivingWorkers
    <3> QED BY <1>1, <1>2, <3>1, <3>2, KcpAssumption
  <2> QED BY <2>1, <2>2
<1> QED BY Zenon, <1>5, <1>6, <1>7

\* A read that has found segments, or none.
LEMMA TakeStep ==
  ASSUME KcpInv, NEW e \in Ends, ReadTake(e)
  PROVE  KcpInv' /\ Growing /\ \A f \in Ends : Len(received'[f]) >= Len(received[f])
<1>1. /\ UNCHANGED <<load, state, call, snd, running, dying, released, cleared, expired, net>>
      /\ UNCHANGED <<missed, closed, owed>>
      /\ \E v \in {"look", "check"} : reader' = [reader EXCEPT ![e] = v]
  BY ZenonT(60) DEF ReadTake, lifeVars
<1>2. /\ Peer(e) \in Ends /\ rcv[e] \in ReceivingWorkers /\ rcv[e].next \in Nat /\ rcv[e].left \in Seq(Nat)
      /\ received[e] \in Seq(Nat) /\ ControlOK
  BY Zenon, PeerFacts DEF KcpInv, TypeOK, ReceivingWorkers
<1>3. ControlOK'
  <2>1. reader' \in [Ends -> {"none", "look", "take", "check", "eof"}]
    BY Zenon, <1>1, <1>2 DEF ControlOK
  <2> QED BY Zenon, <1>1, <1>2, <2>1 DEF ControlOK
<1>4. CASE Give(e, rcv[e].left, rcv[e])
  <2>1. Whole(e) => Continues(e, rcv[e].left, rcv[e].next)
    BY Zenon DEF KcpInv, Reading
  <2>2. /\ rcv[e].next <= Start + snd[Peer(e)].pushed
        /\ \A c \in rcv[e].cache :
             c[1] = Start + c[2] /\ rcv[e].next <= c[1] /\ c[2] < snd[Peer(e)].pushed
    BY Zenon DEF KcpInv, Windows
  <2>3. \A n \in Nat : Has(e, n) => n < rcv[e].next \/ n \in Numbers(rcv[e])
    BY Zenon DEF Has
  <2>4. rcv[e].next <= rcv[e].next
    BY <1>2
  <2> QED BY ZenonT(60), <1>1, <1>2, <1>3, <1>4, <2>1, <2>2, <2>3, <2>4, GiveStep
<1>5. ASSUME rcv[e].left = <<>>, NEW n \in 0..WindowSize, IsRun(rcv[e], n),
             Give(e, InOrder(rcv[e], n), Taken(rcv[e], n))
      PROVE  KcpInv' /\ Growing /\ \A f \in Ends : Len(received'[f]) >= Len(received[f])
  <2> DEFINE got == InOrder(rcv[e], n)
             left == {c \in rcv[e].cache : \A i \in 0..(n - 1) : c[1] # Plus(rcv[e].next, i)}
             r == Taken(rcv[e], n)
  <2>1. Len(received[e]) \in Nat
    BY <1>2
  <2>2. Whole(e) => /\ Start + Len(received[e]) = rcv[e].next
                    /\ \A i \in 1..Len(received[e]) : received[e][i] = i - 1
    <3>1. Whole(e) => /\ Start + Len(received[e]) + Len(rcv[e].left) = rcv[e].next
                      /\ \A i \in 1..Len(received[e]) : received[e][i] = i - 1
      BY Zenon DEF KcpInv, Reading, Continues
    <3>2. Len(rcv[e].left) = 0
      BY <1>5
    <3> QED BY <2>1, <3>1, <3>2, KcpAssumption
  <2>3. /\ \A i \in 0..n : Plus(rcv[e].next, i) = rcv[e].next + i
        /\ \A i \in 0..(n - 1) : \E c \in rcv[e].cache : c[1] = rcv[e].next + i
        /\ rcv[e].next + n <= Start + snd[Peer(e)].pushed
    BY Zenon, <1>5, RunFacts
  <2>4. \A c \in rcv[e].cache : /\ c[1] = Start + c[2] /\ rcv[e].next <= c[1] /\ c[2] < snd[Peer(e)].pushed
                                /\ c[1] \in Nat /\ c[2] \in Nat
    BY Zenon, <1>2 DEF KcpInv, Windows, ReceivingWorkers
  <2>5. n \in Nat
    BY KcpAssumption
  <2>6. ASSUME NEW i \in 1..n
        PROVE  /\ Payload(rcv[e], Plus(rcv[e].next, i - 1)) \in Nat
               /\ Start + Payload(rcv[e], Plus(rcv[e].next, i - 1)) = rcv[e].next + (i - 1)
    <3>1. Plus(rcv[e].next, i - 1) = rcv[e].next + (i - 1)
      BY <2>3, <2>5
    <3>2. PICK c \in rcv[e].cache : c[1] = rcv[e].next + (i - 1)
      BY <2>3, <2>5
    <3> DEFINE d == CHOOSE c2 \in rcv[e].cache : c2[1] = rcv[e].next + (i - 1)
    <3>3. d \in rcv[e].cache /\ d[1] = rcv[e].next + (i - 1)
      BY Zenon, <3>2
    <3>4. Payload(rcv[e], Plus(rcv[e].next, i - 1)) = d[2]
      BY ZenonT(60), <3>1 DEF Payload
    <3> HIDE DEF d
    <3>5. d[1] = Start + d[2] /\ d[2] \in Nat
      BY Zenon, <2>4, <3>3
    <3> QED BY Zenon, <3>3, <3>4, <3>5
  <2>7. /\ got \in Seq(Nat) /\ Len(got) = n
        /\ \A i \in 1..n : got[i] \in Nat /\ Start + got[i] = rcv[e].next + (i - 1)
    <3>1. got \in [1..n -> Nat] /\ \A i \in 1..n : got[i] = Payload(rcv[e], Plus(rcv[e].next, i - 1))
      BY Zenon, <2>6 DEF InOrder
    <3> HIDE DEF got
    <3>2. got \in Seq(Nat) /\ Len(got) = n
      BY <2>5, <3>1
    <3> QED BY Zenon, <2>6, <3>1, <3>2
  <2>8. r \in ReceivingWorkers /\ r.next = rcv[e].next + n /\ r.cache = left /\ r.acks = rcv[e].acks
    <3>1. Plus(rcv[e].next, n) = rcv[e].next + n /\ rcv[e].next + n \in Nat
      BY <1>2, <2>3, <2>5
    <3>2. Plus(rcv[e].next, n) \in Nat
      BY Zenon, <3>1
    <3> QED BY Zenon, <1>2, <3>1, <3>2, TakenFields
  <2>9. \A c \in rcv[e].cache : c \in left <=> rcv[e].next + n <= c[1]
    <3> SUFFICES ASSUME NEW c \in rcv[e].cache
                 PROVE  (\A i \in 0..(n - 1) : c[1] # Plus(rcv[e].next, i)) <=> rcv[e].next + n <= c[1]
      BY Zenon
    <3>1. \A i \in 0..(n - 1) : Plus(rcv[e].next, i) = rcv[e].next + i
      BY <2>3, <2>5
    <3>2. c[1] \in Nat /\ rcv[e].next <= c[1]
      BY Zenon, <2>4
    <3>3. CASE rcv[e].next + n <= c[1]
      BY <1>2, <2>5, <3>1, <3>2, <3>3
    <3>4. CASE ~ (rcv[e].next + n <= c[1])
      <4>1. c[1] - rcv[e].next \in 0..(n - 1) /\ c[1] = rcv[e].next + (c[1] - rcv[e].next)
        BY <1>2, <2>5, <3>2, <3>4
      <4> QED BY Zenon, <3>1, <3>4, <4>1
    <3> QED BY Zenon, <3>3, <3>4
  <2>10. left \subseteq rcv[e].cache
    BY Zenon
  <2> HIDE DEF left, got
  <2> HIDE DEF r
  <2>12. \A k \in Nat : Has(e, k) => k < r.next \/ k \in Numbers(r)
    <3> SUFFICES ASSUME NEW k \in Nat, Has(e, k), ~ (k < r.next)
                 PROVE  k \in Numbers(r)
      BY Zenon
    <3>1. ~ (k < rcv[e].next)
      BY <1>2, <2>5, <2>8
    <3>2. PICK c \in rcv[e].cache : c[1] = k
      BY Zenon, <3>1 DEF Has, Numbers
    <3>3. c \in left
      BY <1>2, <2>5, <2>9, <2>8, <3>2
    <3> QED BY Zenon, <2>8, <3>2, <3>3 DEF Numbers
  <2>13. \A c \in r.cache : c[1] = Start + c[2] /\ r.next <= c[1] /\ c[2] < snd[Peer(e)].pushed
    BY Zenon, <2>4, <2>9, <2>10, <2>8
  <2>14. rcv[e].next <= r.next /\ r.next <= Start + snd[Peer(e)].pushed
    BY <1>2, <2>3, <2>5, <2>8, KcpAssumption
  <2>15. Whole(e) => Continues(e, got, r.next)
    <3> SUFFICES ASSUME Whole(e) PROVE Continues(e, got, r.next)
      BY Zenon
    <3>1. Start + Len(received[e]) = rcv[e].next
      BY Zenon, <2>2
    <3>2. ASSUME NEW i \in 1..Len(got) PROVE got[i] = Len(received[e]) + i - 1
      <4>1. got[i] \in Nat /\ Start + got[i] = Start + Len(received[e]) + (i - 1)
        BY Zenon, <2>7, <3>1
      <4>2. i \in Nat /\ Start \in Nat
        BY <2>5, <2>7, KcpAssumption
      <4> DEFINE x == got[i]
                 a == Len(received[e])
      <4>3. x \in Nat /\ a \in Nat /\ Start + x = Start + a + (i - 1)
        BY Zenon, <2>1, <4>1
      <4> HIDE DEF x, a
      <4>4. x = a + i - 1
        BY <4>2, <4>3
      <4> QED BY Zenon, <4>4 DEF x, a
    <3>3. Start + Len(received[e]) + Len(got) = r.next
      BY Zenon, <2>7, <2>8, <3>1
    <3> QED BY Zenon, <2>2, <3>2, <3>3 DEF Continues
  <2>16. Give(e, got, r)
    BY Zenon, <1>5 DEF got, r
  <2> QED BY ZenonT(60), <1>1, <1>3, <2>7, <2>8, <2>12, <2>13, <2>14, <2>15, <2>16, GiveStep
<1> QED BY Zenon, <1>4, <1>5 DEF ReadTake

-----------------------------------------------------------------------------
(* The invariant always holds, and what follows from it.                   *)

\* A step of e: one of its application's, of the network or of call x.
Step(e, x) ==
  \/ Terminate(e) \/ UpdaterEnds(e) \/ Fault(e)
  \/ ReadLook(e) \/ ReadTake(e) \/ ReadCheck(e)
  \/ Close(e) \/ HandleOption(e) \/ HandleTerminate(e) \/ ProcessSegment(e)
  \/ WriteBegins(e) \/ WritePushes(e)
  \/ StoreState(e, x) \/ EnterState(e, x)
  \/ x \in Updaters /\ ((\E due \in Dues : FlushBegins(e, x, due)) \/ FlushGoesOn(e, x))

\* Whatever calls are under way.
LEMMA NextStep == Next => \E e \in Ends, x \in Calls : Step(e, x)
BY ZenonT(60), CallNames DEF Next, Read, CallBegins, CallGoesOn, Step

\* Every step keeps the invariant, and loses nothing that is held.
LEMMA StepInv ==
  ASSUME KcpInv, NEW e \in Ends, NEW x \in Calls, Step(e, x)
  PROVE  KcpInv' /\ Growing
<1>1. ASSUME x \in Updaters, FlushGoesOn(e, x) PROVE KcpInv' /\ Growing
  BY Zenon, <1>1, FlushBeginsStep, CommandStep, AcksStep, SegmentsStep DEF FlushGoesOn
<1> QED BY ZenonT(60), <1>1, FlushBeginsStep, StoreStep, EnterStep, CloseStep, InputBeginsStep, ProcessStep,
          WriteBeginsStep, WriteStep, LookStep, TakeStep, TerminateStep, FaultStep DEF Step

\* Every step, and those that change nothing.
LEMMA KcpNext == KcpInv /\ [Next]_vars => KcpInv'
<1> SUFFICES ASSUME KcpInv, [Next]_vars PROVE KcpInv'
  BY Zenon
<1>1. CASE UNCHANGED vars
  <2>1. /\ UNCHANGED <<load, snd, rcv, released, cleared, received, net>>
        /\ UNCHANGED <<state, call, running, dying, expired, reader, missed, closed, owed>>
    BY Zenon, <1>1 DEF vars, lifeVars, appVars
  <2>2. ControlOK'
    BY Zenon, <2>1 DEF KcpInv, TypeOK, ControlOK
  <2> QED BY Zenon, <2>1, <2>2, QuietStep
<1> QED BY Zenon, <1>1, NextStep, StepInv

\* The invariant always holds: no order of the steps of calls and no fault of
\* the network breaks it.
THEOREM KcpInvariant == Spec => []KcpInv
BY KcpInit, KcpNext, PTL DEF Spec

\* What a reader has been given is a beginning of what the peer wrote, for any
\* windows, loads, faults and interleavings of calls.
THEOREM Ordered == Spec => []DeliveredInOrder
BY InvOrdered, KcpInvariant, PTL

\* A segment that has left the sending window without a close is held by the
\* peer, for any windows, loads, faults and interleavings of calls.
THEOREM Acknowledged == Spec => []AckedMeansHeld
BY InvAcknowledged, KcpInvariant, PTL

-----------------------------------------------------------------------------
(* A connection that one side, the leader, closes, and its peer, the       *)
(* follower, does not.                                                     *)

\* The peer of e closes the connection, if anyone does, and no timer runs out.
OnlyPeerCloses(e) == ~ closed[e] /\ ~ expired[A] /\ ~ expired[B]

\* The states of the side that does not close, and of the side that does, and
\* how far their calls get.
Follows == {"Active", "PeerClosed", "PeerTerminating"}
Leads == {"Active", "ReadyToClose", "Terminating"}

FollowsCall(c) ==
  /\ c.set \in {None, "PeerClosed", "PeerTerminating"}
  /\ c.entered \in {None, "PeerClosed", "PeerTerminating"}
  /\ c.at \notin {"close", "empty", "terminate"}

LeadsCall(c) ==
  /\ c.set \in {None, "ReadyToClose", "Terminating"}
  /\ c.entered \in {None, "Terminating"}
  /\ c.at \notin {"close", "command"}

\* The follower tells the leader of no end.
Follower(e) ==
  /\ state[e] \in Follows /\ ~ dying[e]
  /\ \A x \in Calls : FollowsCall(call[e][x])
  /\ \A m \in Range(net[Peer(e)]) : ~ m.close /\ m.type # "terminate"

\* The leader stays Active until its application calls Close.
Leader(p) ==
  /\ state[p] \in Leads /\ ~ dying[p]
  /\ \A x \in Calls : LeadsCall(call[p][x])
  /\ \/ closed[p]
     \/ state[p] = "Active" /\ \A x \in Calls : call[p][x].set = None /\ call[p][x].at # "empty"
  /\ owed[p] <= snd[p].pushed

\* The leader has found its window empty.
EndsCall(c) == c.set = "Terminating" \/ c.entered = "Terminating" \/ c.at = "terminate"
Drains(p) ==
  \/ state[p] = "Terminating"
  \/ cleared[p]
  \/ \E x \in Calls : EndsCall(call[p][x])

\* The follower has been told, or is about to be.
ToldCall(c) == c.set = "PeerTerminating" \/ c.at = "command"
Told(e) ==
  \/ state[e] = "PeerTerminating"
  \/ reader[e] = "eof"
  \/ \E x \in Calls : ToldCall(call[e][x])
  \/ \E m \in Range(net[e]) : m.type = "terminate"

\* e has all that its peer pushed before Close.
Drained(e) ==
  /\ closed[Peer(e)]
  /\ \A k \in 0..(owed[Peer(e)] - 1) : Has(e, Start + k)

AllRead(e) == reader[e] = "eof" /\ ~ missed[e] => owed[Peer(e)] <= Len(received[e])

Role(e) ==
  OnlyPeerCloses(e) =>
    /\ Follower(e) /\ Leader(Peer(e)) /\ AllRead(e)
    /\ Drains(Peer(e)) \/ Told(e) => Drained(e)

ClosingInv == \A e \in Ends : Role(e)

\* A connection with a follower e.
Closing(e) == KcpInv /\ OnlyPeerCloses(e) /\ Role(e)

\* Where a call of either side may go.
FollowerGoesTo(e, c) == FollowsCall(c) /\ (ToldCall(c) => Told(e))

LeaderGoesTo(p, c) ==
  /\ LeadsCall(c)
  /\ EndsCall(c) => Drains(p) \/ Drained(Peer(p))
  /\ closed[p] \/ (c.set = None /\ c.at # "empty")

\* What a step may do to either side, and to the packets.
FollowerOn(e) ==
  /\ state'[e] \in Follows /\ (state'[e] = "PeerTerminating" => Told(e))
  /\ (reader'[e] = "eof" => Told(e)) /\ AllRead(e)'
  /\ \A y \in Calls : FollowerGoesTo(e, call'[e][y])

LeaderOn(p) ==
  /\ state'[p] \in Leads /\ (state'[p] = "Terminating" => Drains(p)) /\ (cleared'[p] => Drains(p))
  /\ closed[p] \/ state'[p] = "Active"
  /\ \A y \in Calls : LeaderGoesTo(p, call'[p][y])

NetOn(e) ==
  /\ \A m \in Range(net'[Peer(e)]) : ~ m.close /\ m.type # "terminate"
  /\ \A m \in Range(net'[e]) : m.type = "terminate" => Told(e) \/ Drains(Peer(e))

\* The histories of closing and the end of a connection stay as they are.
NoClose == dying' = dying /\ closed' = closed /\ owed' = owed

\* What has arrived stays.
LEMMA DrainedStays ==
  ASSUME KcpInv, Growing, NEW e \in Ends, Drained(e), NoClose
  PROVE  Drained(e)'
<1>1. Peer(e) \in Ends /\ owed[Peer(e)] \in Nat
  BY Zenon, PeerFacts DEF KcpInv, TypeOK, ControlOK
<1>2. ASSUME NEW k \in 0..(owed[Peer(e)] - 1) PROVE Has(e, Start + k)'
  <2>1. Start + k \in Nat
    BY <1>1, KcpAssumption
  <2> QED BY Zenon, <1>2, <2>1 DEF Growing, Drained
<1> QED BY Zenon, <1>2 DEF Drained, NoClose

\* The leader, when nothing happens there.
LEMMA LeaderStays ==
  ASSUME NEW e \in Ends, Closing(e),
         state'[Peer(e)] = state[Peer(e)], cleared'[Peer(e)] = cleared[Peer(e)],
         \A y \in Calls : call'[Peer(e)][y] = call[Peer(e)][y]
  PROVE  LeaderOn(Peer(e))
<1>1. Leader(Peer(e))
  BY Zenon DEF Closing, Role
<1>2. ASSUME NEW y \in Calls PROVE LeaderGoesTo(Peer(e), call[Peer(e)][y])
  BY Zenon, <1>1 DEF Leader, LeaderGoesTo, Drains
<1> QED BY Zenon, <1>1, <1>2 DEF LeaderOn, Leader, Drains

\* The follower, when nothing happens there.
LEMMA FollowerStays ==
  ASSUME NEW e \in Ends, Closing(e), state'[e] = state[e], reader'[e] = reader[e],
         missed'[e] = missed[e], received'[e] = received[e], owed'[Peer(e)] = owed[Peer(e)],
         \A y \in Calls : call'[e][y] = call[e][y]
  PROVE  FollowerOn(e)
<1>1. Follower(e) /\ AllRead(e)
  BY Zenon DEF Closing, Role
<1>2. ASSUME NEW y \in Calls PROVE FollowerGoesTo(e, call[e][y])
  BY Zenon, <1>1 DEF Follower, FollowerGoesTo, Told
<1>3. AllRead(e)'
  BY Zenon, <1>1 DEF AllRead
<1> QED BY Zenon, <1>1, <1>2, <1>3 DEF FollowerOn, Follower, Told

\* The packets when none is new.
LEMMA NetStays ==
  ASSUME NEW e \in Ends, Closing(e), \A f \in Ends : Range(net'[f]) \subseteq Range(net[f])
  PROVE  NetOn(e)
<1>1. Follower(e) /\ Peer(e) \in Ends
  BY Zenon, PeerFacts DEF Closing, Role
<1> QED BY Zenon, <1>1 DEF NetOn, Follower, Told

\* A step that both sides allow.
LEMMA RoleStays ==
  ASSUME NEW e \in Ends, Closing(e), KcpInv', Growing, NoClose, FollowerOn(e), LeaderOn(Peer(e)), NetOn(e)
  PROVE  Role(e)'
<1> DEFINE p == Peer(e)
<1>1. /\ p \in Ends /\ Peer(p) = e /\ KcpInv /\ ControlOK /\ owed[p] \in Nat
      /\ snd[p].pushed <= snd'[p].pushed
      /\ Follower(e) /\ Leader(p) /\ (Drains(p) \/ Told(e) => Drained(e))
  <2>1. p \in Ends /\ Peer(p) = e /\ KcpInv /\ ControlOK
    BY Zenon, PeerFacts DEF Closing, KcpInv, TypeOK
  <2>2. snd'[p].pushed >= snd[p].pushed /\ owed[p] \in Nat
    BY Zenon, <2>1 DEF Growing, ControlOK
  <2>3. snd[p].pushed <= snd'[p].pushed
    BY <2>2
  <2> QED BY Zenon, <2>1, <2>2, <2>3 DEF Closing, Role
<1>2. owed'[p] <= snd'[p].pushed
  <2>1. owed[p] <= snd[p].pushed /\ owed'[p] = owed[p]
    BY Zenon, <1>1 DEF Leader, NoClose
  <2>2. snd[p].pushed \in Nat /\ snd'[p].pushed \in Nat
    BY Zenon, <1>1 DEF KcpInv, TypeOK, SendingWorkers
  <2> QED BY <1>1, <2>1, <2>2
<1>3. Follower(e)'
  <2>1. ~ dying'[e]
    BY Zenon, <1>1 DEF Follower, NoClose
  <2> QED BY Zenon, <2>1 DEF FollowerOn, FollowerGoesTo, NetOn, Follower
<1>4. Leader(p)'
  <2>1. ~ dying'[p] /\ closed'[p] = closed[p]
    BY Zenon, <1>1 DEF Leader, NoClose
  <2> QED BY Zenon, <1>2, <2>1 DEF LeaderOn, LeaderGoesTo, Leader
<1>5. Drains(p)' => Drained(e)
  BY Zenon, <1>1 DEF LeaderOn, LeaderGoesTo, Drains
<1>6. Told(e)' => Drained(e)
  BY Zenon, <1>1 DEF FollowerOn, FollowerGoesTo, NetOn, Told
<1>7. Drained(e) => Drained(e)'
  BY Zenon, <1>1, DrainedStays
<1>8. AllRead(e)'
  BY Zenon DEF FollowerOn
<1> QED BY Zenon, <1>3, <1>4, <1>5, <1>6, <1>7, <1>8 DEF Role

\* What a step of a call leaves alone.
CallOnly ==
  /\ NoClose /\ state' = state /\ cleared' = cleared
  /\ reader' = reader /\ received' = received /\ missed' = missed

\* A call of f goes on to c.
LEMMA CallGoes ==
  ASSUME NEW e \in Ends, Closing(e), KcpInv', Growing, CallOnly, NetOn(e),
         NEW f \in Ends, NEW x \in Calls, NEW c \in CallRecords, Calling(f, x, c),
         f = e => FollowerGoesTo(e, c), f = Peer(e) => LeaderGoesTo(Peer(e), c)
  PROVE  Role(e)'
<1>1. Peer(e) \in Ends /\ Peer(e) # e /\ (f # e => f = Peer(e)) /\ ControlOK
  BY Zenon, PeerFacts DEF Closing, KcpInv, TypeOK
<1>2. call'[f][x] = c /\ \A g \in Ends, y \in Calls : g # f \/ y # x => call'[g][y] = call[g][y]
  <2>1. ControlOK
    BY Zenon, <1>1
  <2> QED BY ZenonT(60), <2>1, CallStep
<1>3. Follower(e) /\ Leader(Peer(e)) /\ AllRead(e)
  BY Zenon DEF Closing, Role
<1>4. FollowerOn(e)
  <2>1. CASE f # e
    BY Zenon, <1>1, <1>2, <2>1, FollowerStays DEF CallOnly, NoClose
  <2>2. CASE f = e
    <3>1. ASSUME NEW y \in Calls PROVE FollowerGoesTo(e, call'[e][y])
      BY Zenon, <1>2, <1>3, <2>2 DEF Follower, FollowerGoesTo, Told
    <3>2. AllRead(e)'
      BY Zenon, <1>3 DEF AllRead, CallOnly, NoClose
    <3> QED BY Zenon, <1>3, <3>1, <3>2 DEF FollowerOn, Follower, Told, CallOnly
  <2> QED BY Zenon, <2>1, <2>2
<1>5. LeaderOn(Peer(e))
  <2>1. CASE f = e
    BY Zenon, <1>1, <1>2, <2>1, LeaderStays DEF CallOnly
  <2>2. CASE f = Peer(e)
    <3>1. ASSUME NEW y \in Calls PROVE LeaderGoesTo(Peer(e), call'[Peer(e)][y])
      BY Zenon, <1>2, <1>3, <2>2 DEF Leader, LeaderGoesTo, Drains
    <3> QED BY Zenon, <1>3, <3>1 DEF LeaderOn, Leader, Drains, CallOnly
  <2> QED BY Zenon, <1>1, <2>1, <2>2
<1> QED BY Zenon, <1>4, <1>5, RoleStays DEF CallOnly

\* A call of f that goes on to a step that says nothing of closing.
LEMMA CallGoesQuietly ==
  ASSUME NEW e \in Ends, Closing(e), KcpInv', Growing, CallOnly, NetOn(e),
         NEW f \in Ends, NEW x \in Calls,
         \E c \in CallRecords : /\ Calling(f, x, c) /\ c.set = None /\ c.entered = None
                                /\ c.at \notin {"close", "empty", "terminate", "command"}
  PROVE  Role(e)'
<1>1. PICK c \in CallRecords : /\ Calling(f, x, c) /\ c.set = None /\ c.entered = None
                               /\ c.at \notin {"close", "empty", "terminate", "command"}
  BY Zenon
<1>2. FollowerGoesTo(e, c) /\ LeaderGoesTo(Peer(e), c)
  <2>1. None # "Terminating" /\ None # "PeerTerminating"
    BY DEF None
  <2> QED BY Zenon, <1>1, <2>1 DEF FollowerGoesTo, FollowsCall, ToldCall, LeaderGoesTo, LeadsCall, EndsCall
<1> QED BY Zenon, <1>1, <1>2, CallGoes

\* Input.
LEMMA OptionRole ==
  ASSUME NEW e \in Ends, Closing(e), KcpInv', Growing, NEW f \in Ends, HandleOption(f)
  PROVE  Role(e)'
<1>1. /\ Peer(e) \in Ends /\ ControlOK /\ (f # e => f = Peer(e)) /\ "input" \in Calls
      /\ net[f] \in Seq(Packets) /\ net[f] # <<>>
  BY Zenon, PeerFacts, CallNames DEF Closing, KcpInv, TypeOK, HandleOption
<1>2. CallOnly /\ net' = net
  BY Zenon DEF HandleOption, CallOnly, NoClose, lifeVars, appVars
<1>3. NetOn(e)
  BY Zenon, <1>2, NetStays
<1>4. Follower(e) /\ Head(net[f]) \in Range(net[f])
  BY Zenon, <1>1, RangeTail DEF Closing, Role
<1>5. PICK c \in CallRecords :
           /\ Calling(f, "input", c) /\ c.entered = None
           /\ c.at = IF Head(net[f]).type = "terminate" THEN "command" ELSE "worker"
           /\ c.set = IF Head(net[f]).close /\ OnPeerClosed(state[f]) # state[f]
                      THEN OnPeerClosed(state[f]) ELSE None
  BY Zenon, <1>1, OptionCall
<1>6. CASE f = e
  <2>1. state[e] \in Follows
    BY Zenon, <1>4 DEF Follower
  <2>2. c.set \in {None, "PeerClosed"}
    BY <1>5, <1>6, <2>1 DEF Follows, OnPeerClosed
  <2>3. FollowsCall(c)
    BY Zenon, <1>5, <2>2 DEF FollowsCall
  <2>4. ToldCall(c) => Told(e)
    <3>1. c.set # "PeerTerminating"
      BY <2>2 DEF None
    <3> QED BY Zenon, <1>4, <1>5, <1>6, <3>1 DEF ToldCall, Told
  <2> QED BY Zenon, <1>1, <1>2, <1>3, <1>5, <1>6, <2>3, <2>4, CallGoes, PeerFacts DEF FollowerGoesTo
<1>7. CASE f = Peer(e)
  <2>1. ~ Head(net[f]).close /\ Head(net[f]).type # "terminate"
    BY Zenon, <1>4, <1>7 DEF Follower
  <2>2. c.at = "worker" /\ c.set = None
    BY Zenon, <1>5, <2>1
  <2> QED BY Zenon, <1>1, <1>2, <1>3, <1>5, <2>2, CallGoesQuietly
<1> QED BY Zenon, <1>1, <1>6, <1>7

\* A terminate command.
LEMMA TerminateRole ==
  ASSUME NEW e \in Ends, Closing(e), KcpInv', Growing, NEW f \in Ends, HandleTerminate(f)
  PROVE  Role(e)'
<1>1. Peer(e) \in Ends /\ Peer(e) # e /\ ControlOK /\ (f # e => f = Peer(e)) /\ "input" \in Calls
  BY Zenon, PeerFacts, CallNames DEF Closing, KcpInv, TypeOK
<1>2. CallOnly /\ net' = net /\ call[f]["input"].at = "command"
  <2>1. CallOnly /\ net' = net
    BY Zenon DEF HandleTerminate, CallOnly, NoClose, lifeVars, appVars
  <2>2. call[f]["input"].at = "command"
    BY Zenon DEF HandleTerminate, At, Phase
  <2> QED BY Zenon, <2>1, <2>2
<1>3. NetOn(e)
  BY Zenon, <1>2, NetStays
<1>4. f = e /\ Told(e) /\ state[e] \in Follows
  BY Zenon, <1>1, <1>2 DEF Closing, Role, Leader, LeadsCall, Follower, Told, ToldCall
<1>5. PICK c \in CallRecords :
           /\ Calling(f, "input", c) /\ c.at = "worker" /\ c.entered = None
           /\ c.set = IF OnTerminate(state[f]) # state[f] THEN OnTerminate(state[f]) ELSE None
  BY Zenon, <1>1, CommandCall
<1>6. c.set \in {None, "PeerTerminating"}
  BY <1>4, <1>5 DEF Follows, OnTerminate
<1>7. FollowerGoesTo(e, c)
  BY Zenon, <1>4, <1>5, <1>6 DEF FollowerGoesTo, FollowsCall
<1> QED BY Zenon, <1>1, <1>2, <1>3, <1>4, <1>5, <1>7, CallGoes

\* What the workers make of a packet.
LEMMA ProcessRole ==
  ASSUME NEW e \in Ends, Closing(e), KcpInv', Growing, NEW f \in Ends, ProcessSegment(f)
  PROVE  Role(e)'
<1>1. ControlOK /\ "input" \in Calls /\ net \in [Ends -> Seq(Packets)]
  BY Zenon, CallNames DEF Closing, KcpInv, TypeOK
<1>2. CallOnly /\ net' = [net EXCEPT ![f] = Tail(@)] /\ net[f] # <<>>
  BY Zenon DEF ProcessSegment, CallOnly, NoClose, lifeVars, appVars
<1>3. \A g \in Ends : Range(net'[g]) \subseteq Range(net[g])
  <2>1. Range(Tail(net[f])) \subseteq Range(net[f])
    BY Zenon, <1>1, <1>2, RangeTail
  <2> QED BY Zenon, <1>1, <1>2, <2>1
<1>4. NetOn(e)
  BY Zenon, <1>3, NetStays
<1>5. \E c \in CallRecords : Calling(f, "input", c) /\ c.at = "idle" /\ c.set = None /\ c.entered = None
  BY Zenon, <1>1, ProcessCall
<1> QED BY Zenon, <1>1, <1>2, <1>4, <1>5, CallGoesQuietly

\* The application writes.
LEMMA WriteRole ==
  ASSUME NEW e \in Ends, Closing(e), KcpInv', Growing, NEW f \in Ends, WriteBegins(f) \/ WritePushes(f)
  PROVE  Role(e)'
<1>1. ControlOK /\ "write" \in Calls
  BY Zenon, CallNames DEF Closing, KcpInv, TypeOK
<1>2. CallOnly /\ net' = net
  BY Zenon DEF WriteBegins, WritePushes, CallOnly, NoClose, lifeVars, appVars
<1>3. NetOn(e)
  BY Zenon, <1>2, NetStays
<1>4. \E c \in CallRecords : Calling(f, "write", c) /\ c.at \in {"push", "idle"} /\ c.set = None /\ c.entered = None
  BY Zenon, <1>1, WriteBeginsCall, WriteCall
<1> QED BY Zenon, <1>1, <1>2, <1>3, <1>4, CallGoesQuietly

\* No timer has run out.
LEMMA OnTimeStep ==
  ASSUME NEW e \in Ends, Closing(e), OnlyPeerCloses(e)', NEW f \in Ends, NEW b \in BOOLEAN,
         Expires(f, b)
  PROVE  ~ b
<1>1. expired \in [Ends -> BOOLEAN]
  BY Zenon DEF Closing, KcpInv, TypeOK, ControlOK
<1>2. expired'[f] = (expired[f] \/ b)
  BY Zenon, <1>1 DEF Expires
<1>3. ~ expired'[f]
  BY Zenon DEF OnlyPeerCloses, Ends
<1> QED BY Zenon, <1>2, <1>3

\* The packets when f sends q.
LEMMA NetSends ==
  ASSUME NEW e \in Ends, Closing(e), NEW f \in Ends, NEW q \in Seq(Packets), Sends(f, q),
         \A m \in Range(q) : /\ f = e => ~ m.close /\ m.type # "terminate"
                             /\ m.type = "terminate" => Drains(f)
  PROVE  NetOn(e)
<1>1. /\ Peer(e) \in Ends /\ Peer(e) # e /\ Peer(Peer(e)) = e /\ (f # e => f = Peer(e))
      /\ KcpInv /\ Follower(e)
  BY Zenon, PeerFacts DEF Closing, Role
<1>2. net'[f] = net[f] /\ Range(net'[Peer(f)]) = Range(net[Peer(f)]) \cup Range(q)
  BY Zenon, <1>1, SendsNet
<1>3. CASE f = e
  BY Zenon, <1>1, <1>2, <1>3 DEF NetOn, Follower, Told
<1>4. CASE f = Peer(e)
  <2>1. net'[Peer(e)] = net[Peer(e)] /\ Range(net'[e]) = Range(net[e]) \cup Range(q)
    BY Zenon, <1>1, <1>2, <1>4
  <2> QED BY Zenon, <1>1, <1>4, <2>1 DEF NetOn, Follower, Told
<1> QED BY Zenon, <1>1, <1>3, <1>4

\* The beginning of flush.
LEMMA FlushBeginsRole ==
  ASSUME NEW e \in Ends, Closing(e), OnlyPeerCloses(e)', KcpInv', Growing, NEW f \in Ends,
         NEW u \in Updaters, NEW due \in Dues, FlushBegins(f, u, due)
  PROVE  Role(e)'
<1>1. ControlOK /\ u \in Calls
  BY Zenon, CallNames DEF Closing, KcpInv, TypeOK
<1>2. CallOnly /\ net' = net /\ Expires(f, due = "quiet")
  BY Zenon DEF FlushBegins, CallOnly, NoClose, appVars
<1>3. NetOn(e)
  BY Zenon, <1>2, NetStays
<1>4. due # "quiet"
  <2> DEFINE b == due = "quiet"
  <2>1. b \in BOOLEAN /\ Expires(f, b)
    BY Zenon, <1>2
  <2> HIDE DEF b
  <2>2. ~ b
    BY Zenon, <2>1, OnTimeStep
  <2> QED BY Zenon, <2>2 DEF b
<1>5. PICK c \in CallRecords : /\ Calling(f, u, c) /\ c.at = (IF due = "quiet" THEN "close" ELSE "drain")
                               /\ c.set = None /\ c.entered = None
  BY Zenon, <1>1, FlushBeginsCall
<1>6. c.at = "drain"
  BY Zenon, <1>4, <1>5
<1> QED BY Zenon, <1>1, <1>2, <1>3, <1>5, <1>6, CallGoesQuietly

\* An empty window: e has everything, unless segments were dropped before.
LEMMA EmptyDrains ==
  ASSUME NEW e \in Ends, Closing(e), snd[Peer(e)].window = {}, closed[Peer(e)]
  PROVE  Drains(Peer(e)) \/ Drained(e)
<1> DEFINE p == Peer(e)
<1>1. p \in Ends /\ Peer(p) = e /\ KcpInv /\ Leader(p) /\ owed[p] \in Nat /\ snd[p].pushed \in Nat
  BY Zenon, PeerFacts DEF Closing, Role, KcpInv, TypeOK, ControlOK, SendingWorkers
<1>2. CASE cleared[p]
  BY Zenon, <1>2 DEF Drains
<1>3. CASE ~ cleared[p]
  <2>1. \A k \in 0..(snd[p].pushed - 1) : Has(e, Start + k)
    BY Zenon, <1>1, <1>3 DEF KcpInv, Kept
  <2>2. owed[p] <= snd[p].pushed
    BY Zenon, <1>1 DEF Leader
  <2>3. 0..(owed[p] - 1) \subseteq 0..(snd[p].pushed - 1)
    BY <1>1, <2>2
  <2> QED BY Zenon, <2>1, <2>3 DEF Drained
<1> QED BY Zenon, <1>2, <1>3

\* The end of ReadyToClose.
LEMMA FlushClosesRole ==
  ASSUME NEW e \in Ends, Closing(e), KcpInv', Growing, NEW f \in Ends,
         NEW u \in Updaters, FlushCloses(f, u)
  PROVE  Role(e)'
<1>1. /\ ControlOK /\ u \in Calls /\ Peer(e) \in Ends /\ Peer(e) # e /\ (f # e => f = Peer(e))
      /\ Peer(Peer(e)) = e /\ Follower(e) /\ Leader(Peer(e))
  BY Zenon, CallNames, PeerFacts DEF Closing, Role, KcpInv, TypeOK
<1>2. CallOnly /\ net' = net
  BY Zenon DEF FlushCloses, CallOnly, NoClose, lifeVars, appVars
<1>3. NetOn(e)
  BY Zenon, <1>2, NetStays
<1>4. PICK c \in CallRecords :
           /\ Calling(f, u, c) /\ c.entered = None
           /\ \/ /\ call[f][u].at = "close" /\ c.at = "drain"
              \/ /\ call[f][u].at = "drain" /\ c.set = None
                 /\ c.at = IF state[f] = "ReadyToClose" THEN "empty" ELSE "ask"
              \/ /\ call[f][u].at = "empty" /\ c.at = "ask"
                 /\ c.set = IF snd[f].window = {} THEN "Terminating" ELSE None
  BY Zenon, <1>1, FlushClosesCall
<1>5. call[f][u].at # "close" /\ (call[f][u].at = "empty" => f = Peer(e) /\ closed[f])
  BY Zenon, <1>1 DEF Follower, FollowsCall, Leader, LeadsCall
<1>6. state[f] = "ReadyToClose" => f = Peer(e) /\ closed[f]
  <2>1. state[e] # "ReadyToClose"
    BY <1>1 DEF Follower, Follows
  <2>2. state[Peer(e)] = "ReadyToClose" => closed[Peer(e)]
    BY Zenon, <1>1 DEF Leader
  <2> QED BY Zenon, <1>1, <2>1, <2>2
<1>7. CASE c.at = "ask" /\ c.set = None
  BY Zenon, <1>1, <1>2, <1>3, <1>4, <1>7, CallGoesQuietly
<1>8. CASE c.at = "empty" /\ c.set = None /\ f = Peer(e) /\ closed[f]
  <2>1. None # "Terminating"
    BY DEF None
  <2>2. LeaderGoesTo(Peer(e), c)
    BY Zenon, <1>4, <1>8, <2>1 DEF LeaderGoesTo, LeadsCall, EndsCall
  <2> QED BY Zenon, <1>1, <1>2, <1>3, <1>4, <1>8, <2>2, CallGoes
<1>9. CASE c.at = "ask" /\ c.set = "Terminating" /\ f = Peer(e) /\ closed[f] /\ snd[f].window = {}
  <2>1. Drains(Peer(e)) \/ Drained(e)
    BY Zenon, <1>9, EmptyDrains
  <2>2. LeaderGoesTo(Peer(e), c)
    BY Zenon, <1>1, <1>4, <1>9, <2>1 DEF LeaderGoesTo, LeadsCall
  <2> QED BY Zenon, <1>1, <1>2, <1>3, <1>4, <1>9, <2>2, CallGoes
<1> QED BY Zenon, <1>4, <1>5, <1>6, <1>7, <1>8, <1>9

\* The timers of states.
LEMMA FlushTimersRole ==
  ASSUME NEW e \in Ends, Closing(e), OnlyPeerCloses(e)', KcpInv', Growing, NEW f \in Ends,
         NEW u \in Updaters, FlushTimers(f, u)
  PROVE  Role(e)'
<1>1. /\ ControlOK /\ u \in Calls /\ Peer(e) \in Ends /\ Peer(e) # e /\ (f # e => f = Peer(e))
      /\ Follower(e) /\ Leader(Peer(e))
  BY Zenon, CallNames, PeerFacts DEF Closing, Role, KcpInv, TypeOK
<1>2. CallOnly /\ net' = net
  BY Zenon DEF FlushTimers, CallOnly, NoClose, appVars
<1>3. NetOn(e)
  BY Zenon, <1>2, NetStays
<1>4. PICK c \in CallRecords :
           /\ Calling(f, u, c) /\ c.entered = None /\ c.set \in {None, "Terminating"}
           /\ \/ c.at = "terminate" /\ state[f] = "Terminating" /\ c.set = None
              \/ c.at \in {"ready", "acks"}
           /\ Expires(f, c.set # None)
  BY Zenon, <1>1, FlushTimersCall
<1>5. c.set = None
  <2> DEFINE b == c.set # None
  <2>1. b \in BOOLEAN /\ Expires(f, b)
    BY Zenon, <1>4
  <2> HIDE DEF b
  <2>2. ~ b
    BY Zenon, <2>1, OnTimeStep
  <2> QED BY Zenon, <2>2 DEF b
<1>6. CASE c.at \in {"ready", "acks"}
  BY Zenon, <1>1, <1>2, <1>3, <1>4, <1>5, <1>6, CallGoesQuietly
<1>7. CASE c.at = "terminate" /\ state[f] = "Terminating"
  <2>1. f = Peer(e)
    <3>1. state[e] # "Terminating"
      BY <1>1 DEF Follower, Follows
    <3> QED BY Zenon, <1>1, <1>7, <3>1
  <2>2. closed[f]
    <3>1. "Terminating" # "Active"
      OBVIOUS
    <3> QED BY Zenon, <1>1, <1>7, <2>1, <3>1 DEF Leader
  <2>3. LeaderGoesTo(Peer(e), c)
    BY Zenon, <1>4, <1>5, <1>7, <2>1, <2>2 DEF LeaderGoesTo, LeadsCall, Drains
  <2> QED BY Zenon, <1>1, <1>2, <1>3, <1>4, <2>1, <2>3, CallGoes
<1> QED BY Zenon, <1>4, <1>6, <1>7

\* The terminate command.
LEMMA FlushTerminateRole ==
  ASSUME NEW e \in Ends, Closing(e), OnlyPeerCloses(e)', KcpInv', Growing, NEW f \in Ends,
         NEW u \in Updaters, FlushTerminate(f, u)
  PROVE  Role(e)'
<1>1. /\ ControlOK /\ u \in Calls /\ Peer(e) # e /\ (f # e => f = Peer(e))
      /\ Follower(e) /\ snd[f] \in SendingWorkers /\ KcpInv
  BY Zenon, CallNames, PeerFacts DEF Closing, Role, KcpInv, TypeOK
<1>2. CallOnly /\ Sends(f, <<Ping(snd[f], rcv[f], state[f], "terminate")>>) /\ call[f][u].at = "terminate"
  <2>1. CallOnly /\ Sends(f, <<Ping(snd[f], rcv[f], state[f], "terminate")>>)
    BY Zenon DEF FlushTerminate, CallOnly, NoClose, appVars
  <2>2. call[f][u].at = "terminate"
    BY Zenon DEF FlushTerminate, At, Phase
  <2> QED BY Zenon, <2>1, <2>2
<1>3. f # e /\ Drains(f)
  BY Zenon, <1>1, <1>2 DEF Follower, FollowsCall, Drains, EndsCall
<1>4. NetOn(e)
  <2> DEFINE m == Ping(snd[f], rcv[f], state[f], "terminate")
  <2>1. m \in Packets
    BY Zenon, <1>1, PacketFacts
  <2>2. Sends(f, <<m>>)
    BY Zenon, <1>2
  <2> HIDE DEF m
  <2>3. <<m>> \in Seq(Packets) /\ Range(<<m>>) = {m}
    BY Zenon, <2>1, OnePacket
  <2> QED BY Zenon, <1>3, <2>2, <2>3, NetSends
<1>5. PICK c \in CallRecords :
           /\ Calling(f, u, c) /\ c.at = "idle" /\ c.entered = None /\ c.set \in {None, "Terminated"}
           /\ Expires(f, c.set # None)
  BY Zenon, <1>1, TerminateCall
<1>6. c.set = None
  <2> DEFINE b == c.set # None
  <2>1. b \in BOOLEAN /\ Expires(f, b)
    BY Zenon, <1>5
  <2> HIDE DEF b
  <2>2. ~ b
    BY Zenon, <2>1, OnTimeStep
  <2> QED BY Zenon, <2>2 DEF b
<1> QED BY Zenon, <1>1, <1>2, <1>4, <1>5, <1>6, CallGoesQuietly

\* A packet of the follower says nothing of closing.
LEMMA NetTells ==
  ASSUME NEW e \in Ends, Closing(e), NEW f \in Ends, NEW q \in Seq(Packets), Sends(f, q),
         \A m \in Range(q) : m.type # "terminate" /\ (m.close => state[f] = "ReadyToClose")
  PROVE  NetOn(e)
<1>1. state[e] # "ReadyToClose"
  <2>1. state[e] \in Follows
    BY Zenon DEF Closing, Role, Follower
  <2> QED BY <2>1 DEF Follows
<1> QED BY Zenon, <1>1, NetSends

\* Acknowledgements, segments and pings.
LEMMA FlushSendsRole ==
  ASSUME NEW e \in Ends, Closing(e), KcpInv', Growing, NEW f \in Ends, NEW u \in Updaters,
         \/ \E again \in BOOLEAN : FlushAcks(f, u, again)
         \/ \E D \in SUBSET snd[f].window, ping \in BOOLEAN : FlushSegments(f, u, D, ping)
         \/ FlushPing(f, u)
  PROVE  Role(e)'
<1>1. ControlOK /\ u \in Calls /\ snd[f] \in SendingWorkers /\ KcpInv
  BY Zenon, CallNames DEF Closing, KcpInv, TypeOK
<1>2. CallOnly
  BY Zenon DEF FlushAcks, FlushSegments, FlushPing, CallOnly, NoClose, lifeVars, appVars
<1>3. \E c \in CallRecords : /\ Calling(f, u, c) /\ c.set = None /\ c.entered = None
                             /\ c.at \in {"segments", "ping", "idle"}
  <2>1. ASSUME NEW again \in BOOLEAN, FlushAcks(f, u, again)
        PROVE  \E c \in CallRecords :
                 Calling(f, u, c) /\ c.at = "segments" /\ c.set = None /\ c.entered = None
    BY Zenon, <1>1, <2>1, AcksCall
  <2>2. ASSUME NEW D, NEW ping, FlushSegments(f, u, D, ping)
        PROVE  \E c \in CallRecords :
                 Calling(f, u, c) /\ c.at \in {"ping", "idle"} /\ c.set = None /\ c.entered = None
    BY Zenon, <1>1, <2>2, SegmentsCall
  <2>3. ASSUME FlushPing(f, u)
        PROVE  \E c \in CallRecords :
                 Calling(f, u, c) /\ c.at = "idle" /\ c.set = None /\ c.entered = None
    BY Zenon, <1>1, <2>3, PingCall
  <2> QED BY Zenon, <2>1, <2>2, <2>3
<1>4. ASSUME NEW m \in Packets, Sends(f, <<m>>), m.type # "terminate", m.close => state[f] = "ReadyToClose"
      PROVE  NetOn(e)
  <2>1. <<m>> \in Seq(Packets) /\ Range(<<m>>) = {m}
    BY Zenon, OnePacket
  <2> QED BY Zenon, <1>4, <2>1, NetTells
<1>5. ASSUME NEW again \in BOOLEAN, FlushAcks(f, u, again) PROVE NetOn(e)
  <2> DEFINE m == AckSegment(rcv[f], state[f])
  <2>1. Sends(f, <<m>>) \/ Sends(f, <<>>)
    BY Zenon, <1>1, <1>5, AcksCall
  <2>2. m \in Packets
    BY Zenon, <1>1, PacketFacts
  <2>3. m.type # "terminate" /\ (m.close => state[f] = "ReadyToClose")
    BY Zenon DEF AckSegment
  <2>4. <<>> \in Seq(Packets) /\ Range(<<>>) = {}
    BY DEF Range
  <2> HIDE DEF m
  <2>5. CASE Sends(f, <<>>)
    BY Zenon, <2>4, <2>5, NetTells
  <2> QED BY Zenon, <1>4, <2>1, <2>2, <2>3, <2>5
<1>6. ASSUME NEW D \in SUBSET snd[f].window, NEW ping \in BOOLEAN, FlushSegments(f, u, D, ping)
      PROVE  NetOn(e)
  <2> DEFINE due == IF released[f] THEN {} ELSE D
  <2>1. PICK g \in Transmissions(snd[f], due) :
          Sends(f, [i \in DOMAIN g |-> DataSegment(snd[f], g[i], state[f])])
    BY Zenon, <1>6 DEF FlushSegments
  <2>2. due \in SUBSET snd[f].window
    BY Zenon
  <2> HIDE DEF due
  <2> DEFINE q == [i \in DOMAIN g |-> DataSegment(snd[f], g[i], state[f])]
  <2>3. q \in Seq(Packets) /\ Sends(f, q)
    BY ZenonT(60), <1>1, <2>1, <2>2, SegmentList
  <2>4. ASSUME NEW m \in Range(q) PROVE m.type # "terminate" /\ (m.close => state[f] = "ReadyToClose")
    <3>1. PICK i \in DOMAIN g : m = DataSegment(snd[f], g[i], state[f])
      BY Zenon DEF Range
    <3> QED BY Zenon, <3>1 DEF DataSegment
  <2> HIDE DEF q
  <2> QED BY Zenon, <2>3, <2>4, NetTells
<1>7. ASSUME FlushPing(f, u) PROVE NetOn(e)
  <2> DEFINE m == Ping(snd[f], rcv[f], state[f], "ping")
  <2>1. Sends(f, <<m>>)
    BY Zenon, <1>7 DEF FlushPing
  <2>2. m \in Packets
    BY Zenon, <1>1, PacketFacts
  <2>3. m.type # "terminate" /\ (m.close => state[f] = "ReadyToClose")
    BY Zenon DEF Ping
  <2> HIDE DEF m
  <2> QED BY Zenon, <1>4, <2>1, <2>2, <2>3
<1>8. NetOn(e)
  BY Zenon, <1>5, <1>6, <1>7
<1> QED BY Zenon, <1>1, <1>2, <1>3, <1>8, CallGoesQuietly

\* A state is stored.
LEMMA StoreRole ==
  ASSUME NEW e \in Ends, Closing(e), KcpInv', Growing, NEW f \in Ends, NEW x \in Calls, StoreState(f, x)
  PROVE  Role(e)'
<1>1. /\ ControlOK /\ Peer(e) \in Ends /\ Peer(e) # e /\ (f # e => f = Peer(e))
      /\ state \in [Ends -> States] /\ Follower(e) /\ Leader(Peer(e)) /\ AllRead(e)
  BY Zenon, PeerFacts DEF Closing, Role, KcpInv, TypeOK, ControlOK
<1>2. /\ NoClose /\ cleared' = cleared /\ reader' = reader /\ received' = received /\ missed' = missed
      /\ net' = net /\ state' = [state EXCEPT ![f] = call[f][x].set] /\ call[f][x].set # None
  BY Zenon DEF StoreState, NoClose, lifeVars, appVars
<1>3. PICK c \in CallRecords :
        /\ Calling(f, x, c) /\ c.at = call[f][x].at /\ c.set = None
        /\ c.entered = IF call[f][x].set = "ReadyToClose" THEN None ELSE call[f][x].set
  BY Zenon, <1>1, StoreCall
<1>4. call'[f][x] = c /\ \A g \in Ends, y \in Calls : g # f \/ y # x => call'[g][y] = call[g][y]
  <2>1. ControlOK /\ Calling(f, x, c)
    BY Zenon, <1>1, <1>3
  <2> QED BY ZenonT(60), <2>1, CallStep
<1>5. state'[f] = call[f][x].set /\ \A g \in Ends : g # f => state'[g] = state[g]
  BY Zenon, <1>1, <1>2
<1>6. NetOn(e)
  BY Zenon, <1>2, NetStays
<1>7. CASE f = e
  <2>1. LeaderOn(Peer(e))
    BY Zenon, <1>1, <1>2, <1>4, <1>5, <1>7, LeaderStays
  <2>2. FollowsCall(call[e][x]) /\ call[e][x].set \in {"PeerClosed", "PeerTerminating"}
    BY Zenon, <1>1, <1>2, <1>7 DEF Follower, FollowsCall
  <2>3. FollowerGoesTo(e, c)
    <3>1. None # "PeerTerminating"
      BY DEF None
    <3>2. c.entered \in {None, "PeerClosed", "PeerTerminating"}
      BY Zenon, <1>3, <1>7, <2>2
    <3>3. ToldCall(c) => Told(e)
      BY Zenon, <1>3, <1>7, <3>1 DEF ToldCall, Told
    <3> QED BY Zenon, <1>3, <1>7, <2>2, <3>2, <3>3 DEF FollowerGoesTo, FollowsCall
  <2>4. ASSUME NEW y \in Calls PROVE FollowerGoesTo(e, call'[e][y])
    BY Zenon, <1>1, <1>4, <1>7, <2>3 DEF Follower, FollowerGoesTo, Told
  <2>5. AllRead(e)'
    BY Zenon, <1>1, <1>2 DEF AllRead, NoClose
  <2>6. state'[e] \in Follows /\ (state'[e] = "PeerTerminating" => Told(e))
    BY Zenon, <1>5, <1>7, <2>2 DEF Follows, Told, ToldCall
  <2>7. FollowerOn(e)
    BY Zenon, <1>2, <2>4, <2>5, <2>6 DEF FollowerOn, Told
  <2> QED BY Zenon, <1>2, <1>6, <2>1, <2>7, RoleStays
<1>8. CASE f = Peer(e)
  <2>1. FollowerOn(e)
    BY Zenon, <1>1, <1>2, <1>4, <1>5, <1>8, FollowerStays DEF NoClose
  <2>2. LeadsCall(call[f][x]) /\ call[f][x].set \in {"ReadyToClose", "Terminating"} /\ closed[f]
    BY Zenon, <1>1, <1>2, <1>8 DEF Leader, LeadsCall
  <2>3. call[f][x].set = "Terminating" => Drains(f)
    BY Zenon DEF Drains, EndsCall
  <2>4. LeaderGoesTo(f, c)
    <3>1. None # "Terminating"
      BY DEF None
    <3>2. c.entered \in {None, "Terminating"}
      BY Zenon, <1>3, <2>2
    <3>3. EndsCall(c) => Drains(f)
      BY Zenon, <1>3, <3>1 DEF EndsCall, Drains
    <3> QED BY Zenon, <1>3, <2>2, <3>2, <3>3 DEF LeaderGoesTo, LeadsCall
  <2>5. ASSUME NEW y \in Calls PROVE LeaderGoesTo(f, call'[f][y])
    BY Zenon, <1>1, <1>4, <1>8, <2>4 DEF Leader, LeaderGoesTo, Drains
  <2>6. state'[f] \in Leads /\ (state'[f] = "Terminating" => Drains(f))
    BY Zenon, <1>5, <2>2, <2>3 DEF Leads
  <2>7. LeaderOn(f)
    BY Zenon, <1>2, <2>2, <2>5, <2>6 DEF LeaderOn, Drains
  <2> QED BY Zenon, <1>2, <1>6, <1>8, <2>1, <2>7, RoleStays
<1> QED BY Zenon, <1>1, <1>7, <1>8

\* What follows a store.
LEMMA EnterRole ==
  ASSUME NEW e \in Ends, Closing(e), KcpInv', Growing, NEW f \in Ends, NEW x \in Calls, EnterState(f, x)
  PROVE  Role(e)'
<1>1. /\ ControlOK /\ Peer(e) \in Ends /\ Peer(e) # e /\ (f # e => f = Peer(e))
      /\ Follower(e) /\ Leader(Peer(e)) /\ AllRead(e) /\ dying \in [Ends -> BOOLEAN]
  BY Zenon, PeerFacts DEF Closing, Role, KcpInv, TypeOK, ControlOK
<1>2. /\ state' = state /\ closed' = closed /\ owed' = owed
      /\ reader' = reader /\ received' = received /\ missed' = missed /\ net' = net
      /\ call[f][x].entered # None
      /\ cleared' = [cleared EXCEPT ![f] = @ \/ snd[f].window # {}]
      /\ dying' = [dying EXCEPT ![f] = @ \/ call[f][x].entered = "Terminated"]
  BY Zenon DEF EnterState, appVars
<1>3. PICK c \in CallRecords :
        Calling(f, x, c) /\ c.at = call[f][x].at /\ c.set = call[f][x].set /\ c.entered = None
  BY Zenon, <1>1, EnterCall
<1>4. call'[f][x] = c /\ \A g \in Ends, y \in Calls : g # f \/ y # x => call'[g][y] = call[g][y]
  <2>1. ControlOK /\ Calling(f, x, c)
    BY Zenon, <1>1, <1>3
  <2> QED BY ZenonT(60), <2>1, CallStep
<1>5. \A g \in Ends : g # f => cleared'[g] = cleared[g]
  BY Zenon, <1>1, <1>2, ClearedFlag
<1>6. NetOn(e)
  BY Zenon, <1>2, NetStays
<1>7. None # "Terminating" /\ None # "PeerTerminating"
  BY DEF None
<1>8. call[f][x].entered # "Terminated"
  <2>1. call[f][x].entered \in {None, "PeerClosed", "PeerTerminating", "Terminating"}
    BY Zenon, <1>1 DEF Follower, FollowsCall, Leader, LeadsCall
  <2> QED BY <2>1 DEF None
<1>9. NoClose
  <2>1. dying' = dying
    BY Zenon, <1>1, <1>2, <1>8
  <2> QED BY Zenon, <1>2, <2>1 DEF NoClose
<1>10. CASE f = e
  <2>1. LeaderOn(Peer(e))
    BY Zenon, <1>1, <1>2, <1>4, <1>5, <1>10, LeaderStays
  <2>2. FollowerGoesTo(e, c)
    BY Zenon, <1>1, <1>3, <1>10 DEF Follower, FollowerGoesTo, FollowsCall, ToldCall, Told
  <2>3. ASSUME NEW y \in Calls PROVE FollowerGoesTo(e, call'[e][y])
    BY Zenon, <1>1, <1>4, <1>10, <2>2 DEF Follower, FollowerGoesTo, Told
  <2>4. AllRead(e)'
    BY Zenon, <1>1, <1>2 DEF AllRead
  <2>5. FollowerOn(e)
    BY Zenon, <1>1, <1>2, <2>3, <2>4 DEF FollowerOn, Follower, Told
  <2> QED BY Zenon, <1>6, <1>9, <2>1, <2>5, RoleStays
<1>11. CASE f = Peer(e)
  <2>1. FollowerOn(e)
    BY Zenon, <1>1, <1>2, <1>4, <1>11, FollowerStays
  <2>2. Drains(f)
    BY Zenon, <1>1, <1>2, <1>11 DEF Leader, LeadsCall, Drains, EndsCall
  <2>3. LeaderGoesTo(f, c)
    BY Zenon, <1>1, <1>3, <1>11, <2>2 DEF Leader, LeadsCall, LeaderGoesTo
  <2>4. ASSUME NEW y \in Calls PROVE LeaderGoesTo(f, call'[f][y])
    BY Zenon, <1>1, <1>4, <1>11, <2>2, <2>3 DEF Leader, LeaderGoesTo
  <2>5. LeaderOn(f)
    BY Zenon, <1>1, <1>2, <1>11, <2>2, <2>4 DEF LeaderOn, Leader
  <2> QED BY Zenon, <1>6, <1>9, <1>11, <2>1, <2>5, RoleStays
<1> QED BY Zenon, <1>1, <1>10, <1>11

\* Close of an active connection.
LEMMA CloseCall ==
  ASSUME ControlOK, NEW e \in Ends, Close(e), state[e] = "Active"
  PROVE  \E c \in CallRecords :
           Calling(e, "close", c) /\ c.at = "idle" /\ c.entered = None /\ c.set = "ReadyToClose"
<1>1. AfterClose(state[e]) = "ReadyToClose" /\ "ReadyToClose" # state[e]
  BY DEF AfterClose
<1>2. SetState(e, "close", "ReadyToClose", "idle")
  BY Zenon, <1>1 DEF Close, Moves
<1>3. "ReadyToClose" \in States \cup {None} /\ "idle" \in Phases /\ "close" \in Calls
  BY Zenon, CallNames DEF States, Phases
<1> QED BY <1>2, <1>3, SetStateCall

\* The application of the leader closes the connection.
LEMMA CloseRole ==
  ASSUME NEW e \in Ends, Closing(e), OnlyPeerCloses(e)', NEW f \in Ends, Close(f)
  PROVE  Role(e)'
<1> DEFINE p == Peer(e)
<1>1. /\ ControlOK /\ p \in Ends /\ p # e /\ (f # e => f = p) /\ Peer(p) = e
      /\ Follower(e) /\ Leader(p) /\ (Drains(p) \/ Told(e) => Drained(e))
      /\ closed \in [Ends -> BOOLEAN] /\ owed \in [Ends -> Nat] /\ snd[p].pushed \in Nat
  BY Zenon, PeerFacts DEF Closing, Role, KcpInv, TypeOK, ControlOK, SendingWorkers
<1>2. /\ closed' = [closed EXCEPT ![f] = TRUE] /\ owed' = [owed EXCEPT ![f] = snd[f].pushed]
      /\ Moves(f, "close", AfterClose(state[f]), "idle") /\ ~ closed[f]
      /\ state' = state /\ dying' = dying /\ cleared' = cleared /\ snd' = snd
      /\ reader' = reader /\ received' = received /\ missed' = missed /\ net' = net
  BY Zenon DEF Close, lifeVars
<1>3. f = p
  <2>1. ~ closed'[e]
    BY Zenon DEF OnlyPeerCloses
  <2> QED BY Zenon, <1>1, <1>2, <2>1
<1>4. state[p] = "Active" /\ ~ Drains(p) /\ ~ Told(e) /\ closed'[p] /\ owed'[p] = snd[p].pushed
  <2>1. ~ Drained(e)
    BY Zenon, <1>2, <1>3 DEF Drained
  <2> QED BY Zenon, <1>1, <1>2, <1>3, <2>1 DEF Leader
<1>5. PICK c \in CallRecords : Calling(p, "close", c) /\ c.at = "idle" /\ c.entered = None /\ c.set = "ReadyToClose"
  BY ZenonT(60), <1>1, <1>3, <1>4, CloseCall
<1>6. call'[p]["close"] = c /\ \A g \in Ends, y \in Calls : g # p \/ y # "close" => call'[g][y] = call[g][y]
  BY ZenonT(30), <1>1, <1>5, CallNames, CallStep
<1>7. Follower(e)'
  BY Zenon, <1>1, <1>2, <1>6 DEF Follower
<1>8. Leader(p)'
  <2>1. LeadsCall(c)
    BY Zenon, <1>5 DEF LeadsCall
  <2>2. \A y \in Calls : LeadsCall(call'[p][y])
    BY Zenon, <1>1, <1>6, <2>1 DEF Leader
  <2>3. owed'[p] <= snd'[p].pushed
    BY <1>1, <1>2, <1>4
  <2> QED BY Zenon, <1>1, <1>2, <1>4, <2>2, <2>3 DEF Leader
<1>9. ~ Drains(p)'
  <2>1. ~ EndsCall(c)
    <3>1. None # "Terminating" /\ "ReadyToClose" # "Terminating" /\ "idle" # "terminate"
      BY DEF None
    <3> QED BY Zenon, <1>5, <3>1 DEF EndsCall
  <2>2. \A y \in Calls : ~ EndsCall(call'[p][y])
    BY Zenon, <1>1, <1>4, <1>6, <2>1 DEF Drains
  <2> QED BY Zenon, <1>2, <1>4, <2>2 DEF Drains
<1>10. ~ Told(e)'
  <2>1. \A y \in Calls : call'[e][y] = call[e][y]
    BY Zenon, <1>1, <1>6
  <2> QED BY Zenon, <1>2, <1>4, <2>1 DEF Told
<1>11. AllRead(e)'
  BY Zenon, <1>2, <1>4 DEF AllRead, Told
<1> QED BY Zenon, <1>7, <1>8, <1>9, <1>10, <1>11 DEF Role

\* Steps that are of no call.
LEMMA OtherRole ==
  ASSUME NEW e \in Ends, Closing(e), KcpInv', Growing, NoClose,
         state' = state, call' = call, cleared' = cleared,
         reader'[e] = "eof" => Told(e), AllRead(e)',
         \A g \in Ends : Range(net'[g]) \subseteq Range(net[g])
  PROVE  Role(e)'
<1>1. Peer(e) \in Ends /\ Follower(e)
  BY Zenon, PeerFacts DEF Closing, Role
<1>2. LeaderOn(Peer(e))
  BY Zenon, <1>1, LeaderStays
<1>3. ASSUME NEW y \in Calls PROVE FollowerGoesTo(e, call'[e][y])
  BY Zenon, <1>1 DEF Follower, FollowerGoesTo, Told
<1>4. FollowerOn(e)
  BY Zenon, <1>1, <1>3 DEF FollowerOn, Follower, Told
<1> QED BY Zenon, <1>2, <1>4, NetStays, RoleStays

\* The application of f reads.
LEMMA ReadRole ==
  ASSUME NEW e \in Ends, Closing(e), KcpInv', Growing, NEW f \in Ends,
         ReadLook(f) \/ ReadTake(f) \/ ReadCheck(f)
  PROVE  Role(e)'
<1>1. /\ ControlOK /\ Peer(e) \in Ends /\ Follower(e) /\ AllRead(e) /\ (Told(e) => Drained(e)) /\ KcpInv
      /\ reader \in [Ends -> {"none", "look", "take", "check", "eof"}] /\ missed \in [Ends -> BOOLEAN]
      /\ received \in [Ends -> Seq(Nat)] /\ owed[Peer(e)] \in Nat
  BY Zenon, PeerFacts DEF Closing, Role, KcpInv, TypeOK, ControlOK
<1>2. NoClose /\ state' = state /\ call' = call /\ cleared' = cleared /\ net' = net
  BY Zenon DEF ReadLook, ReadTake, ReadCheck, NoClose, lifeVars
<1>3. \A g \in Ends : Range(net'[g]) \subseteq Range(net[g])
  BY Zenon, <1>2
<1>4. owed'[Peer(e)] = owed[Peer(e)]
  BY Zenon, <1>2 DEF NoClose
<1>5. CASE f # e
  <2>1. reader'[e] = reader[e] /\ missed'[e] = missed[e] /\ received'[e] = received[e]
    <3>1. CASE ReadLook(f)
      BY Zenon, <1>1, <1>5, <3>1 DEF ReadLook
    <3>2. CASE ReadTake(f)
      BY Zenon, <1>1, <1>5, <3>2 DEF ReadTake, Give
    <3>3. CASE ReadCheck(f)
      BY Zenon, <1>1, <1>5, <3>3 DEF ReadCheck
    <3> QED BY Zenon, <3>1, <3>2, <3>3
  <2>2. AllRead(e)'
    BY Zenon, <1>1, <1>4, <2>1 DEF AllRead
  <2>3. reader'[e] = "eof" => Told(e)
    BY Zenon, <2>1 DEF Told
  <2> QED BY Zenon, <1>2, <1>3, <2>2, <2>3, OtherRole
<1>6. CASE f = e /\ (ReadLook(f) \/ ReadTake(f))
  <2>1. ~ AtEnd(state[e])
    BY <1>1 DEF Follower, Follows, AtEnd
  <2>2. reader'[e] \in {"take", "look", "check"}
    BY Zenon, <1>1, <1>6, <2>1 DEF ReadLook, ReadTake
  <2>3. reader'[e] # "eof"
    BY <2>2
  <2> QED BY Zenon, <1>2, <1>3, <2>3, OtherRole DEF AllRead
<1>7. CASE f = e /\ ReadCheck(f)
  <2> DEFINE ends == state[e] = "PeerTerminating" /\ e \notin load.bytes
  <2>1. /\ reader'[e] = (IF ends THEN "eof" ELSE "look") /\ received' = received
        /\ missed'[e] = (ends /\ rcv[e].next \in Numbers(rcv[e]))
    BY Zenon, <1>1, <1>7 DEF ReadCheck
  <2>2. CASE ~ ends
    BY Zenon, <1>2, <1>3, <2>1, <2>2, OtherRole DEF AllRead
  <2>3. CASE ends
    <3>1. Drained(e) /\ Told(e)
      BY Zenon, <1>1, <2>3 DEF Told
    <3>2. Start + Len(received[e]) + Len(rcv[e].left) = rcv[e].next /\ rcv[e].left = <<>>
      BY Zenon, <1>1, <2>3 DEF KcpInv, Reading, Whole, Continues
    <3> DEFINE a == Len(received[e])
    <3>3. a \in Nat
      BY <1>1
    <3>4. Start + a = rcv[e].next
      BY <3>2, <3>3, KcpAssumption
    <3> HIDE DEF a
    <3>5. ASSUME rcv[e].next \notin Numbers(rcv[e]) PROVE owed[Peer(e)] <= a
      <4> SUFFICES ASSUME ~ (owed[Peer(e)] <= a) PROVE FALSE
        BY Zenon
      <4>1. a \in 0..(owed[Peer(e)] - 1)
        BY <1>1, <3>3
      <4>2. Has(e, Start + a)
        BY Zenon, <3>1, <4>1 DEF Drained
      <4>3. rcv[e].next < rcv[e].next
        BY Zenon, <3>4, <3>5, <4>2 DEF Has
      <4>4. rcv[e].next \in Nat
        BY <3>3, <3>4, KcpAssumption
      <4> QED BY <4>3, <4>4
    <3>6. AllRead(e)'
      BY Zenon, <1>4, <2>1, <2>3, <3>5 DEF AllRead, a
    <3> QED BY Zenon, <1>2, <1>3, <3>1, <3>6, OtherRole
  <2> QED BY Zenon, <2>2, <2>3
<1> QED BY Zenon, <1>5, <1>6, <1>7

-----------------------------------------------------------------------------
(* The closing of a connection, always.                                    *)

\* No step of any call breaks the closing of a connection.
LEMMA StepRole ==
  ASSUME KcpInv, ClosingInv, NEW f \in Ends, NEW x \in Calls, Step(f, x), NEW e \in Ends
  PROVE  Role(e)'
<1> SUFFICES ASSUME OnlyPeerCloses(e)' PROVE Role(e)'
  BY Zenon DEF Role
<1>1. KcpInv' /\ Growing
  BY Zenon, StepInv
<1>2. ControlOK /\ expired \in [Ends -> BOOLEAN] /\ closed \in [Ends -> BOOLEAN]
  BY Zenon DEF KcpInv, TypeOK, ControlOK
<1>3. \A g \in Ends : (closed[g] => closed'[g]) /\ (expired[g] => expired'[g])
  <2>1. closed' = closed \/ closed' = [closed EXCEPT ![f] = TRUE]
    BY ZenonT(60) DEF Step, FlushGoesOn, appVars, Terminate, UpdaterEnds, Fault, ReadLook, ReadTake, ReadCheck,
       Close, HandleOption, HandleTerminate, ProcessSegment, WriteBegins, WritePushes, StoreState, EnterState,
       FlushBegins, FlushCloses, FlushTimers, FlushTerminate, FlushAcks, FlushSegments, FlushPing
  <2>2. expired' = expired \/ \E b \in BOOLEAN : Expires(f, b)
    BY ZenonT(60) DEF Step, FlushGoesOn, lifeVars, Terminate, UpdaterEnds, Fault, ReadLook, ReadTake, ReadCheck,
       Close, HandleOption, HandleTerminate, ProcessSegment, WriteBegins, WritePushes, StoreState, EnterState,
       FlushBegins, FlushCloses, FlushTimers, FlushTerminate, FlushAcks, FlushSegments, FlushPing
  <2> QED BY Zenon, <1>2, <2>1, <2>2 DEF Expires
<1>4. Closing(e)
  <2>1. OnlyPeerCloses(e)
    BY Zenon, <1>3 DEF OnlyPeerCloses, Ends
  <2> QED BY Zenon, <2>1 DEF Closing, ClosingInv
<1>5. ASSUME x \in Updaters, FlushGoesOn(f, x) PROVE Role(e)'
  BY Zenon, <1>1, <1>4, <1>5, FlushClosesRole, FlushTimersRole, FlushTerminateRole, FlushSendsRole DEF FlushGoesOn
<1>6. ASSUME Terminate(f) PROVE FALSE
  <2>1. ~ dying[e] /\ ~ dying[Peer(e)] /\ (f # e => f = Peer(e))
    BY Zenon, <1>4, PeerFacts DEF Closing, Role, Follower, Leader
  <2> QED BY Zenon, <1>6, <2>1 DEF Terminate
<1>7. ASSUME UpdaterEnds(f) \/ Fault(f) PROVE Role(e)'
  <2>1. /\ NoClose /\ state' = state /\ call' = call /\ cleared' = cleared
        /\ reader' = reader /\ missed' = missed /\ received' = received
    BY Zenon, <1>7 DEF UpdaterEnds, Fault, NoClose, lifeVars, appVars
  <2>2. \A g \in Ends : Range(net'[g]) \subseteq Range(net[g])
    <3>1. CASE Fault(f)
      BY Zenon, <3>1, FaultNet
    <3>2. CASE UpdaterEnds(f)
      BY Zenon, <3>2 DEF UpdaterEnds
    <3> QED BY Zenon, <1>7, <3>1, <3>2
  <2>3. AllRead(e)' /\ (reader'[e] = "eof" => Told(e))
    BY Zenon, <1>4, <2>1 DEF Closing, Role, AllRead, NoClose, Told
  <2> QED BY Zenon, <1>1, <1>4, <2>1, <2>2, <2>3, OtherRole
<1>8. ASSUME NEW due \in Dues, x \in Updaters, FlushBegins(f, x, due) PROVE Role(e)'
  BY Zenon, <1>1, <1>4, <1>8, FlushBeginsRole
<1>9. ASSUME ReadLook(f) \/ ReadTake(f) \/ ReadCheck(f) PROVE Role(e)'
  BY Zenon, <1>1, <1>4, <1>9, ReadRole
<1>10. ASSUME Close(f) PROVE Role(e)'
  BY Zenon, <1>4, <1>10, CloseRole
<1>11. ASSUME HandleOption(f) \/ HandleTerminate(f) \/ ProcessSegment(f) PROVE Role(e)'
  BY Zenon, <1>1, <1>4, <1>11, OptionRole, TerminateRole, ProcessRole
<1>12. ASSUME WriteBegins(f) \/ WritePushes(f) PROVE Role(e)'
  BY Zenon, <1>1, <1>4, <1>12, WriteRole
<1>13. ASSUME StoreState(f, x) \/ EnterState(f, x) PROVE Role(e)'
  BY Zenon, <1>1, <1>4, <1>13, StoreRole, EnterRole
<1> QED BY Zenon, <1>5, <1>6, <1>7, <1>8, <1>9, <1>10, <1>11, <1>12, <1>13 DEF Step

\* Two new connections.
LEMMA ClosingInit == Init => ClosingInv
<1> SUFFICES ASSUME Init, NEW e \in Ends PROVE Role(e)
  BY Zenon DEF ClosingInv
<1>1. /\ KcpInv /\ Peer(e) \in Ends /\ \A f \in Ends, y \in Calls : call[f][y] = Idle
      /\ \A f \in Ends : /\ state[f] = "Active" /\ ~ dying[f] /\ ~ cleared[f] /\ owed[f] = 0 /\ net[f] = <<>>
                         /\ reader[f] \in {"look", "none"} /\ snd[f].pushed = 0
  BY Zenon, KcpInit, PeerFacts DEF Init
<1>2. Range(<<>>) = {}
  BY DEF Range
<1>3. Idle.at = "idle" /\ Idle.set = None /\ Idle.entered = None
  BY Zenon DEF Idle, Phase
<1>4. FollowsCall(Idle) /\ LeadsCall(Idle) /\ ~ EndsCall(Idle) /\ ~ ToldCall(Idle) /\ Idle.at # "empty"
  <2>1. None # "Terminating" /\ None # "PeerTerminating"
    BY DEF None
  <2> QED BY Zenon, <1>3, <2>1 DEF FollowsCall, LeadsCall, EndsCall, ToldCall
<1>5. Follower(e)
  BY Zenon, <1>1, <1>2, <1>4 DEF Follower, Follows
<1>6. Leader(Peer(e))
  <2>1. owed[Peer(e)] <= snd[Peer(e)].pushed
    BY <1>1
  <2> QED BY Zenon, <1>1, <1>3, <1>4, <2>1 DEF Leader, Leads
<1>7. ~ Drains(Peer(e))
  BY Zenon, <1>1, <1>4 DEF Drains
<1>8. reader[e] # "eof"
  BY <1>1
<1>9. ~ Told(e)
  BY Zenon, <1>1, <1>2, <1>4, <1>8 DEF Told
<1> QED BY Zenon, <1>5, <1>6, <1>7, <1>8, <1>9 DEF Role, AllRead

\* Every step, and those that change nothing.
LEMMA ClosingNext == KcpInv /\ ClosingInv /\ [Next]_vars => ClosingInv'
<1> SUFFICES ASSUME KcpInv, ClosingInv, [Next]_vars, NEW e \in Ends PROVE Role(e)'
  BY Zenon DEF ClosingInv
<1>1. CASE UNCHANGED vars
  <2>1. /\ state' = state /\ call' = call /\ dying' = dying /\ cleared' = cleared /\ expired' = expired
        /\ closed' = closed /\ owed' = owed /\ missed' = missed /\ reader' = reader /\ received' = received
        /\ net' = net /\ snd' = snd /\ rcv' = rcv
    BY Zenon, <1>1 DEF vars, lifeVars, appVars
  <2>2. Role(e)
    BY Zenon DEF ClosingInv
  <2> QED BY ZenonT(60), <2>1, <2>2 DEF Role, OnlyPeerCloses, Follower, Leader, AllRead, Drains, Told, Drained, Has
<1> QED BY Zenon, <1>1, NextStep, StepRole

\* While one side closes and the other does not, the closing side ends only with
\* what it pushed before at the other, and the other hears of the end only then,
\* however the steps of Close, Input, Write and two updaters fall.
THEOREM ClosingInvariant == Spec => [](KcpInv /\ ClosingInv)
<1>1. Init => KcpInv /\ ClosingInv
  BY Zenon, KcpInit, ClosingInit
<1>2. KcpInv /\ ClosingInv /\ [Next]_vars => (KcpInv /\ ClosingInv)'
  BY Zenon, KcpNext, ClosingNext
<1> QED BY <1>1, <1>2, PTL DEF Spec

\* An io.EOF that the peer's termination causes comes after all that the peer
\* pushed before Close.
THEOREM EofReadsAll == Spec => []EofComplete
<1>1. KcpInv /\ ClosingInv => EofComplete
  BY Zenon DEF ClosingInv, Role, OnlyPeerCloses, AllRead, EofComplete
<1> QED BY <1>1, ClosingInvariant, PTL

=============================================================================
