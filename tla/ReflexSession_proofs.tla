------------------------ MODULE ReflexSession_proofs ------------------------
(***************************************************************************)
(* Proofs about ReflexSession, for any number of frames and of units, any  *)
(* profile and whatever the client asks for.                               *)
(***************************************************************************)
EXTENDS ReflexSession, TLAPS

Ended == {"returned", "closed"}

\* handleSession has at most the payload it is writing ahead of the uplink.
UplinkInv ==
  /\ hpc \in {"read", "poll"} => payloads = accepted
  /\ hpc \in {"first", "later"} =>
       payloads = IF pending = 0 THEN accepted ELSE Append(accepted, pending)
  /\ hpc \in Ended => payloads = accepted \/ \E x \in 1..MaxData : payloads = Append(accepted, x)

\* Where the three goroutines are, and what they have told each other.
StageInv ==
  /\ up = "none" <=> fpc = "none"
  /\ out = "none" <=> fpc = "none"
  /\ down = "none" <=> out = "none"
  /\ down = "open" <=> out = "run"
  /\ hpc \in {"first", "later", "poll"} => up # "none"
  /\ ferr = "none" <=> fpc \notin {"send", "done"}
  /\ fpc # "done" => errCh = <<>> /\ late = 0
  /\ fpc = "done" /\ hpc \notin Ended => errCh # <<>>
  /\ errCh # <<>> => errCh = <<ferr>>

\* How often a payload can still be accepted after the forwarder's error.
LateInv ==
  /\ late <= 2
  /\ hpc = "first" => late = 0
  /\ hpc \in {"read", "later"} => late <= 1

\* b holds the units after x up to y.
Run(b, x, y) ==
  b \in Seq(Nat) /\ Len(b) = y - x /\ \A k \in 1..Len(b) : b[k] = x + k

\* The buffers of q hold the units after x up to y, and none is empty: cut[i]
\* is the last unit of the first i buffers.
Chain(q, x, y) ==
  \E cut \in [0..Len(q) -> 0..MaxUnits] :
    /\ cut[0] = x /\ cut[Len(q)] = y
    /\ \A i, j \in 0..Len(q) : i < j => cut[i] < cut[j]
    /\ \A i \in 1..Len(q) : Run(q[i], cut[i - 1], cut[i])

\* The client has the units up to x, in order.
SentUpTo(x) ==
  /\ UnitsSent = 1..x
  /\ \A i, j \in Data :
       \A k \in DOMAIN toClient[i].arg, l \in DOMAIN toClient[j].arg :
         i < j \/ (i = j /\ k < l) => toClient[i].arg[k] < toClient[j].arg[l]

\* What the forwarder's buffers and the downlink hold at each stage.
BufferInv ==
  /\ down = "interrupted" => downQ = <<>>
  /\ fpc \in {"none", "read"} => mb = <<>>
  /\ fpc = "none" => downQ = <<>> /\ produced = 0
  /\ fpc = "data" => mb # <<>> /\ size > 0
  /\ ferr = "eof" => down = "closed" /\ downQ = <<>> /\ mb = <<>>

\* What the outbound has answered is with the client, in the forwarder's
\* buffers or in the downlink, in this order, unless it was dropped.
AnswerInv ==
  \E x \in 0..produced :
    /\ SentUpTo(x)
    /\ \/ ferr = "error"
       \/ \E y \in x..produced :
            Chain(mb, x, y) /\ (down = "interrupted" \/ Chain(downQ, y, produced))

\* CLOSE follows the end of the answer, and ends the session.
CloseInv ==
  \A i \in DOMAIN toClient :
    toClient[i].type = "close" =>
      i = Len(toClient) /\ hpc \in Ended /\ fpc = "done" /\ ferr = "eof"

\* Every size the client asked for is waiting, in use or used, or was replaced.
Waiting == IF nextPacketSize > 0 THEN 1 ELSE 0
Using == IF fpc \in {"data", "padding"} /\ size \notin ProfileSizes THEN 1 ELSE 0
OverrideInv ==
  \E n \in Nat : ExistsInjection(Asked, 1..n) /\ n + Using + Waiting <= overrides

\* The type invariant, in the parts that change together.
HandlerType ==
  /\ hpc \in {"read", "first", "later", "poll", "returned", "closed"}
  /\ pending \in 0..MaxData /\ frames \in 0..MaxData
  /\ payloads \in Seq(1..MaxData) /\ accepted \in Seq(1..MaxData)

StageType ==
  /\ up \in {"none", "open", "closed", "interrupted"}
  /\ down \in {"none", "open", "closed", "interrupted"}
  /\ out \in {"none", "run", "closing", "done"}
  /\ fpc \in {"none", "read", "pick", "data", "padding", "timing", "tell", "sleep",
              "send", "done"}
  /\ ferr \in {"none", "eof", "error"}
  /\ errCh \in Seq({"eof", "error"}) /\ late \in Nat

CountType ==
  /\ taken \in 0..Len(accepted)
  /\ controls \in 0..MaxControls /\ overrides \in 0..controls
  /\ size \in Nat /\ delay \in Nat /\ nextPacketSize \in Nat /\ nextDelay \in Nat
  /\ conn \in {"open", "reset", "closed"}

BufferType ==
  /\ produced \in 0..MaxUnits
  /\ downQ \in Seq(Seq(1..MaxUnits)) /\ mb \in Seq(Seq(1..MaxUnits))
  /\ toClient \in Seq(ClientFrames)

SessionInv ==
  /\ HandlerType /\ StageType /\ CountType /\ BufferType /\ cancelled \in BOOLEAN
  /\ UplinkInv /\ StageInv /\ LateInv /\ BufferInv /\ AnswerInv /\ CloseInv /\ OverrideInv

-----------------------------------------------------------------------------
(* What the steps of each goroutine leave alone.                           *)

\* What the steps of handleSession and of its worker leave alone.
LEMMA HandlerLeaves ==
  ASSUME Read \/ writeUpstream \/ Poll \/ WorkerCloses
  PROVE  /\ UNCHANGED <<taken, downQ, produced, mb, size, delay, ferr>>
         /\ UNCHANGED <<down, out, fpc>> \/ \E f \in Frames : FirstData(f)
         /\ UNCHANGED <<profile, controls>> \/ \E f \in Frames : HandleControlFrame(f)
         /\ UNCHANGED toClient \/ Poll
         /\ conn' \in {conn, "closed"} /\ (UNCHANGED cancelled \/ WorkerCloses)
<1>1. ASSUME NEW f \in Frames, FirstData(f)
      PROVE  UNCHANGED <<taken, downQ, produced, mb, size, delay, ferr, profile, controls,
                         toClient, conn, cancelled>>
  BY Zenon, <1>1 DEF FirstData
<1>2. ASSUME NEW f \in Frames, LaterData(f) \/ CloseOrUnknown(f)
      PROVE  UNCHANGED <<taken, downlink, out, forwarder, profile, controls, toClient, conn,
                         cancelled>>
  BY Zenon, <1>2 DEF LaterData, CloseOrUnknown, uplink
<1>3. ASSUME NEW f \in Frames, HandleControlFrame(f)
      PROVE  UNCHANGED <<taken, downlink, out, forwarder, toClient, conn, cancelled>>
  BY Zenon, <1>3 DEF HandleControlFrame, uplink
<1>4. CASE ReadFails \/ writeUpstream
  BY Zenon, <1>4 DEF ReadFails, writeUpstream, uplink, downlink, forwarder
<1>5. CASE Poll \/ WorkerCloses
  BY Zenon, <1>5 DEF Poll, WorkerCloses, uplink, downlink, forwarder
<1> QED BY Zenon, <1>1, <1>2, <1>3, <1>4, <1>5 DEF Read, downlink, forwarder

\* What the steps of the downlink goroutine leave alone.
LEMMA ForwardLeaves ==
  ASSUME Forward \/ ForwardWrites
  PROVE  /\ UNCHANGED <<hpc, pending, frames, payloads, controls, accepted, taken, up, down,
                        produced, out, cancelled, late, overrides, conn>>
         /\ UNCHANGED <<size, delay, profile>> \/ GetPacketSize \/ GetDelay
<1>1. CASE ReadMultiBuffer \/ GetPacketSize \/ NextRead
  BY Zenon, <1>1
     DEF ReadMultiBuffer, Stop, GetPacketSize, NextRead, handler, uplink, downlink, profile
<1>2. CASE GetDelay \/ SleepEnds \/ SendError
  BY Zenon, <1>2 DEF GetDelay, SleepEnds, SendError, handler, uplink, downlink, profile
<1>3. CASE ForwardWrites
  BY Zenon, <1>3
     DEF ForwardWrites, WriteData, SendPaddingControl, SendTimingControl, Frame, handler,
              uplink, downlink, profile
<1> QED BY Zenon, <1>1, <1>2, <1>3 DEF Forward

\* What the outbound, a failure of the connection and a stutter leave alone.
LEMMA OthersLeave ==
  ASSUME Outbound \/ ConnFails \/ UNCHANGED vars
  PROVE  /\ UNCHANGED <<hpc, pending, frames, payloads, controls, accepted, cancelled, fpc, mb,
                        size, delay, ferr, errCh, late, nextPacketSize, nextDelay, overrides,
                        toClient>>
         /\ conn' \in {conn, "reset"}
<1>1. CASE Outbound
  BY Zenon, <1>1 DEF Outbound, OutboundReads, OutboundEnds, OutboundInterrupts, OutboundAnswers,
              handler, uplink, forwarder, profile
<1>2. CASE ConnFails \/ UNCHANGED vars
  BY Zenon, <1>2 DEF ConnFails, vars, handler, uplink, forwarder, profile
<1> QED BY Zenon, <1>1, <1>2

\* What is interrupted stays so, and so does an error of the forwarder.
LEMMA Lasting ==
  ASSUME StageInv, [Next]_vars
  PROVE  (down = "interrupted" => down' = "interrupted") /\ (ferr = "error" => ferr' = "error")
<1> USE DEF StageInv
<1>1. CASE Read \/ writeUpstream \/ Poll \/ WorkerCloses
  <2>1. ASSUME NEW f \in Frames, FirstData(f) PROVE down # "interrupted"
    BY Zenon, <2>1 DEF FirstData
  <2> QED BY Zenon, <1>1, <2>1, HandlerLeaves
<1>2. CASE Forward
  BY Zenon, <1>2, ForwardLeaves
     DEF Forward, ReadMultiBuffer, Stop, GetPacketSize, NextRead, GetDelay,
                             SleepEnds, SendError
<1>3. CASE ForwardWrites
  BY Zenon, <1>3, ForwardLeaves DEF ForwardWrites, WriteData, SendPaddingControl, SendTimingControl,
                             Frame
<1>4. CASE Outbound
  BY Zenon, <1>4, OthersLeave DEF Outbound, OutboundReads, OutboundEnds, OutboundInterrupts,
                           OutboundAnswers, downlink
<1>5. CASE ConnFails \/ UNCHANGED vars
  BY Zenon, <1>5 DEF ConnFails, vars, downlink, forwarder
<1> QED BY Zenon, <1>1, <1>2, <1>3, <1>4, <1>5 DEF Next

\* A session that has ended stays so, and so does the forwarder.
LEMMA EndedStays ==
  ASSUME StageInv, [Next]_vars
  PROVE  /\ hpc \in Ended => hpc' \in Ended
         /\ fpc = "done" => fpc' = "done" /\ ferr' = ferr
<1>1. CASE Read \/ writeUpstream \/ Poll \/ WorkerCloses
  <2>1. hpc \in Ended => hpc' \in Ended
    BY Zenon, <1>1 DEF Read, ReadFails, FirstData, LaterData, HandleControlFrame, CloseOrUnknown,
                writeUpstream, Poll, WorkerCloses, Ended
  <2>2. ASSUME NEW f \in Frames, FirstData(f) PROVE fpc # "done"
    BY Zenon, <2>2 DEF FirstData, StageInv
  <2> QED BY Zenon, <1>1, <2>1, <2>2, HandlerLeaves
<1>2. CASE Forward \/ ForwardWrites
  <2>1. fpc # "done"
    BY Zenon, <1>2 DEF Forward, ForwardWrites, ReadMultiBuffer, GetPacketSize, NextRead, GetDelay,
                SleepEnds, SendError, WriteData, SendPaddingControl, SendTimingControl
  <2> QED BY Zenon, <1>2, <2>1, ForwardLeaves
<1>3. CASE Outbound \/ ConnFails \/ UNCHANGED vars
  BY Zenon, <1>3, OthersLeave
<1> QED BY Zenon, <1>1, <1>2, <1>3 DEF Next

-----------------------------------------------------------------------------
(* Buffers and what is cut from them.                                      *)

\* Cutting a run of units gives two that follow each other.
LEMMA RunCut ==
  ASSUME NEW x \in Nat, NEW y \in Nat, NEW b, Run(b, x, y), NEW n \in 1..Len(b)
  PROVE  /\ Run(SubSeq(b, 1, n), x, x + n) /\ Run(SubSeq(b, n + 1, Len(b)), x + n, y)
         /\ x < x + n /\ x + n <= y /\ (n = Len(b) <=> x + n = y)
<1>1. b \in Seq(Nat) /\ Len(b) \in Nat /\ Len(b) = y - x /\ \A k \in 1..Len(b) : b[k] = x + k
  BY DEF Run
<1>2. /\ SubSeq(b, 1, n) \in Seq(Nat) /\ Len(SubSeq(b, 1, n)) = n
      /\ \A k \in 1..n : SubSeq(b, 1, n)[k] = b[k]
  BY <1>1
<1>3. /\ SubSeq(b, n + 1, Len(b)) \in Seq(Nat) /\ Len(SubSeq(b, n + 1, Len(b))) = Len(b) - n
      /\ \A k \in 1..(Len(b) - n) : SubSeq(b, n + 1, Len(b))[k] = b[n + k]
  BY <1>1
<1>4. Run(SubSeq(b, 1, n), x, x + n)
  BY <1>1, <1>2 DEF Run
<1>5. Run(SubSeq(b, n + 1, Len(b)), x + n, y)
  BY <1>1, <1>3 DEF Run
<1> QED BY <1>1, <1>4, <1>5

\* An empty queue goes from a unit to itself.
LEMMA ChainEmpty ==
  ASSUME NEW x \in 0..MaxUnits
  PROVE  Chain(<<>>, x, x) /\ \A y : Chain(<<>>, x, y) => y = x
<1>1. Len(<<>>) = 0
  BY Zenon
<1>2. Chain(<<>>, x, x)
  <2>1. [i \in 0..0 |-> x] \in [0..0 -> 0..MaxUnits] /\ [i \in 0..0 |-> x][0] = x
    OBVIOUS
  <2>2. \A i, j \in 0..0 : ~ (i < j)
    OBVIOUS
  <2>3. 1..0 = {}
    OBVIOUS
  <2> QED BY Zenon, <1>1, <2>1, <2>2, <2>3 DEF Chain
<1>3. \A y : Chain(<<>>, x, y) => y = x
  BY Zenon, <1>1 DEF Chain
<1> QED BY Zenon, <1>2, <1>3

\* The first buffer is the first part.
LEMMA ChainHead ==
  ASSUME NEW S, NEW q \in Seq(S), q # <<>>, MaxUnits \in Nat, NEW x, NEW y, Chain(q, x, y)
  PROVE  \E z \in 0..MaxUnits : /\ x \in 0..MaxUnits /\ y \in 0..MaxUnits /\ x < z /\ z <= y
                                /\ Run(Head(q), x, z) /\ Chain(Tail(q), z, y)
<1>1. PICK cut \in [0..Len(q) -> 0..MaxUnits] :
        /\ cut[0] = x /\ cut[Len(q)] = y
        /\ \A i, j \in 0..Len(q) : i < j => cut[i] < cut[j]
        /\ \A i \in 1..Len(q) : Run(q[i], cut[i - 1], cut[i])
  BY Zenon DEF Chain
<1>2. /\ Len(q) \in Nat \ {0} /\ Head(q) = q[1] /\ Len(Tail(q)) = Len(q) - 1
      /\ \A i \in 1..(Len(q) - 1) : Tail(q)[i] = q[i + 1]
  OBVIOUS
<1> DEFINE n == Len(q) - 1
           rest == [i \in 0..n |-> cut[i + 1]]
<1>3. /\ n \in Nat /\ rest \in [0..n -> 0..MaxUnits] /\ rest[0] = cut[1] /\ rest[n] = y
      /\ \A i \in 0..n : rest[i] = cut[i + 1]
  BY <1>1, <1>2
<1>4. x \in 0..MaxUnits /\ y \in 0..MaxUnits /\ cut[1] \in 0..MaxUnits /\ x < cut[1] /\ cut[1] <= y
  <2>1. 0 \in 0..Len(q) /\ 1 \in 0..Len(q) /\ Len(q) \in 0..Len(q)
    BY <1>2
  <2>2. x \in 0..MaxUnits /\ y \in 0..MaxUnits /\ cut[1] \in 0..MaxUnits /\ x < cut[1]
    BY <1>1, <2>1
  <2>3. CASE Len(q) = 1
    BY <1>1, <2>2, <2>3
  <2>4. CASE Len(q) > 1
    BY <1>1, <2>1, <2>2, <2>4
  <2> QED BY <1>2, <2>2, <2>3, <2>4
<1>5. Run(Head(q), x, cut[1])
  BY <1>1, <1>2
<1>6. \A i, j \in 0..n : i < j => rest[i] < rest[j]
  BY <1>1, <1>2, <1>3
<1>7. ASSUME NEW i \in 1..n PROVE Run(Tail(q)[i], rest[i - 1], rest[i])
  <2>1. i + 1 \in 1..Len(q) /\ i - 1 \in 0..n /\ i \in 0..n /\ (i - 1) + 1 = i /\ (i + 1) - 1 = i
    BY <1>2
  <2> HIDE DEF rest
  <2>2. rest[i - 1] = cut[i] /\ rest[i] = cut[i + 1] /\ Tail(q)[i] = q[i + 1]
    BY Zenon, <1>2, <1>3, <2>1
  <2>3. Run(q[i + 1], cut[(i + 1) - 1], cut[i + 1])
    BY Zenon, <1>1, <2>1
  <2> QED BY Zenon, <2>1, <2>2, <2>3
<1>8. Chain(Tail(q), cut[1], y)
  <2> HIDE DEF rest
  <2> QED BY Zenon, <1>2, <1>3, <1>6, <1>7 DEF Chain
<1> QED BY Zenon, <1>4, <1>5, <1>8

\* A run may follow at the end of a queue.
LEMMA ChainAppend ==
  ASSUME NEW S, NEW q \in Seq(S), MaxUnits \in Nat, NEW x, NEW y, Chain(q, x, y),
         NEW z \in 0..MaxUnits, y < z, NEW b, Run(b, y, z)
  PROVE  Chain(Append(q, b), x, z)
<1>1. PICK cut \in [0..Len(q) -> 0..MaxUnits] :
        /\ cut[0] = x /\ cut[Len(q)] = y
        /\ \A i, j \in 0..Len(q) : i < j => cut[i] < cut[j]
        /\ \A i \in 1..Len(q) : Run(q[i], cut[i - 1], cut[i])
  BY Zenon DEF Chain
<1> DEFINE n == Len(q) + 1
           more == [i \in 0..n |-> IF i = n THEN z ELSE cut[i]]
<1>2. /\ Len(q) \in Nat /\ Len(Append(q, b)) = n /\ Append(q, b)[n] = b
      /\ \A i \in 1..Len(q) : Append(q, b)[i] = q[i]
  OBVIOUS
<1>3. /\ n \in Nat /\ more \in [0..n -> 0..MaxUnits] /\ more[n] = z /\ more[0] = x
      /\ \A i \in 0..Len(q) : more[i] = cut[i]
  BY <1>1, <1>2
<1> HIDE DEF more
<1>4. ASSUME NEW i \in 0..n, NEW j \in 0..n, i < j PROVE more[i] < more[j]
  <2>1. i \in 0..Len(q) /\ Len(q) \in 0..Len(q)
    BY <1>2, <1>4
  <2>a. cut[i] \in 0..MaxUnits /\ y \in 0..MaxUnits /\ cut[Len(q)] = y
    BY Zenon, <1>1, <2>1
  <2>b. i < Len(q) => cut[i] < cut[Len(q)]
    BY Zenon, <1>1, <2>1
  <2>2. cut[i] <= y
    BY <1>2, <2>1, <2>a, <2>b
  <2>3. CASE j = n
    BY <1>3, <2>1, <2>a, <2>2, <2>3
  <2>4. CASE j \in 0..Len(q)
    BY Zenon, <1>1, <1>3, <1>4, <2>1, <2>4
  <2> QED BY <1>2, <2>3, <2>4
<1>5. ASSUME NEW i \in 1..n PROVE Run(Append(q, b)[i], more[i - 1], more[i])
  <2>1. CASE i = n
    <3>1. i - 1 = Len(q) /\ Len(q) \in 0..Len(q)
      BY <1>2, <2>1
    <3>2. more[i - 1] = y /\ more[i] = z /\ Append(q, b)[i] = b
      BY Zenon, <1>1, <1>2, <1>3, <2>1, <3>1
    <3> QED BY Zenon, <3>2
  <2>2. CASE i \in 1..Len(q)
    <3>1. i \in 0..Len(q) /\ i - 1 \in 0..Len(q)
      BY <1>2, <2>2
    <3>2. more[i - 1] = cut[i - 1] /\ more[i] = cut[i] /\ Append(q, b)[i] = q[i]
      BY Zenon, <1>2, <1>3, <2>2, <3>1
    <3> QED BY Zenon, <1>1, <2>2, <3>2
  <2> QED BY <1>2, <2>1, <2>2
<1> QED BY Zenon, <1>2, <1>3, <1>4, <1>5 DEF Chain

\* A run may be put before a queue.
LEMMA ChainCons ==
  ASSUME NEW S, NEW q \in Seq(S), MaxUnits \in Nat, NEW y, NEW z, Chain(q, z, y),
         NEW x \in 0..MaxUnits, x < z, NEW b, Run(b, x, z)
  PROVE  Chain(<<b>> \o q, x, y)
<1>1. PICK cut \in [0..Len(q) -> 0..MaxUnits] :
        /\ cut[0] = z /\ cut[Len(q)] = y
        /\ \A i, j \in 0..Len(q) : i < j => cut[i] < cut[j]
        /\ \A i \in 1..Len(q) : Run(q[i], cut[i - 1], cut[i])
  BY Zenon DEF Chain
<1> DEFINE n == Len(q) + 1
           more == [i \in 0..n |-> IF i = 0 THEN x ELSE cut[i - 1]]
<1>2. /\ Len(q) \in Nat /\ Len(<<b>> \o q) = n /\ (<<b>> \o q)[1] = b
      /\ \A i \in 2..n : (<<b>> \o q)[i] = q[i - 1]
  OBVIOUS
<1>3. /\ n \in Nat /\ more \in [0..n -> 0..MaxUnits] /\ more[n] = y /\ more[0] = x
      /\ \A i \in 1..n : more[i] = cut[i - 1]
  BY <1>1, <1>2
<1> HIDE DEF more
<1>4. ASSUME NEW i \in 0..n, NEW j \in 0..n, i < j PROVE more[i] < more[j]
  <2>1. j \in 1..n /\ j - 1 \in 0..Len(q) /\ 0 \in 0..Len(q)
    BY <1>2, <1>4
  <2>a. cut[j - 1] \in 0..MaxUnits /\ z \in 0..MaxUnits /\ cut[0] = z
    BY Zenon, <1>1, <2>1
  <2>b. 0 < j - 1 => cut[0] < cut[j - 1]
    BY Zenon, <1>1, <2>1
  <2>2. z <= cut[j - 1]
    BY <2>1, <2>a, <2>b
  <2>3. CASE i = 0
    BY <1>3, <2>1, <2>a, <2>2, <2>3
  <2>4. CASE i \in 1..n
    <3>1. i - 1 \in 0..Len(q) /\ i - 1 < j - 1
      BY <1>2, <1>4, <2>4
    <3> QED BY Zenon, <1>1, <1>3, <2>1, <2>4, <3>1
  <2> QED BY <1>2, <2>3, <2>4
<1>5. ASSUME NEW i \in 1..n PROVE Run((<<b>> \o q)[i], more[i - 1], more[i])
  <2>1. CASE i = 1
    <3>1. more[i - 1] = x /\ more[i] = z /\ (<<b>> \o q)[i] = b
      BY <1>1, <1>2, <1>3, <2>1
    <3> QED BY Zenon, <3>1
  <2>2. CASE i \in 2..n
    <3>1. i - 1 \in 1..n /\ i - 1 \in 1..Len(q)
      BY <1>2, <2>2
    <3>2. more[i - 1] = cut[(i - 1) - 1] /\ more[i] = cut[i - 1] /\ (<<b>> \o q)[i] = q[i - 1]
      BY Zenon, <1>2, <1>3, <2>2, <3>1
    <3> QED BY Zenon, <1>1, <3>1, <3>2
  <2> QED BY <1>2, <2>1, <2>2
<1> QED BY Zenon, <1>2, <1>3, <1>4, <1>5 DEF Chain

-----------------------------------------------------------------------------
(* The frames written to the client.                                       *)

\* A frame is written behind those written before, which stay as they are.
LEMMA Written ==
  ASSUME BufferType, NEW f, toClient' = Append(toClient, f)
  PROVE  /\ Len(toClient) \in Nat /\ Len(toClient') = Len(toClient) + 1
         /\ DOMAIN toClient = 1..Len(toClient) /\ DOMAIN toClient' = 1..(Len(toClient) + 1)
         /\ toClient'[Len(toClient) + 1] = f
         /\ \A i \in DOMAIN toClient : i \in DOMAIN toClient' /\ toClient'[i] = toClient[i]
         /\ Len(toClient) + 1 \notin DOMAIN toClient
         /\ \A i \in DOMAIN toClient' : i \in DOMAIN toClient \/ i = Len(toClient) + 1
BY DEF BufferType

\* What the client has got stays when nothing is written.
LEMMA SentKept ==
  ASSUME NEW x, SentUpTo(x), toClient' = toClient
  PROVE  SentUpTo(x)'
<1>1. Data' = Data /\ UnitsSent' = UnitsSent
  BY Zenon DEF Data, UnitsSent
<1> QED BY <1>1 DEF SentUpTo

\* A frame without data leaves what has been sent as it is.
LEMMA SentSame ==
  ASSUME BufferType, NEW f, f.type # "data", toClient' = Append(toClient, f), NEW x, SentUpTo(x)
  PROVE  SentUpTo(x)'
<1>1. Data' = Data
  BY Zenon, Written DEF Data
<1>2. \A i \in Data : toClient'[i] = toClient[i]
  BY Zenon, Written DEF Data
<1>3. UnitsSent' = UnitsSent
  BY <1>1, <1>2, Zenon DEF UnitsSent
<1>4. ASSUME NEW i \in Data', NEW j \in Data',
             NEW k \in DOMAIN toClient'[i].arg, NEW l \in DOMAIN toClient'[j].arg,
             i < j \/ (i = j /\ k < l)
      PROVE  toClient'[i].arg[k] < toClient'[j].arg[l]
  BY Zenon, <1>1, <1>2, <1>4 DEF SentUpTo
<1> QED BY Zenon, <1>3, <1>4 DEF SentUpTo

\* A chunk of data takes up where the frames before it end.
LEMMA SentMore ==
  ASSUME BufferType, NEW x \in Nat, NEW z \in Nat, x <= z, SentUpTo(x), NEW b, Run(b, x, z),
         toClient' = Append(toClient, [type |-> "data", arg |-> b])
  PROVE  SentUpTo(z)'
<1> DEFINE m == Len(toClient) + 1
<1>1. Data' = Data \cup {m} /\ m \notin Data
  BY Written DEF Data
<1>2. \A i \in Data : toClient'[i] = toClient[i] /\ i < m
  BY Written DEF Data
<1>3. toClient'[m].arg = b
  BY Written
<1> HIDE DEF m
<1>4. /\ DOMAIN b = 1..(z - x) /\ \A k \in 1..(z - x) : b[k] = x + k
  BY DEF Run
<1>5. Range(b) = (x + 1)..z
  <2>1. ASSUME NEW u \in (x + 1)..z PROVE u \in Range(b)
    <3>1. u - x \in DOMAIN b /\ b[u - x] = u
      BY <1>4
    <3> QED BY Zenon, <3>1 DEF Range
  <2>2. ASSUME NEW u \in Range(b) PROVE u \in (x + 1)..z
    BY <1>4, <2>2 DEF Range
  <2> QED BY Zenon, <2>1, <2>2
<1>6. UnitsSent' = UnitsSent \cup Range(b)
  BY <1>1, <1>2, <1>3, Zenon DEF UnitsSent
<1>7. UnitsSent' = 1..z
  BY <1>5, <1>6 DEF SentUpTo
<1>8. ASSUME NEW i \in Data, NEW k \in DOMAIN toClient[i].arg
      PROVE  toClient[i].arg[k] \in 1..x
  <2>1. toClient[i].arg[k] \in Range(toClient[i].arg)
    BY Zenon DEF Range
  <2>2. toClient[i].arg[k] \in UnitsSent
    BY <2>1, Zenon DEF UnitsSent
  <2> QED BY Zenon, <2>2 DEF SentUpTo
<1>9. ASSUME NEW i \in Data', NEW j \in Data',
             NEW k \in DOMAIN toClient'[i].arg, NEW l \in DOMAIN toClient'[j].arg,
             i < j \/ (i = j /\ k < l)
      PROVE  toClient'[i].arg[k] < toClient'[j].arg[l]
  <2>1. CASE i \in Data /\ j \in Data
    BY Zenon, <1>2, <1>9, <2>1 DEF SentUpTo
  <2>2. CASE i \in Data /\ j = m
    <3>1. toClient'[i].arg[k] \in 1..x
      BY <1>2, <1>8, <2>2, Zenon
    <3>2. toClient'[j].arg[l] = x + l /\ l \in 1..(z - x)
      BY Zenon, <1>3, <1>4, <2>2
    <3>3. \A u \in 1..x : u < x + l
      BY <3>2
    <3> QED BY <3>1, <3>2, <3>3, Zenon
  <2>3. CASE i = m /\ j \in Data
    <3>1. j \in Nat /\ m \in Nat /\ j < m
      BY <1>2, <2>3, Written DEF Data, m
    <3>2. i = m /\ (i < j \/ i = j)
      BY Zenon, <1>9, <2>3
    <3> QED BY <3>1, <3>2
  <2>4. CASE i = m /\ j = m
    <3>1. /\ toClient'[i].arg[k] = x + k /\ k \in 1..(z - x)
          /\ toClient'[j].arg[l] = x + l /\ l \in 1..(z - x)
      BY Zenon, <1>3, <1>4, <2>4
    <3>2. k < l
      BY <1>1, <1>2, <1>9, <2>4, <3>1, Written DEF m
    <3>3. x + k < x + l
      BY <3>1, <3>2
    <3> QED BY <3>1, <3>3, Zenon
  <2> QED BY Zenon, <1>1, <2>1, <2>2, <2>3, <2>4
<1> QED BY Zenon, <1>7, <1>9 DEF SentUpTo

\* Only a frame that tells of a size the client asked for needs one more control
\* frame.
LEMMA AskedMore ==
  ASSUME BufferType, NEW f, toClient' = Append(toClient, f),
         NEW n \in Nat, ExistsInjection(Asked, 1..n)
  PROVE  /\ ExistsInjection(Asked, 1..(n + 1))'
         /\ f.type # "padding" \/ f.arg[1] \in ProfileSizes => ExistsInjection(Asked, 1..n)'
<1> DEFINE m == Len(toClient) + 1
<1>1. m \notin Asked
  BY Zenon, Written DEF Asked
<1>2. Asked' = IF f.type = "padding" /\ f.arg[1] \notin ProfileSizes
               THEN Asked \cup {m} ELSE Asked
  BY Written DEF Asked
<1> HIDE DEF m
<1>3. PICK use \in [Asked -> 1..n] : \A a, b \in Asked : use[a] = use[b] => a = b
  BY Zenon DEF ExistsInjection, Injection, IsInjective
<1>4. ASSUME NEW k \in {n, n + 1} PROVE ExistsInjection(Asked, 1..k)
  <2>1. use \in [Asked -> 1..k]
    BY <1>3
  <2> QED BY Zenon, <1>3, <2>1 DEF ExistsInjection, Injection, IsInjective
<1>5. ExistsInjection(Asked \cup {m}, 1..(n + 1))
  <2> DEFINE with == [a \in Asked \cup {m} |-> IF a = m THEN n + 1 ELSE use[a]]
  <2>1. with \in [Asked \cup {m} -> 1..(n + 1)]
    BY <1>3
  <2>2. \A a, b \in Asked \cup {m} : with[a] = with[b] => a = b
    BY <1>1, <1>3
  <2> HIDE DEF with
  <2> QED BY Zenon, <2>1, <2>2 DEF ExistsInjection, Injection, IsInjective
<1> QED BY Zenon, <1>2, <1>4, <1>5

-----------------------------------------------------------------------------
(* The client's payloads.                                                  *)

\* What a step does to the payloads: nothing; a data frame is read; its payload,
\* if any, is accepted; or the handler goes on, or returns.
Idle == UNCHANGED <<hpc, pending, frames, payloads, accepted>>
DataRead ==
  /\ hpc = "read" /\ hpc' \in {"first", "later"} /\ frames < MaxData /\ frames' = frames + 1
  /\ pending' \in {0, frames + 1} /\ accepted' = accepted
  /\ payloads' = IF pending' = 0 THEN payloads ELSE Append(payloads, pending')
PayloadAccepted ==
  /\ hpc \in {"first", "later"} /\ hpc' \in {"read", "poll"} /\ pending # 0 /\ pending' = 0
  /\ accepted' = Append(accepted, pending) /\ UNCHANGED <<frames, payloads>>
GoesOn ==
  /\ (hpc \in {"first", "later"} /\ pending = 0) \/ hpc = "poll"
  /\ hpc' \in {"read", "poll"}
  /\ UNCHANGED <<pending, frames, payloads, accepted>>
Returns ==
  /\ hpc' \in Ended /\ frames' \in {frames, frames + 1} /\ (frames' = frames \/ frames < MaxData)
  /\ UNCHANGED <<pending, payloads, accepted>>

\* What a step may do to the uplink, in five kinds.
LEMMA HandlerStep ==
  ASSUME [Next]_vars, frames \in Nat
  PROVE  Idle \/ DataRead \/ PayloadAccepted \/ GoesOn \/ Returns
<1>1. CASE Forward \/ ForwardWrites
  BY Zenon, <1>1, ForwardLeaves DEF Idle
<1>2. CASE Outbound \/ ConnFails \/ UNCHANGED vars
  BY Zenon, <1>2, OthersLeave DEF Idle
<1>3. CASE ReadFails \/ WorkerCloses \/ Poll
  BY Zenon, <1>3 DEF ReadFails, WorkerCloses, Poll, Return, handler, uplink, GoesOn, Returns, Ended
<1>4. CASE writeUpstream
  BY Zenon, <1>4 DEF writeUpstream, Afterwards, Return, PayloadAccepted, GoesOn, Returns, Ended
<1>5. ASSUME NEW f \in Frames, FirstData(f) \/ LaterData(f)
      PROVE  DataRead \/ Returns
  BY <1>5 DEF FirstData, LaterData, ToUpstream, Return, uplink, DataRead, Returns, Ended
<1>6. ASSUME NEW f \in Frames, HandleControlFrame(f) \/ CloseOrUnknown(f)
      PROVE  Idle \/ Returns
  BY Zenon, <1>6 DEF HandleControlFrame, CloseOrUnknown, Return, uplink, Idle, Returns, Ended
<1> QED BY Zenon, <1>1, <1>2, <1>3, <1>4, <1>5, <1>6 DEF Next, Read

\* Every step keeps the uplink in order.
LEMMA UplinkStep ==
  ASSUME MaxData \in Nat, HandlerType, UplinkInv, [Next]_vars
  PROVE  HandlerType' /\ UplinkInv'
<1>1. Idle \/ DataRead \/ PayloadAccepted \/ GoesOn \/ Returns
  BY HandlerStep DEF HandlerType
<1>2. CASE Idle
  BY Zenon, <1>2 DEF Idle, HandlerType, UplinkInv
<1>3. CASE DataRead
  <2>1. pending' \in 0..MaxData /\ (pending' # 0 => pending' \in 1..MaxData)
    BY <1>3 DEF DataRead, HandlerType
  <2>2. payloads' \in Seq(1..MaxData)
    <3>1. \A p \in 1..MaxData : Append(payloads, p) \in Seq(1..MaxData)
      BY DEF HandlerType
    <3> QED BY Zenon, <1>3, <2>1, <3>1 DEF DataRead, HandlerType
  <2>3. HandlerType'
    BY <1>3, <2>1, <2>2 DEF DataRead, HandlerType
  <2> QED BY Zenon, <1>3, <2>3 DEF DataRead, UplinkInv, Ended
<1>4. CASE PayloadAccepted
  <2>1. Append(accepted, pending) \in Seq(1..MaxData)
    BY <1>4 DEF PayloadAccepted, HandlerType
  <2>2. HandlerType'
    BY <1>4, <2>1 DEF PayloadAccepted, HandlerType
  <2> QED BY Zenon, <1>4, <2>2 DEF PayloadAccepted, UplinkInv, Ended
<1>5. CASE GoesOn
  BY Zenon, <1>5 DEF GoesOn, HandlerType, UplinkInv, Ended
<1>6. CASE Returns
  <2>1. HandlerType'
    BY <1>6 DEF Returns, HandlerType, Ended
  <2>2. payloads = accepted \/ \E x \in 1..MaxData : payloads = Append(accepted, x)
    BY DEF HandlerType, UplinkInv, Ended
  <2> QED BY Zenon, <1>6, <2>1, <2>2 DEF Returns, UplinkInv, Ended
<1> QED BY Zenon, <1>1, <1>2, <1>3, <1>4, <1>5, <1>6

-----------------------------------------------------------------------------
(* The stages of the three goroutines.                                     *)

\* Every step keeps the stages of the session and the bound on late payloads.
LEMMA StageStep ==
  ASSUME HandlerType, StageType, StageInv, LateInv, [Next]_vars
  PROVE  StageType' /\ StageInv' /\ LateInv'
<1> USE DEF HandlerType, StageType, StageInv, LateInv, Ended
<1>1. CASE ReadFails \/ WorkerCloses
  BY <1>1 DEF ReadFails, WorkerCloses, Return, handler, uplink, downlink, forwarder
<1>2. ASSUME NEW f \in Frames, FirstData(f) PROVE StageType' /\ StageInv' /\ LateInv'
  BY Zenon, <1>2 DEF FirstData, ToUpstream, Return
<1>3. ASSUME NEW f \in Frames, LaterData(f) PROVE StageType' /\ StageInv' /\ LateInv'
  BY Zenon, <1>3 DEF LaterData, ToUpstream, uplink, downlink, forwarder
<1>4. ASSUME NEW f \in Frames, HandleControlFrame(f) PROVE StageType' /\ StageInv' /\ LateInv'
  BY <1>4 DEF HandleControlFrame, uplink, downlink, forwarder
<1>5. ASSUME NEW f \in Frames, CloseOrUnknown(f) PROVE StageType' /\ StageInv' /\ LateInv'
  BY <1>5 DEF CloseOrUnknown, Return, downlink, forwarder
<1>6. CASE writeUpstream
  BY <1>6 DEF writeUpstream, Afterwards, Return, downlink, forwarder
<1>7. CASE Poll
  BY <1>7 DEF Poll, Return, uplink, downlink, forwarder
<1>8. CASE ReadMultiBuffer
  BY Zenon, <1>8 DEF ReadMultiBuffer, Stop, handler, uplink
<1>9. CASE GetPacketSize \/ NextRead \/ GetDelay \/ SleepEnds
  BY <1>9 DEF GetPacketSize, NextRead, GetDelay, SleepEnds, handler, uplink, downlink
<1>10. CASE SendError
  BY <1>10 DEF SendError, handler, uplink, downlink
<1>11. CASE ForwardWrites
  BY <1>11 DEF ForwardWrites, WriteData, SendPaddingControl, SendTimingControl, Frame,
               handler, uplink, downlink
<1>12. ASSUME Outbound PROVE StageType' /\ StageInv' /\ LateInv'
  <2>1. UNCHANGED <<hpc, fpc, ferr, errCh, late>>
    BY Zenon, <1>12, OthersLeave
  <2>2. \/ UNCHANGED <<up, down, out>>
        \/ out = "run" /\ out' = "closing" /\ down' \in {"closed", "interrupted"} /\ up' = up
        \/ /\ out = "closing" /\ out' = "done" /\ down' \in {down, "interrupted"}
           /\ up' \in {"closed", "interrupted"}
    BY Zenon, <1>12 DEF Outbound, OutboundReads, OutboundEnds, OutboundInterrupts, OutboundAnswers,
                 uplink, downlink
  <2> QED BY <2>1, <2>2
<1>13. CASE ConnFails \/ UNCHANGED vars
  BY <1>13 DEF ConnFails, vars, handler, uplink, downlink, forwarder
<1> QED BY Zenon, <1>1, <1>2, <1>3, <1>4, <1>5, <1>6, <1>7, <1>8, <1>9, <1>10, <1>11, <1>12, <1>13
        DEF Next, Read, Forward
-----------------------------------------------------------------------------
(* Sizes, delays and counts.                                               *)

\* A product of durations wraps, and is an integer.
LEMMA Delays == \A ms \in TimingArgs : ToDelay(ms) \in Int
BY SessionAssumption DEF ToDelay

\* The outbound takes no more than was accepted.
LEMMA TakenStep ==
  ASSUME HandlerType, taken \in 0..Len(accepted), [Next]_vars
  PROVE  taken' \in 0..Len(accepted')
<1>1. Len(accepted) \in Nat /\ Len(accepted') \in Nat /\ Len(accepted') >= Len(accepted)
  <2>1. Len(accepted) \in Nat /\ Len(Append(accepted, pending)) = Len(accepted) + 1
    BY DEF HandlerType
  <2>2. accepted' \in {accepted, Append(accepted, pending)}
    BY HandlerStep DEF HandlerType, Idle, DataRead, PayloadAccepted, GoesOn, Returns
  <2> QED BY <2>1, <2>2
<1>2. CASE OutboundReads \/ OutboundInterrupts
  BY <1>1, <1>2 DEF OutboundReads, OutboundInterrupts
<1>3. CASE Read \/ writeUpstream \/ Poll \/ WorkerCloses
  BY <1>1, <1>3, HandlerLeaves
<1>4. CASE Forward \/ ForwardWrites
  BY Zenon, <1>1, <1>4, ForwardLeaves
<1>5. CASE OutboundEnds \/ ConnFails \/ (\E n \in 1..MaxUnits : OutboundAnswers(n))
           \/ UNCHANGED vars
  BY Zenon, <1>1, <1>5 DEF OutboundEnds, ConnFails, OutboundAnswers, vars, uplink
<1> QED BY Zenon, <1>2, <1>3, <1>4, <1>5 DEF Next, Outbound

\* Every step keeps the types of the counters.
LEMMA CountStep ==
  ASSUME HandlerType, CountType, [Next]_vars
  PROVE  CountType'
<1>0. taken' \in 0..Len(accepted')
  BY Zenon, TakenStep DEF CountType
<1>1. CASE Read \/ writeUpstream \/ Poll \/ WorkerCloses
  <2>1. CASE UNCHANGED <<profile, controls>>
    BY Zenon, <1>0, <1>1, <2>1, HandlerLeaves DEF CountType, profile
  <2>2. ASSUME NEW f \in Frames, HandleControlFrame(f) PROVE CountType'
    <3>1. f.type = "padding" => f.arg \in Nat
      BY Zenon, SessionAssumption DEF Frames
    <3>2. f.type = "timing" => ToDelay(f.arg) \in Int
      BY Zenon, Delays DEF Frames
    <3>3. controls < MaxControls /\ controls' = controls + 1 /\ UNCHANGED <<size, delay, conn>>
      BY Zenon, <2>2 DEF HandleControlFrame, forwarder
    <3>4. nextPacketSize' \in Nat /\ nextDelay' \in Nat /\ overrides' \in {overrides, overrides + 1}
      BY <2>2, <3>1, <3>2 DEF HandleControlFrame, SetNextPacketSize, SetNextDelay, profile,
                              CountType
    <3> QED BY <1>0, <3>3, <3>4, SessionAssumption DEF CountType
  <2> QED BY Zenon, <1>1, <2>1, <2>2, HandlerLeaves
<1>2. CASE ConnFails \/ Outbound \/ UNCHANGED vars
  BY Zenon, <1>0, <1>2, OthersLeave DEF CountType
<1>3. CASE GetPacketSize \/ GetDelay
  <2>1. size' \in Nat /\ delay' \in Nat /\ nextPacketSize' \in Nat /\ nextDelay' \in Nat
    <3>1. \A n \in ProfileSizes \cup ProfileDelays : n \in Nat
      BY Zenon, SessionAssumption
    <3>2. CASE GetPacketSize
      BY Zenon, <3>1, <3>2 DEF GetPacketSize, CountType
    <3>3. CASE GetDelay
      BY Zenon, <3>1, <3>3 DEF GetDelay, CountType
    <3> QED BY Zenon, <1>3, <3>2, <3>3
  <2> QED BY Zenon, <1>0, <1>3, <2>1 DEF GetPacketSize, GetDelay, CountType, handler
<1>4. CASE (Forward \/ ForwardWrites) /\ UNCHANGED <<size, delay, profile>>
  BY Zenon, <1>0, <1>4, ForwardLeaves DEF CountType, profile
<1> QED BY Zenon, <1>1, <1>2, <1>3, <1>4, ForwardLeaves DEF Next

\* Every step keeps the type of cancelled.
LEMMA CancelStep ==
  ASSUME cancelled \in BOOLEAN, [Next]_vars
  PROVE  cancelled' \in BOOLEAN
<1>1. cancelled' = cancelled \/ WorkerCloses
  BY Zenon, HandlerLeaves, ForwardLeaves, OthersLeave DEF Next
<1> QED BY <1>1, Zenon DEF WorkerCloses

-----------------------------------------------------------------------------
(* The answer on its way to the client.                                    *)

\* The steps that move units, or write a frame.
LEMMA Movers ==
  ASSUME [Next]_vars
  PROVE  \/ UNCHANGED <<mb, downQ, produced, toClient>>
         \/ Poll \/ SendPaddingControl \/ SendTimingControl
         \/ ReadMultiBuffer \/ WriteData
         \/ OutboundEnds \/ OutboundInterrupts \/ \E n \in 1..MaxUnits : OutboundAnswers(n)
<1>1. CASE Read \/ writeUpstream \/ WorkerCloses
  BY Zenon, <1>1, HandlerLeaves
<1>2. CASE GetPacketSize \/ NextRead \/ GetDelay \/ SleepEnds \/ SendError
  BY Zenon, <1>2 DEF GetPacketSize, NextRead, GetDelay, SleepEnds, SendError, downlink
<1>3. CASE OutboundReads \/ ConnFails \/ UNCHANGED vars
  BY Zenon, <1>3 DEF OutboundReads, ConnFails, vars, downlink, forwarder
<1> QED BY Zenon, <1>1, <1>2, <1>3 DEF Next, Forward, ForwardWrites, Outbound

\* CLOSE, a size or a delay is written, or nothing.
LEMMA ControlFrames ==
  ASSUME CountType, Poll \/ SendPaddingControl \/ SendTimingControl
  PROVE  /\ UNCHANGED <<mb, downQ, produced, down, profile>>
         /\ \/ toClient' = toClient
            \/ \E f \in ClientFrames : f.type # "data" /\ toClient' = Append(toClient, f)
<1>1. UNCHANGED <<mb, downQ, produced, down, profile>>
  BY Zenon DEF Poll, SendPaddingControl, SendTimingControl, downlink, forwarder
<1>2. CASE Poll
  <2>1. [type |-> "close", arg |-> <<>>] \in ClientFrames
    BY DEF ClientFrames
  <2> QED BY Zenon, <1>1, <1>2, <2>1 DEF Poll, Write
<1>3. CASE SendPaddingControl
  <2>1. [type |-> "padding", arg |-> <<size>>] \in ClientFrames
    BY DEF ClientFrames, CountType
  <2> QED BY Zenon, <1>1, <1>3, <2>1 DEF SendPaddingControl, Frame, Write
<1>4. CASE SendTimingControl
  <2>1. delay \div Millisecond \in Nat
    BY SessionAssumption DEF CountType
  <2>2. [type |-> "timing", arg |-> <<delay \div Millisecond>>] \in ClientFrames
    BY <2>1 DEF ClientFrames
  <2> QED BY Zenon, <1>1, <1>4, <2>2 DEF SendTimingControl, Frame, Write
<1> QED BY Zenon, <1>2, <1>3, <1>4

\* What WriteData takes from the first buffer, and what it leaves.
Chunk == IF Len(Head(mb)) > size THEN size ELSE Len(Head(mb))
Rest == SubSeq(Head(mb), Chunk + 1, Len(Head(mb)))

\* What writing a chunk does: the rest of the buffer goes back to the front.
LEMMA ChunkWritten ==
  ASSUME CountType, BufferType, BufferInv, WriteData
  PROVE  /\ mb # <<>> /\ Head(mb) \in Seq(1..MaxUnits) /\ Tail(mb) \in Seq(Seq(1..MaxUnits))
         /\ Chunk \in 0..Len(Head(mb)) /\ (Len(Head(mb)) > 0 => Chunk > 0)
         /\ mb' = IF Chunk = Len(Head(mb)) THEN Tail(mb) ELSE <<Rest>> \o Tail(mb)
         /\ UNCHANGED <<downQ, produced, down, profile>>
         /\ \/ toClient' = toClient /\ ferr' = "error"
            \/ /\ toClient' =
                    Append(toClient, [type |-> "data", arg |-> SubSeq(Head(mb), 1, Chunk)])
               /\ ferr' = ferr
<1>1. mb # <<>> /\ mb \in Seq(Seq(1..MaxUnits)) /\ size \in Nat /\ size > 0
  BY Zenon DEF WriteData, CountType, BufferType, BufferInv
<1>2. Head(mb) \in Seq(1..MaxUnits) /\ Tail(mb) \in Seq(Seq(1..MaxUnits))
  BY <1>1
<1>3. Chunk \in 0..Len(Head(mb)) /\ (Len(Head(mb)) > 0 => Chunk > 0)
  BY <1>1, <1>2 DEF Chunk
<1>4. mb' = IF Chunk = Len(Head(mb)) THEN Tail(mb) ELSE <<Rest>> \o Tail(mb)
  BY Zenon DEF WriteData, Chunk, Rest
<1>5. Frame("data", SubSeq(Head(mb), 1, Chunk), "padding")
  BY Zenon DEF WriteData, Chunk
<1>6. UNCHANGED <<downQ, produced, down, profile>>
  BY Zenon DEF WriteData, downlink
<1> QED BY Zenon, <1>1, <1>2, <1>3, <1>4, <1>5, <1>6 DEF Frame, Write

\* Every step keeps the types of the buffers.
LEMMA BufferTypeStep ==
  ASSUME CountType, BufferType, BufferInv, [Next]_vars
  PROVE  BufferType'
<1>0. MaxUnits \in Nat /\ <<>> \in Seq(Seq(1..MaxUnits))
  BY SessionAssumption
<1>1. CASE UNCHANGED <<mb, downQ, produced, toClient>>
  BY Zenon, <1>1 DEF BufferType
<1>2. CASE Poll \/ SendPaddingControl \/ SendTimingControl
  <2>1. toClient' \in Seq(ClientFrames)
    <3>1. \A f \in ClientFrames : Append(toClient, f) \in Seq(ClientFrames)
      BY DEF BufferType
    <3> QED BY Zenon, <1>2, <3>1, ControlFrames DEF BufferType
  <2> QED BY Zenon, <1>2, <2>1, ControlFrames DEF BufferType
<1>3. CASE ReadMultiBuffer
  <2>1. /\ mb' \in {mb, downQ} /\ downQ' \in {downQ, <<>>} /\ UNCHANGED <<produced, toClient>>
    BY Zenon, <1>3 DEF ReadMultiBuffer, Stop
  <2> QED BY <1>0, <2>1, Zenon DEF BufferType
<1>4. CASE WriteData
  <2>1. SubSeq(Head(mb), 1, Chunk) \in Seq(Nat) /\ Rest \in Seq(1..MaxUnits)
    <3>1. Head(mb) \in Seq(1..MaxUnits) /\ Chunk \in 0..Len(Head(mb))
      BY Zenon, <1>4, ChunkWritten
    <3>2. ASSUME NEW b \in Seq(1..MaxUnits), NEW n \in 0..Len(b)
          PROVE  SubSeq(b, 1, n) \in Seq(Nat) /\ SubSeq(b, n + 1, Len(b)) \in Seq(1..MaxUnits)
      <4>1. b \in Seq(Nat) /\ Len(b) \in Nat
        BY <1>0
      <4>2. SubSeq(b, 1, n) \in Seq(Nat)
        BY <4>1
      <4>3. SubSeq(b, n + 1, Len(b)) \in Seq(1..MaxUnits)
        BY <1>0, <4>1
      <4> QED BY Zenon, <4>2, <4>3
    <3> QED BY Zenon, <3>1, <3>2 DEF Rest
  <2>2. [type |-> "data", arg |-> SubSeq(Head(mb), 1, Chunk)] \in ClientFrames
    BY Zenon, <2>1 DEF ClientFrames
  <2>3. toClient' \in Seq(ClientFrames)
    <3>1. \A f \in ClientFrames : Append(toClient, f) \in Seq(ClientFrames)
      BY DEF BufferType
    <3> QED BY Zenon, <1>4, <2>2, <3>1, ChunkWritten DEF BufferType
  <2>4. <<Rest>> \o Tail(mb) \in Seq(Seq(1..MaxUnits))
    BY <1>4, <2>1, ChunkWritten
  <2>5. mb' \in Seq(Seq(1..MaxUnits)) /\ UNCHANGED <<downQ, produced>>
    BY Zenon, <1>4, <2>4, ChunkWritten
  <2> QED BY Zenon, <2>3, <2>5 DEF BufferType
<1>5. ASSUME NEW n \in 1..MaxUnits, OutboundAnswers(n) PROVE BufferType'
  <2>1. produced \in Nat /\ produced + n <= MaxUnits
    BY <1>5 DEF OutboundAnswers, BufferType
  <2>2. [i \in 1..n |-> produced + i] \in Seq(1..MaxUnits)
    BY <1>0, <2>1
  <2> QED BY <1>0, <1>5, <2>1, <2>2 DEF OutboundAnswers, forwarder, BufferType
<1>6. CASE OutboundEnds \/ OutboundInterrupts
  <2>1. downQ' \in {downQ, <<>>} /\ UNCHANGED <<mb, produced, toClient>>
    BY Zenon, <1>6 DEF OutboundEnds, OutboundInterrupts, forwarder
  <2> QED BY <1>0, <2>1, Zenon DEF BufferType
<1> QED BY Zenon, <1>1, <1>2, <1>3, <1>4, <1>5, <1>6, Movers

\* Every step keeps the buffers of the downlink in order.
LEMMA BufferStep ==
  ASSUME HandlerType, StageType, CountType, StageInv, BufferInv, [Next]_vars
  PROVE  BufferInv'
<1> USE DEF StageType, StageInv, BufferInv
<1>1. CASE OutboundReads \/ ConnFails \/ UNCHANGED vars
  BY Zenon, <1>1 DEF OutboundReads, ConnFails, vars, downlink, forwarder
<1>2. ASSUME NEW f \in Frames, FirstData(f) PROVE BufferInv'
  BY Zenon, <1>2 DEF FirstData
<1>3. CASE Read \/ writeUpstream \/ Poll \/ WorkerCloses
  <2>1. CASE UNCHANGED <<down, fpc>>
    BY Zenon, <1>3, <2>1, HandlerLeaves
  <2> QED BY Zenon, <1>2, <1>3, <2>1, HandlerLeaves
<1>4. CASE ReadMultiBuffer
  BY Zenon, <1>4 DEF ReadMultiBuffer, Stop
<1>5. CASE GetPacketSize
  <2>1. size' > 0
    BY <1>5, SessionAssumption DEF GetPacketSize, CountType
  <2> QED BY Zenon, <1>5, <2>1 DEF GetPacketSize, downlink
<1>6. CASE NextRead \/ GetDelay \/ SleepEnds \/ SendError
  BY Zenon, <1>6 DEF NextRead, GetDelay, SleepEnds, SendError, downlink
<1>7. CASE ForwardWrites
  BY Zenon, <1>7
     DEF ForwardWrites, WriteData, SendPaddingControl, SendTimingControl, Frame, downlink
<1>8. ASSUME NEW n \in 1..MaxUnits, OutboundAnswers(n) PROVE BufferInv'
  BY Zenon, <1>8 DEF OutboundAnswers, forwarder
<1>9. CASE OutboundEnds \/ OutboundInterrupts
  BY Zenon, <1>9 DEF OutboundEnds, OutboundInterrupts, forwarder
<1> QED BY Zenon, <1>1, <1>3, <1>4, <1>5, <1>6, <1>7, <1>8, <1>9 DEF Next, Forward, Outbound

\* A step that moves no unit, and does not take back an error.
LEMMA AnswerKept ==
  ASSUME BufferType, AnswerInv, UNCHANGED <<mb, downQ, produced>>,
         down = "interrupted" => down' = "interrupted", ferr = "error" => ferr' = "error",
         \/ toClient' = toClient
         \/ \E f \in ClientFrames : f.type # "data" /\ toClient' = Append(toClient, f)
  PROVE  AnswerInv'
<1>1. PICK x \in 0..produced :
        /\ SentUpTo(x)
        /\ \/ ferr = "error"
           \/ \E y \in x..produced :
                Chain(mb, x, y) /\ (down = "interrupted" \/ Chain(downQ, y, produced))
  BY Zenon DEF AnswerInv
<1>2. SentUpTo(x)'
  <2>1. CASE toClient' = toClient
    BY Zenon, <1>1, <2>1, SentKept
  <2> QED BY Zenon, <1>1, <2>1, SentSame
<1>3. \/ ferr' = "error"
      \/ \E y \in x..produced' :
           Chain(mb', x, y) /\ (down' = "interrupted" \/ Chain(downQ', y, produced'))
  BY Zenon, <1>1
<1> QED BY Zenon, <1>1, <1>2, <1>3 DEF AnswerInv

\* Every step keeps the answer in order.
LEMMA AnswerStep ==
  ASSUME StageType, CountType, BufferType, StageInv, BufferInv, AnswerInv, [Next]_vars
  PROVE  AnswerInv'
<1>0. MaxUnits \in Nat /\ produced \in 0..MaxUnits
  BY Zenon, SessionAssumption DEF BufferType
<1>1. PICK x \in 0..produced :
        /\ SentUpTo(x)
        /\ \/ ferr = "error"
           \/ \E y \in x..produced :
                Chain(mb, x, y) /\ (down = "interrupted" \/ Chain(downQ, y, produced))
  BY Zenon DEF AnswerInv
<1>2. ASSUME toClient' = toClient PROVE SentUpTo(x)'
  BY Zenon, <1>1, <1>2, SentKept
<1>3. CASE UNCHANGED <<mb, downQ, produced, toClient>>
  <2>1. (down = "interrupted" => down' = "interrupted") /\ (ferr = "error" => ferr' = "error")
    BY Zenon, Lasting
  <2> QED BY Zenon, <1>3, <2>1, AnswerKept
<1>4. CASE Poll \/ SendPaddingControl \/ SendTimingControl
  <2>1. ferr = "error" => ferr' = "error"
    BY Zenon, <1>4 DEF Poll, SendPaddingControl, SendTimingControl, Frame, forwarder
  <2> QED BY Zenon, <1>4, <2>1, ControlFrames, AnswerKept
<1>5. CASE ReadMultiBuffer
  <2>1. CASE mb' = downQ /\ downQ' = <<>> /\ down # "interrupted" /\ ferr' = ferr
    <3>1. ferr # "error" /\ mb = <<>> /\ UNCHANGED <<down, produced, toClient>>
      BY Zenon, <1>5 DEF ReadMultiBuffer, StageInv, BufferInv
    <3>2. PICK y \in x..produced : Chain(mb, x, y) /\ Chain(downQ, y, produced)
      BY Zenon, <1>1, <2>1, <3>1
    <3>3. y = x /\ Chain(<<>>, produced, produced)
      BY <1>0, <3>1, <3>2, ChainEmpty
    <3>4. produced \in x..produced
      BY <1>0
    <3>5. Chain(mb', x, produced') /\ Chain(downQ', produced', produced')
      BY Zenon, <2>1, <3>1, <3>2, <3>3
    <3> QED BY Zenon, <1>1, <1>2, <3>1, <3>4, <3>5 DEF AnswerInv
  <2>2. CASE UNCHANGED <<mb, downQ>>
    <3>1. ferr # "error" /\ UNCHANGED <<down, produced, toClient>>
      BY Zenon, <1>5 DEF ReadMultiBuffer, StageInv
    <3> QED BY Zenon, <2>2, <3>1, AnswerKept
  <2> QED BY Zenon, <1>5, <2>1, <2>2 DEF ReadMultiBuffer, Stop
<1>6. CASE WriteData
  <2>1. CASE toClient' = toClient /\ ferr' = "error"
    BY Zenon, <1>1, <1>2, <1>6, <2>1, ChunkWritten DEF AnswerInv
  <2>2. CASE toClient' = Append(toClient, [type |-> "data", arg |-> SubSeq(Head(mb), 1, Chunk)])
    <3>1. ferr # "error" /\ mb \in Seq(Seq(1..MaxUnits))
      BY Zenon, <1>6 DEF WriteData, StageInv, BufferType
    <3>2. PICK y \in x..produced :
            Chain(mb, x, y) /\ (down = "interrupted" \/ Chain(downQ, y, produced))
      BY Zenon, <1>1, <3>1
    <3>3. mb # <<>>
      BY Zenon, <1>6, ChunkWritten
    <3>4. PICK z \in 0..MaxUnits : /\ x \in 0..MaxUnits /\ y \in 0..MaxUnits /\ x < z /\ z <= y
                                   /\ Run(Head(mb), x, z) /\ Chain(Tail(mb), z, y)
      BY Zenon, <1>0, <3>1, <3>2, <3>3, ChainHead
    <3>5. PICK c \in 1..Len(Head(mb)) : c = Chunk
      <4>1. Len(Head(mb)) = z - x /\ z - x > 0
        BY <3>4 DEF Run
      <4>2. Chunk \in 0..Len(Head(mb)) /\ (Len(Head(mb)) > 0 => Chunk > 0)
        BY Zenon, <1>6, ChunkWritten
      <4>3. Chunk \in 1..Len(Head(mb))
        BY <4>1, <4>2
      <4> QED BY Zenon, <4>3
    <3>6. /\ Run(SubSeq(Head(mb), 1, c), x, x + c) /\ Run(Rest, x + c, z)
          /\ x < x + c /\ x + c <= z /\ (c = Len(Head(mb)) <=> x + c = z)
      BY <3>4, <3>5, RunCut DEF Rest
    <3>7. SentUpTo(x + c)'
      <4>1. x \in Nat /\ x + c \in Nat /\ x <= x + c
        BY <3>4, <3>5, <3>6
      <4>2. toClient' = Append(toClient, [type |-> "data", arg |-> SubSeq(Head(mb), 1, c)])
        BY Zenon, <2>2, <3>5
      <4> QED BY Zenon, <1>1, <3>6, <4>1, <4>2, SentMore
    <3>8. Chain(mb', x + c, y)
      <4>1. CASE c = Len(Head(mb))
        BY Zenon, <1>6, <3>4, <3>5, <3>6, <4>1, ChunkWritten
      <4>2. CASE c # Len(Head(mb))
        <5>1. mb' = <<Rest>> \o Tail(mb) /\ Tail(mb) \in Seq(Seq(1..MaxUnits))
          BY Zenon, <1>6, <3>5, <4>2, ChunkWritten
        <5>2. x + c \in 0..MaxUnits /\ x + c < z
          BY <1>0, <3>4, <3>5, <3>6, <4>2
        <5> QED BY Zenon, <1>0, <3>4, <3>6, <5>1, <5>2, ChainCons
      <4> QED BY Zenon, <4>1, <4>2
    <3>9. x + c \in 0..produced' /\ y \in (x + c)..produced'
      BY <1>0, <1>6, <3>4, <3>5, <3>6, ChunkWritten
    <3>10. down' = "interrupted" \/ Chain(downQ', y, produced')
      BY Zenon, <1>6, <3>2, ChunkWritten
    <3> QED BY Zenon, <3>7, <3>8, <3>9, <3>10 DEF AnswerInv
  <2> QED BY Zenon, <1>6, <2>1, <2>2, ChunkWritten
<1>7. ASSUME NEW n \in 1..MaxUnits, OutboundAnswers(n) PROVE AnswerInv'
  <2> DEFINE b == [i \in 1..n |-> produced + i]
  <2>1. /\ produced' = produced + n /\ downQ' = Append(downQ, b) /\ produced + n <= MaxUnits
        /\ UNCHANGED <<mb, down, ferr, toClient>> /\ down # "interrupted"
    BY Zenon, <1>7 DEF OutboundAnswers, forwarder, StageInv
  <2>2. Run(b, produced, produced + n)
    BY <1>0 DEF Run
  <2> HIDE DEF b
  <2>3. ASSUME NEW y, Chain(downQ, y, produced) PROVE Chain(downQ', y, produced')
    <3>1. produced + n \in 0..MaxUnits /\ produced < produced + n /\ downQ \in Seq(Seq(1..MaxUnits))
      BY <1>0, <2>1 DEF BufferType
    <3> QED BY Zenon, <1>0, <2>1, <2>2, <2>3, <3>1, ChainAppend
  <2>4. x \in 0..produced' /\ \A y \in x..produced : y \in x..produced'
    BY <1>0, <2>1
  <2> QED BY Zenon, <1>1, <1>2, <2>1, <2>3, <2>4 DEF AnswerInv
<1>8. CASE OutboundEnds \/ OutboundInterrupts
  <2>1. /\ UNCHANGED <<mb, produced, toClient, ferr>>
        /\ (downQ' = downQ /\ down # "interrupted") \/ down' = "interrupted"
           \/ UNCHANGED <<downQ, down>>
    BY Zenon, <1>8 DEF OutboundEnds, OutboundInterrupts, forwarder, StageInv
  <2> QED BY Zenon, <1>1, <1>2, <2>1 DEF AnswerInv
<1> QED BY Zenon, <1>3, <1>4, <1>5, <1>6, <1>7, <1>8, Movers

-----------------------------------------------------------------------------
(* CLOSE.                                                                  *)

\* Every step keeps the close frame the last one.
LEMMA CloseStep ==
  ASSUME BufferType, StageInv, CloseInv, [Next]_vars
  PROVE  CloseInv'
<1>1. CASE toClient' = toClient
  BY <1>1, EndedStays, Zenon DEF CloseInv
<1>2. ASSUME NEW f, f.type # "close", toClient' = Append(toClient, f), fpc # "done"
      PROVE  CloseInv'
  <2>1. \A i \in DOMAIN toClient' : toClient'[i].type # "close"
    BY Zenon, <1>2, Written DEF CloseInv
  <2> QED BY Zenon, <2>1 DEF CloseInv
<1>3. CASE Poll
  <2>1. CASE toClient' = Append(toClient, [type |-> "close", arg |-> <<>>])
    <3>1. /\ hpc = "poll" /\ hpc' = "returned" /\ UNCHANGED <<fpc, ferr>>
          /\ errCh # <<>> /\ Head(errCh) = "eof"
      BY <1>3, <2>1 DEF Poll, Return, forwarder
    <3>2. fpc = "done" /\ ferr = "eof"
      BY <3>1 DEF StageInv
    <3>3. ASSUME NEW i \in DOMAIN toClient', toClient'[i].type = "close"
          PROVE  i = Len(toClient')
      BY Zenon, <2>1, <3>1, <3>3, Written DEF CloseInv, Ended
    <3> QED BY Zenon, <3>1, <3>2, <3>3 DEF CloseInv, Ended
  <2> QED BY Zenon, <1>1, <1>3, <2>1 DEF Poll, Write
<1>4. CASE SendPaddingControl
  <2>1. \/ toClient' = toClient
        \/ toClient' = Append(toClient, [type |-> "padding", arg |-> <<size>>]) /\ fpc # "done"
    BY Zenon, <1>4 DEF SendPaddingControl, Frame, Write
  <2> QED BY Zenon, <1>1, <1>2, <2>1
<1>5. CASE SendTimingControl
  <2>1. \/ toClient' = toClient
        \/ /\ toClient' = Append(toClient, [type |-> "timing", arg |-> <<delay \div Millisecond>>])
           /\ fpc # "done"
    BY Zenon, <1>5 DEF SendTimingControl, Frame, Write
  <2> QED BY Zenon, <1>1, <1>2, <2>1
<1>6. CASE WriteData
  <2>1. \/ toClient' = toClient
        \/ /\ toClient' = Append(toClient, [type |-> "data", arg |-> SubSeq(Head(mb), 1, Chunk)])
           /\ fpc # "done"
    BY Zenon, <1>6 DEF WriteData, Frame, Write, Chunk
  <2> QED BY Zenon, <1>1, <1>2, <2>1
<1>7. CASE ReadMultiBuffer \/ OutboundEnds \/ OutboundInterrupts
           \/ \E n \in 1..MaxUnits : OutboundAnswers(n)
  BY Zenon, <1>1, <1>7 DEF ReadMultiBuffer, OutboundEnds, OutboundInterrupts, OutboundAnswers
<1> QED BY Zenon, <1>1, <1>3, <1>4, <1>5, <1>6, <1>7, Movers

-----------------------------------------------------------------------------
(* Sizes the client asks for.                                              *)

\* Every step keeps each override with at most one frame.
LEMMA OverrideStep ==
  ASSUME CountType, BufferType, OverrideInv, [Next]_vars
  PROVE  OverrideInv'
<1>n. PICK n \in Nat : ExistsInjection(Asked, 1..n) /\ n + Using + Waiting <= overrides
  BY Zenon DEF OverrideInv
<1> DEFINE Same == ExistsInjection(Asked, 1..n)'
<1>0. /\ n \in Nat /\ n + Using + Waiting <= overrides
      /\ Using = 0 \/ Using = 1
      /\ Waiting = 0 \/ Waiting = 1
      /\ overrides \in Nat /\ nextPacketSize \in Nat
  BY <1>n, SessionAssumption DEF Using, Waiting, CountType
<1>1. ASSUME toClient' = toClient PROVE Same
  BY <1>n, <1>1, Zenon DEF Asked
<1>2. ASSUME Same, UNCHANGED <<nextPacketSize, overrides>>, Using' <= Using,
             Using' = 0 \/ Using' = 1
      PROVE  OverrideInv'
  <2>1. Waiting' = Waiting
    BY Zenon, <1>2 DEF Waiting
  <2> HIDE DEF Same
  <2>2. n + Using' + Waiting' <= overrides'
    BY <1>0, <1>2, <2>1
  <2> QED BY Zenon, <1>0, <1>2, <2>2 DEF OverrideInv, Same
<1>3. Using' = 0 \/ Using' = 1
  BY Zenon DEF Using
<1>4. CASE ConnFails \/ Outbound \/ UNCHANGED vars
  <2>1. Using' = Using
    BY Zenon, <1>4, OthersLeave DEF Using
  <2> QED BY <1>0, <1>1, <1>2, <1>4, <2>1, OthersLeave
<1>5. CASE /\ Read \/ writeUpstream \/ Poll \/ WorkerCloses
           /\ UNCHANGED <<profile, controls>> /\ UNCHANGED toClient
  <2>1. UNCHANGED size /\ fpc' \in {fpc, "read"}
    <3>1. ASSUME NEW f \in Frames, FirstData(f) PROVE fpc' \in {fpc, "read"}
      BY Zenon, <3>1 DEF FirstData
    <3> QED BY Zenon, <1>5, <3>1, HandlerLeaves
  <2>2. Using' <= Using
    BY <1>0, <2>1 DEF Using
  <2> QED BY Zenon, <1>1, <1>2, <1>3, <1>5, <2>2 DEF profile
<1>6. ASSUME NEW f \in Frames, HandleControlFrame(f) PROVE OverrideInv'
  <2>1. /\ UNCHANGED <<toClient, fpc, size>>
        /\ \/ UNCHANGED <<nextPacketSize, overrides>>
           \/ overrides' = overrides + 1
    BY Zenon, <1>6 DEF HandleControlFrame, SetNextPacketSize, SetNextDelay, forwarder, profile
  <2>2. Using' = Using /\ (Waiting' = 0 \/ Waiting' = 1) /\ Same
    BY Zenon, <1>1, <2>1 DEF Using, Waiting
  <2>3. UNCHANGED nextPacketSize => Waiting' = Waiting
    BY Zenon DEF Waiting
  <2> QED BY <1>0, <2>1, <2>2, <2>3 DEF OverrideInv
<1>7. CASE Poll
  <2>1. /\ UNCHANGED <<nextPacketSize, overrides, fpc, size>>
        /\ toClient' = toClient \/ toClient' = Append(toClient, [type |-> "close", arg |-> <<>>])
    BY Zenon, <1>7 DEF Poll, Write, forwarder, profile
  <2>2. Same
    BY <1>1, <2>1, <1>n, AskedMore
  <2>3. Using' <= Using
    BY <1>0, <2>1 DEF Using
  <2> QED BY Zenon, <1>2, <1>3, <2>1, <2>2, <2>3
<1>8. CASE ReadMultiBuffer \/ NextRead \/ GetDelay \/ SleepEnds \/ SendError
  <2>1. UNCHANGED <<toClient, nextPacketSize, overrides>> /\ fpc' \notin {"data", "padding"}
    BY Zenon, <1>8 DEF ReadMultiBuffer, Stop, NextRead, GetDelay, SleepEnds, SendError, profile
  <2>2. Using' <= Using
    BY <1>0, <2>1 DEF Using
  <2> QED BY Zenon, <1>1, <1>2, <1>3, <2>1, <2>2
<1>9. CASE GetPacketSize
  <2>1. /\ fpc = "pick" /\ nextPacketSize' = 0 /\ UNCHANGED <<toClient, overrides>>
        /\ nextPacketSize > 0 \/ size' \in ProfileSizes
    BY Zenon, <1>9 DEF GetPacketSize
  <2>2. Using = 0 /\ Waiting' = 0 /\ (Using' = 0 \/ Waiting = 1)
    BY <1>3, <2>1 DEF Using, Waiting
  <2>3. Same /\ overrides' = overrides
    BY Zenon, <1>1, <2>1
  <2> HIDE DEF Same
  <2>4. n + Using' + Waiting' <= overrides'
    BY <1>0, <1>3, <2>2, <2>3
  <2> QED BY Zenon, <1>0, <2>3, <2>4 DEF OverrideInv, Same
<1>10. CASE WriteData
  <2>1. /\ UNCHANGED <<nextPacketSize, overrides, size>> /\ fpc = "data"
        /\ \/ toClient' = toClient
           \/ toClient' = Append(toClient, [type |-> "data", arg |-> SubSeq(Head(mb), 1, Chunk)])
    BY Zenon, <1>10 DEF WriteData, Frame, Write, Chunk, profile
  <2>2. Same
    BY <1>1, <2>1, <1>n, AskedMore
  <2>3. Using' <= Using
    BY <1>0, <2>1 DEF Using
  <2> QED BY Zenon, <1>2, <1>3, <2>1, <2>2, <2>3
<1>11. CASE SendTimingControl
  <2>1. /\ UNCHANGED <<nextPacketSize, overrides, size>> /\ fpc' \in {"sleep", "send"}
        /\ \/ toClient' = toClient
           \/ toClient' = Append(toClient, [type |-> "timing", arg |-> <<delay \div Millisecond>>])
    BY Zenon, <1>11 DEF SendTimingControl, Frame, Write, profile
  <2>2. Same
    BY <1>1, <2>1, <1>n, AskedMore
  <2>3. Using' <= Using
    BY <1>0, <2>1 DEF Using
  <2> QED BY Zenon, <1>2, <1>3, <2>1, <2>2, <2>3
<1>12. CASE SendPaddingControl
  <2>1. /\ UNCHANGED <<nextPacketSize, overrides, size>>
        /\ fpc = "padding" /\ fpc' \in {"timing", "send"}
        /\ \/ toClient' = toClient
           \/ toClient' = Append(toClient, [type |-> "padding", arg |-> <<size>>])
    BY Zenon, <1>12 DEF SendPaddingControl, Frame, Write, profile
  <2>2. /\ \/ ExistsInjection(Asked, 1..n)' \/ ExistsInjection(Asked, 1..(n + 1))'
        /\ size \in ProfileSizes => Same
    <3>1. CASE toClient' = toClient
      BY Zenon, <1>0, <1>1, <3>1
    <3>2. CASE toClient' = Append(toClient, [type |-> "padding", arg |-> <<size>>])
      <4>1. [type |-> "padding", arg |-> <<size>>].arg[1] = size
        BY Zenon
      <4> QED BY Zenon, <3>2, <4>1, <1>n, AskedMore
    <3> QED BY Zenon, <2>1, <3>1, <3>2
  <2>3. Using' = 0 /\ (size \notin ProfileSizes => Using = 1) /\ Waiting' = Waiting
    BY Zenon, <2>1 DEF Using, Waiting
  <2> QED BY <1>0, <2>1, <2>2, <2>3 DEF OverrideInv
<1> QED BY Zenon, <1>4, <1>5, <1>6, <1>7, <1>8, <1>9, <1>10, <1>11, <1>12, HandlerLeaves
        DEF Next, Forward, ForwardWrites

-----------------------------------------------------------------------------
(* The theorems.                                                           *)

\* The type invariant, in the parts the proofs use.
LEMMA TypeParts ==
  TypeOK <=> HandlerType /\ StageType /\ CountType /\ BufferType /\ cancelled \in BOOLEAN
BY Zenon DEF TypeOK, HandlerType, StageType, CountType, BufferType

\* A session that has just begun.
LEMMA SessionInit == Init => SessionInv
<1> SUFFICES ASSUME Init PROVE SessionInv
  BY Zenon
<1> USE DEF Init
<1>0. MaxData \in Nat /\ MaxControls \in Nat /\ MaxUnits \in Nat /\ Len(<<>>) = 0
  BY Zenon, SessionAssumption
<1>1. HandlerType /\ StageType /\ CountType
  BY <1>0 DEF HandlerType, StageType, CountType
<1>2. BufferType
  BY <1>0 DEF BufferType
<1>3. cancelled \in BOOLEAN
  BY Zenon
<1>4. UplinkInv /\ StageInv /\ LateInv /\ BufferInv
  BY DEF UplinkInv, StageInv, LateInv, BufferInv, Ended
<1>5. DOMAIN toClient = {} /\ Data = {} /\ Asked = {}
  BY DEF Data, Asked
<1>6. AnswerInv
  <2>1. UnitsSent = {}
    BY <1>5, Zenon DEF UnitsSent
  <2>2. 1..0 = {}
    OBVIOUS
  <2>3. SentUpTo(0)
    BY <1>5, <2>1, <2>2, Zenon DEF SentUpTo
  <2>4. Chain(<<>>, 0, 0)
    BY <1>0, ChainEmpty
  <2>5. 0 \in 0..0 /\ produced = 0 /\ mb = <<>> /\ downQ = <<>>
    OBVIOUS
  <2> QED BY <2>3, <2>4, <2>5, Zenon DEF AnswerInv
<1>7. CloseInv
  BY <1>5, Zenon DEF CloseInv
<1>8. OverrideInv
  <2>1. << >> \in Injection({}, 1..0)
    BY DEF Injection, IsInjective
  <2> QED BY <1>5, <2>1 DEF OverrideInv, ExistsInjection, Using, Waiting
<1> QED BY <1>1, <1>2, <1>3, <1>4, <1>6, <1>7, <1>8, Zenon DEF SessionInv

\* SessionInv is an invariant of the session: what every step of handleSession,
\* of the forwarder and of the outbound relies on and keeps.
THEOREM SessionInvariant == Spec => []SessionInv
<1>1. SessionInv /\ [Next]_vars => SessionInv'
  <2> SUFFICES ASSUME SessionInv, [Next]_vars PROVE SessionInv'
    BY Zenon
  <2>1. MaxData \in Nat
    BY Zenon, SessionAssumption
  <2>2. HandlerType' /\ UplinkInv'
    BY Zenon, <2>1, UplinkStep DEF SessionInv
  <2>3. StageType' /\ StageInv' /\ LateInv'
    BY Zenon, StageStep DEF SessionInv
  <2>4. CountType' /\ cancelled' \in BOOLEAN
    BY CountStep, CancelStep, Zenon DEF SessionInv
  <2>5. BufferType' /\ BufferInv'
    BY Zenon, BufferTypeStep, BufferStep DEF SessionInv
  <2>6. AnswerInv' /\ CloseInv' /\ OverrideInv'
    BY Zenon, AnswerStep, CloseStep, OverrideStep DEF SessionInv
  <2> QED BY <2>2, <2>3, <2>4, <2>5, <2>6, Zenon DEF SessionInv
<1> QED BY <1>1, SessionInit, PTL DEF Spec

\* Type correctness: a size or a delay is never negative, whatever number of
\* milliseconds the client asks for and however its product wraps.
THEOREM SessionTypes == Spec => []TypeOK
<1>1. SessionInv => TypeOK
  BY TypeParts, Zenon DEF SessionInv
<1> QED BY <1>1, SessionInvariant, PTL

\* What the uplink has accepted is always a prefix of the payloads of the
\* frames read, and all of them whenever the next frame can be read.
THEOREM PayloadsInOrder == Spec => []UplinkInOrder
<1>1. SessionInv => UplinkInOrder
  <2> SUFFICES ASSUME HandlerType, UplinkInv PROVE UplinkInOrder
    BY Zenon DEF SessionInv
  <2>1. accepted \in Seq(1..MaxData)
    BY Zenon DEF HandlerType
  <2>2. payloads = accepted \/ \E x : payloads = Append(accepted, x)
    BY Zenon DEF HandlerType, UplinkInv, Ended
  <2>3. /\ Len(accepted) <= Len(payloads)
        /\ \A i \in 1..Len(accepted) : accepted[i] = payloads[i]
    BY <2>1, <2>2
  <2> QED BY Zenon, <2>3 DEF UplinkInOrder, UplinkInv
<1> QED BY <1>1, SessionInvariant, PTL

\* The client gets the outbound's answer from its start, in order and without
\* a gap, whatever the sizes morphing cuts it to.
THEOREM AnswerInOrder == Spec => []DownlinkInOrder
<1>1. SessionInv => DownlinkInOrder
  BY Zenon DEF SessionInv, AnswerInv, SentUpTo, DownlinkInOrder
<1> QED BY <1>1, SessionInvariant, PTL

\* A CLOSE to the client follows the whole answer, and nothing follows it.
THEOREM CloseAfterAnswer == Spec => []CloseIsLast
<1>1. SessionInv => CloseIsLast
  <2> SUFFICES ASSUME SessionInv, NEW i \in DOMAIN toClient, toClient[i].type = "close"
               PROVE  i = Len(toClient) /\ down = "closed" /\ UnitsSent = 1..produced
    BY Zenon DEF CloseIsLast
  <2>1. i = Len(toClient) /\ ferr = "eof"
    BY Zenon DEF SessionInv, CloseInv
  <2>2. down = "closed" /\ downQ = <<>> /\ mb = <<>>
    BY Zenon, <2>1 DEF SessionInv, BufferInv
  <2>3. PICK x \in 0..produced :
          /\ SentUpTo(x)
          /\ \E y \in x..produced : Chain(<<>>, x, y) /\ Chain(<<>>, y, produced)
    BY Zenon, <2>1, <2>2 DEF SessionInv, AnswerInv
  <2>4. x = produced
    <3>1. MaxUnits \in Nat /\ produced \in 0..MaxUnits
      BY Zenon, SessionAssumption DEF SessionInv, BufferType
    <3>2. \A y \in x..produced : x \in 0..MaxUnits /\ y \in 0..MaxUnits
      BY <3>1
    <3> QED BY Zenon, <2>3, <3>2, ChainEmpty
  <2> QED BY Zenon, <2>1, <2>2, <2>3, <2>4 DEF SentUpTo
<1> QED BY <1>1, SessionInvariant, PTL

\* However often GetPacketSize runs, at most as many chunks have a size outside
\* the profile as HandleControlFrame has set sizes.
THEOREM OverrideOnce == Spec => []OverrideUsedOnce
<1>1. SessionInv => OverrideUsedOnce
  <2> SUFFICES ASSUME CountType, OverrideInv PROVE OverrideUsedOnce
    BY Zenon DEF SessionInv
  <2>1. PICK n \in Nat : ExistsInjection(Asked, 1..n) /\ n + Using + Waiting <= overrides
    BY Zenon DEF OverrideInv
  <2>2. overrides \in Nat /\ n <= overrides
    BY <2>1, SessionAssumption DEF CountType, Using, Waiting
  <2>3. PICK use \in [Asked -> 1..n] : \A a, b \in Asked : use[a] = use[b] => a = b
    BY Zenon, <2>1 DEF ExistsInjection, Injection, IsInjective
  <2>4. use \in [Asked -> 1..overrides]
    BY <2>2, <2>3
  <2> QED BY Zenon, <2>3, <2>4 DEF OverrideUsedOnce, ExistsInjection, Injection, IsInjective
<1> QED BY <1>1, SessionInvariant, PTL

\* After the forwarder's error at most two payloads still go upstream.
THEOREM LateBound == Spec => []FewLatePayloads
<1>1. SessionInv => FewLatePayloads
  BY Zenon DEF SessionInv, LateInv, FewLatePayloads
<1> QED BY <1>1, SessionInvariant, PTL
=============================================================================
