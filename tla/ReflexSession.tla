--------------------------- MODULE ReflexSession ---------------------------
(***************************************************************************)
(* An established session (proxy/reflex/inbound, session.go): the loop of  *)
(* handleSession, the goroutine forwardUpstreamToClient with the traffic   *)
(* morphing of WriteFrameWithMorphing (morphing.go), the channel between   *)
(* them, the link the dispatcher returns, and the worker that ends the     *)
(* session.                                                                *)
(*                                                                         *)
(* Frames arrive and leave whole and in order (ReflexFrames); the link's   *)
(* two pipes keep the contract of Pipe.  The outbound at the other end of  *)
(* the link is external: it may read, answer and end when it likes, and    *)
(* ends when its context is cancelled.                                     *)
(***************************************************************************)
EXTENDS Integers, Sequences, Functions

CONSTANTS
  MaxData,       \* bound on the data frames the client sends
  MaxControls,   \* bound on the control frames the client sends
  MaxUnits,      \* bound on the units of data the outbound answers
  UpLimit,       \* what the uplink pipe holds
  SizeArgs,      \* packet sizes the client asks for
  TimingArgs,    \* delays the client asks for, in milliseconds
  ProfileSizes,  \* the packet sizes of the profile
  ProfileDelays, \* the delays of the profile
  Millisecond,   \* time.Millisecond
  DurationRange  \* the number of values of a time.Duration: 2^64

ASSUME SessionAssumption ==
  /\ {MaxData, MaxControls, MaxUnits} \subseteq Nat
  /\ {UpLimit, Millisecond, DurationRange} \subseteq Nat \ {0}
  /\ SizeArgs \cup TimingArgs \cup ProfileDelays \subseteq Nat
  /\ ProfileSizes \subseteq Nat \ {0} /\ ProfileSizes # {} /\ ProfileDelays # {}

VARIABLES
  hpc,       \* handleSession: "read", "first", "later", "poll", "returned", "closed"
  pending,   \* the data frame whose payload is being written upstream
  frames,    \* how many data frames have been read
  payloads,  \* the data frames read that carry a payload
  accepted,  \* the payloads the uplink has accepted
  taken,     \* how many of them the outbound has read
  up,        \* the uplink: "none", "open", "closed", "interrupted"
  down,      \* the downlink, likewise
  downQ,     \* the buffers in the downlink, each a sequence of units
  produced,  \* how many units the outbound has answered: 1, 2, ...
  out,       \* the outbound: "none", "run", "closing", "done"
  cancelled, \* the context of the connection
  fpc,       \* the forwarder: "none", "read", "pick", "data", "padding", "timing",
             \* "tell", "sleep", "send", "done"
  mb,        \* the buffers it has read and not yet written
  size,      \* targetSize
  delay,     \* delay
  ferr,      \* the error it ends with
  errCh,     \* upstreamErr
  late,      \* payloads accepted upstream since the forwarder gave its error
  controls,  \* how many control frames have been read
  nextPacketSize, \* the overrides of the profile
  nextDelay,
  overrides, \* how many size overrides have been set
  toClient,  \* the frames written to the client
  conn       \* the client's connection: "open", "reset", "closed"

handler == <<hpc, pending, frames, payloads, controls>>
uplink == <<accepted, taken, up>>
downlink == <<down, downQ, produced>>
forwarder == <<fpc, mb, size, delay, ferr>>
profile == <<nextPacketSize, nextDelay, overrides>>
vars == <<handler, uplink, downlink, out, cancelled, forwarder, errCh, late,
          profile, toClient, conn>>

\* What ReadFrame returns.  ok: the payload parses; arg: what it carries.
Frames ==
  [type : {"data"}, ok : BOOLEAN, arg : {0, 1}]
    \cup [type : {"padding"}, ok : BOOLEAN, arg : SizeArgs]
    \cup [type : {"timing"}, ok : BOOLEAN, arg : TimingArgs]
    \cup [type : {"close", "unknown"}, ok : {TRUE}, arg : {0}]

Init ==
  /\ hpc = "read" /\ pending = 0 /\ frames = 0 /\ payloads = <<>> /\ controls = 0
  /\ accepted = <<>> /\ taken = 0 /\ up = "none"
  /\ down = "none" /\ downQ = <<>> /\ produced = 0
  /\ out = "none" /\ cancelled = FALSE
  /\ fpc = "none" /\ mb = <<>> /\ size = 0 /\ delay = 0 /\ ferr = "none"
  /\ errCh = <<>> /\ late = 0
  /\ nextPacketSize = 0 /\ nextDelay = 0 /\ overrides = 0
  /\ toClient = <<>> /\ conn = "open"

-----------------------------------------------------------------------------
(* handleSession.                                                          *)

Return == hpc' = "returned" /\ UNCHANGED <<pending, payloads>>

\* The end of the stream, or a frame that does not decrypt.
ReadFails ==
  /\ hpc = "read"
  /\ Return
  /\ UNCHANGED <<frames, controls, uplink, downlink, out, cancelled, forwarder,
                 errCh, late, profile, toClient, conn>>

ToUpstream(place, carries) ==
  /\ hpc' = place
  /\ pending' = IF carries THEN frames + 1 ELSE 0
  /\ payloads' = IF carries THEN Append(payloads, frames + 1) ELSE payloads

\* The first data frame names the destination: dispatch, start the forwarder,
\* write what follows the destination.
FirstData(f) ==
  /\ hpc = "read" /\ up = "none"
  /\ f.type = "data" /\ frames < MaxData
  /\ frames' = frames + 1
  /\ \/ /\ f.ok
        /\ ToUpstream("first", f.arg > 0)
        /\ up' = "open" /\ down' = "open" /\ out' = "run"
        /\ fpc' = "read"
     \/ /\ Return                 \* parseDestination or Dispatch fails
        /\ UNCHANGED <<up, down, out, fpc>>
  /\ UNCHANGED <<controls, accepted, taken, downQ, produced, cancelled, mb, size, delay,
                 ferr, errCh, late, profile, toClient, conn>>

\* A later data frame is payload from its first byte on.
LaterData(f) ==
  /\ hpc = "read" /\ up # "none"
  /\ f.type = "data" /\ frames < MaxData
  /\ frames' = frames + 1
  /\ ToUpstream("later", f.ok \/ f.arg > 0)
  /\ UNCHANGED <<controls, uplink, downlink, out, cancelled, forwarder, errCh, late,
                 profile, toClient, conn>>

Afterwards_NeverPoll == "read"

\* Only a data frame that is not the first is followed by a look at upstreamErr.
Afterwards == IF hpc = "first" THEN "read" ELSE "poll"

writeUpstream_Lost ==
  /\ hpc \in {"first", "later"}
  /\ \/ /\ pending = 0 \/ Len(accepted) - taken >= UpLimit
        /\ hpc' = Afterwards /\ pending' = 0
        /\ UNCHANGED <<accepted, payloads, late>>
     \/ /\ pending # 0 /\ up = "open" /\ Len(accepted) - taken < UpLimit
        /\ accepted' = Append(accepted, pending)
        /\ late' = IF fpc = "done" THEN late + 1 ELSE late
        /\ hpc' = Afterwards /\ pending' = 0
        /\ UNCHANGED payloads
     \/ /\ pending # 0 /\ up # "open"
        /\ Return
        /\ UNCHANGED <<accepted, late>>
  /\ UNCHANGED <<frames, controls, taken, up, downlink, out, cancelled, forwarder, errCh,
                 profile, toClient, conn>>

\* A full uplink makes the handler wait; an interrupted one makes it return.
writeUpstream ==
  /\ hpc \in {"first", "later"}
  /\ \/ /\ pending = 0
        /\ hpc' = Afterwards
        /\ UNCHANGED <<pending, accepted, payloads, late>>
     \/ /\ pending # 0 /\ up = "open" /\ Len(accepted) - taken < UpLimit
        /\ accepted' = Append(accepted, pending)
        /\ late' = IF fpc = "done" THEN late + 1 ELSE late
        /\ hpc' = Afterwards /\ pending' = 0
        /\ UNCHANGED payloads
     \/ /\ pending # 0 /\ up # "open"
        /\ Return
        /\ UNCHANGED <<accepted, late>>
  /\ UNCHANGED <<frames, controls, taken, up, downlink, out, cancelled, forwarder, errCh,
                 profile, toClient, conn>>

\* time.Duration(ms) * time.Millisecond, in the width of a Duration and with
\* sign.
ToDelay(ms) ==
  LET word == (ms * Millisecond) % DurationRange
  IN  IF 2 * word >= DurationRange THEN word - DurationRange ELSE word

SetNextPacketSize(n) ==
  /\ nextPacketSize' = IF n > 0 THEN n ELSE nextPacketSize
  /\ overrides' = IF n > 0 THEN overrides + 1 ELSE overrides
  /\ UNCHANGED nextDelay

SetNextDelay_Unchecked(d) ==
  /\ nextDelay' = d
  /\ UNCHANGED <<nextPacketSize, overrides>>

SetNextDelay(d) ==
  /\ nextDelay' = IF d > 0 THEN d ELSE nextDelay
  /\ UNCHANGED <<nextPacketSize, overrides>>

HandleControlFrame(f) ==
  /\ hpc = "read"
  /\ f.type \in {"padding", "timing"} /\ controls < MaxControls
  /\ controls' = controls + 1
  /\ \/ f.ok /\ f.type = "padding" /\ SetNextPacketSize(f.arg) /\ UNCHANGED hpc
     \/ f.ok /\ f.type = "timing" /\ SetNextDelay(ToDelay(f.arg)) /\ UNCHANGED hpc
     \/ ~ f.ok /\ hpc' = "returned" /\ UNCHANGED profile
  /\ UNCHANGED <<pending, frames, payloads, uplink, downlink, out, cancelled, forwarder,
                 errCh, late, toClient, conn>>

\* CLOSE ends the uplink; an unknown type is an error.
CloseOrUnknown(f) ==
  /\ hpc = "read" /\ f.type \in {"close", "unknown"}
  /\ Return
  /\ up' = IF f.type = "close" /\ up = "open" THEN "closed" ELSE up
  /\ UNCHANGED <<frames, controls, accepted, taken, downlink, out, cancelled, forwarder,
                 errCh, late, profile, toClient, conn>>

Write(f) == toClient' = IF conn = "open" THEN Append(toClient, f) ELSE toClient

Poll_CloseOnAnyError ==
  /\ hpc = "poll"
  /\ \/ /\ errCh = <<>>
        /\ hpc' = "read"
        /\ UNCHANGED <<pending, payloads, errCh, toClient>>
     \/ /\ errCh # <<>>
        /\ errCh' = Tail(errCh)
        /\ Write([type |-> "close", arg |-> <<>>])
        /\ Return
  /\ UNCHANGED <<frames, controls, uplink, downlink, out, cancelled, forwarder, late,
                 profile, conn>>

Poll ==
  /\ hpc = "poll"
  /\ \/ /\ errCh = <<>>
        /\ hpc' = "read"
        /\ UNCHANGED <<pending, payloads, errCh, toClient>>
     \/ /\ errCh # <<>>
        /\ errCh' = Tail(errCh)
        /\ IF Head(errCh) = "eof"
             THEN Write([type |-> "close", arg |-> <<>>])
             ELSE UNCHANGED toClient
        /\ Return
  /\ UNCHANGED <<frames, controls, uplink, downlink, out, cancelled, forwarder, late,
                 profile, conn>>

\* The worker's callback after Process: cancel the context, close the connection.
WorkerCloses ==
  /\ hpc = "returned"
  /\ hpc' = "closed" /\ cancelled' = TRUE /\ conn' = "closed"
  /\ UNCHANGED <<pending, frames, payloads, controls, uplink, downlink, out, forwarder,
                 errCh, late, profile, toClient>>

-----------------------------------------------------------------------------
(* forwardUpstreamToClient and WriteFrameWithMorphing.                     *)

Stop(e) ==
  /\ fpc' = "send" /\ ferr' = e
  /\ UNCHANGED <<mb, size, delay>>

\* A read takes all the pipe holds; io.EOF only when a closed pipe is empty.
ReadMultiBuffer ==
  /\ fpc = "read"
  /\ \/ /\ downQ # <<>> /\ down # "interrupted"
        /\ mb' = downQ /\ downQ' = <<>>
        /\ fpc' = "pick"
        /\ UNCHANGED <<size, delay, ferr>>
     \/ downQ = <<>> /\ down = "closed" /\ Stop("eof") /\ UNCHANGED downQ
     \/ down = "interrupted" /\ Stop("error") /\ UNCHANGED downQ
  /\ UNCHANGED <<handler, uplink, down, produced, out, cancelled, errCh, late, profile,
                 toClient, conn>>

GetPacketSize_Kept ==
  /\ fpc = "pick" /\ mb # <<>>
  /\ size' \in IF nextPacketSize > 0 THEN {nextPacketSize} ELSE ProfileSizes
  /\ fpc' = "data"
  /\ UNCHANGED <<handler, uplink, downlink, out, cancelled, mb, delay, ferr, errCh, late,
                 profile, toClient, conn>>

GetPacketSize ==
  /\ fpc = "pick" /\ mb # <<>>
  /\ size' \in IF nextPacketSize > 0 THEN {nextPacketSize} ELSE ProfileSizes
  /\ nextPacketSize' = 0
  /\ fpc' = "data"
  /\ UNCHANGED <<handler, uplink, downlink, out, cancelled, mb, delay, ferr, errCh, late,
                 nextDelay, overrides, toClient, conn>>

\* The buffers of the read are all written.
NextRead ==
  /\ fpc = "pick" /\ mb = <<>>
  /\ fpc' = "read"
  /\ UNCHANGED <<handler, uplink, downlink, out, cancelled, mb, size, delay, ferr, errCh,
                 late, profile, toClient, conn>>

\* A frame to the client, after which the forwarder goes on at place; it stops
\* when the connection is gone.
Frame(type, arg, place) ==
  \/ /\ conn = "open"
     /\ Write([type |-> type, arg |-> arg])
     /\ fpc' = place
     /\ UNCHANGED <<size, delay, ferr>>
  \/ /\ conn # "open"
     /\ fpc' = "send" /\ ferr' = "error"
     /\ UNCHANGED <<size, delay, toClient>>

WriteData_SkipsRest ==
  /\ fpc = "data"
  /\ LET b == Head(mb)
         n == IF Len(b) > size THEN size ELSE Len(b)
     IN  /\ Frame("data", SubSeq(b, 1, n), "padding")
         /\ mb' = Tail(mb)
  /\ UNCHANGED <<handler, uplink, downlink, out, cancelled, errCh, late, profile, conn>>

\* One chunk of the first buffer; the rest of it stays for the next turn.
WriteData ==
  /\ fpc = "data"
  /\ LET b == Head(mb)
         n == IF Len(b) > size THEN size ELSE Len(b)
     IN  /\ Frame("data", SubSeq(b, 1, n), "padding")
         /\ mb' = IF n = Len(b) THEN Tail(mb)
                  ELSE <<SubSeq(b, n + 1, Len(b))>> \o Tail(mb)
  /\ UNCHANGED <<handler, uplink, downlink, out, cancelled, errCh, late, profile, conn>>

SendPaddingControl ==
  /\ fpc = "padding"
  /\ Frame("padding", <<size>>, "timing")
  /\ UNCHANGED <<handler, uplink, downlink, out, cancelled, mb, errCh, late, profile, conn>>

GetDelay ==
  /\ fpc = "timing"
  /\ delay' \in IF nextDelay > 0 THEN {nextDelay} ELSE ProfileDelays
  /\ nextDelay' = 0
  /\ fpc' = IF delay' > 0 THEN "tell" ELSE "pick"
  /\ UNCHANGED <<handler, uplink, downlink, out, cancelled, mb, size, ferr, errCh, late,
                 nextPacketSize, overrides, toClient, conn>>

SendTimingControl ==
  /\ fpc = "tell"
  /\ Frame("timing", <<delay \div Millisecond>>, "sleep")
  /\ UNCHANGED <<handler, uplink, downlink, out, cancelled, mb, errCh, late, profile, conn>>

SleepEnds ==
  /\ fpc = "sleep"
  /\ fpc' = "pick"
  /\ UNCHANGED <<handler, uplink, downlink, out, cancelled, mb, size, delay, ferr, errCh,
                 late, profile, toClient, conn>>

SendError_Unbuffered ==
  /\ fpc = "send" /\ errCh = <<>> /\ hpc = "poll"
  /\ errCh' = Append(errCh, ferr)
  /\ fpc' = "done"
  /\ UNCHANGED <<handler, uplink, downlink, out, cancelled, mb, size, delay, ferr, late,
                 profile, toClient, conn>>

\* The channel has room for one error.
SendError ==
  /\ fpc = "send" /\ errCh = <<>>
  /\ errCh' = Append(errCh, ferr)
  /\ fpc' = "done"
  /\ UNCHANGED <<handler, uplink, downlink, out, cancelled, mb, size, delay, ferr, late,
                 profile, toClient, conn>>

-----------------------------------------------------------------------------
(* The outbound at the other end of the link, and the client's connection. *)

OutboundReads ==
  /\ out \in {"run", "closing"} /\ taken < Len(accepted)
  /\ taken' = taken + 1
  /\ UNCHANGED <<handler, accepted, up, downlink, out, cancelled, forwarder, errCh, late,
                 profile, toClient, conn>>

OutboundAnswers(n) ==
  /\ out = "run" /\ produced + n <= MaxUnits
  /\ produced' = produced + n
  /\ downQ' = Append(downQ, [i \in 1..n |-> produced + i])
  /\ UNCHANGED <<handler, uplink, down, out, cancelled, forwarder, errCh, late, profile,
                 toClient, conn>>

\* The answer has ended and the downlink is closed; or the outbound has failed
\* and Handler.Dispatch interrupts the downlink with what it still holds ...
OutboundEnds ==
  /\ out = "run"
  /\ out' = "closing"
  /\ \/ down' = "closed" /\ UNCHANGED downQ
     \/ down' = "interrupted" /\ downQ' = <<>>
  /\ UNCHANGED <<handler, uplink, produced, cancelled, forwarder, errCh, late, profile,
                 toClient, conn>>

\* ... and later the uplink, which stays closed when it was closed and empty.  A
\* failure of the request after the answer has ended still drops what has not
\* been read of the answer.
OutboundInterrupts ==
  /\ out = "closing"
  /\ out' = "done" /\ taken' = Len(accepted)
  /\ up' = IF up = "closed" /\ taken = Len(accepted) THEN "closed" ELSE "interrupted"
  /\ \/ UNCHANGED <<down, downQ>>
     \/ downQ # <<>> /\ down' = "interrupted" /\ downQ' = <<>>
  /\ UNCHANGED <<handler, accepted, produced, cancelled, forwarder, errCh, late, profile,
                 toClient, conn>>

ConnFails ==
  /\ conn = "open"
  /\ conn' = "reset"
  /\ UNCHANGED <<handler, uplink, downlink, out, cancelled, forwarder, errCh, late,
                 profile, toClient>>

-----------------------------------------------------------------------------

Read ==
  \/ ReadFails
  \/ \E f \in Frames : FirstData(f) \/ LaterData(f) \/ HandleControlFrame(f)
                         \/ CloseOrUnknown(f)

Forward ==
  \/ ReadMultiBuffer \/ GetPacketSize \/ NextRead \/ GetDelay \/ SleepEnds \/ SendError

ForwardWrites == WriteData \/ SendPaddingControl \/ SendTimingControl

Outbound ==
  \/ OutboundReads \/ OutboundEnds \/ OutboundInterrupts
  \/ \E n \in 1..MaxUnits : OutboundAnswers(n)

Next ==
  \/ Read \/ writeUpstream \/ Poll \/ WorkerCloses
  \/ Forward \/ ForwardWrites
  \/ Outbound \/ ConnFails

Spec == Init /\ [][Next]_vars

\* Goroutines run, sleeps end, and the outbound ends when its context is
\* cancelled.  The client need not send, nor read what is written to it: a
\* write is only sure to return once the connection is gone.
FairSpec ==
  /\ Spec
  /\ WF_vars(WorkerCloses) /\ WF_vars(Forward)
  /\ WF_vars(ForwardWrites /\ conn # "open")
  /\ WF_vars(cancelled /\ (OutboundEnds \/ OutboundInterrupts))

-----------------------------------------------------------------------------
(* Properties.                                                             *)

\* What goes to the client: units of data, a size, a delay, or nothing.
ClientFrames == [type : {"data", "padding", "timing", "close"}, arg : Seq(Nat)]

\* Type correctness; sizes and delays are never negative, whatever the client
\* asks for.
TypeOK ==
  /\ hpc \in {"read", "first", "later", "poll", "returned", "closed"}
  /\ pending \in 0..MaxData /\ frames \in 0..MaxData
  /\ payloads \in Seq(1..MaxData) /\ accepted \in Seq(1..MaxData)
  /\ taken \in 0..Len(accepted)
  /\ up \in {"none", "open", "closed", "interrupted"}
  /\ down \in {"none", "open", "closed", "interrupted"}
  /\ produced \in 0..MaxUnits /\ downQ \in Seq(Seq(1..MaxUnits)) /\ mb \in Seq(Seq(1..MaxUnits))
  /\ out \in {"none", "run", "closing", "done"} /\ cancelled \in BOOLEAN
  /\ fpc \in {"none", "read", "pick", "data", "padding", "timing", "tell", "sleep",
              "send", "done"}
  /\ size \in Nat /\ delay \in Nat /\ nextPacketSize \in Nat /\ nextDelay \in Nat
  /\ ferr \in {"none", "eof", "error"}
  /\ errCh \in Seq({"eof", "error"}) /\ late \in Nat
  /\ controls \in 0..MaxControls /\ overrides \in 0..controls
  /\ conn \in {"open", "reset", "closed"} /\ toClient \in Seq(ClientFrames)

\* The frames written to the client that carry data, and the units in them.
Data == {i \in DOMAIN toClient : toClient[i].type = "data"}
UnitsSent == UNION {Range(toClient[i].arg) : i \in Data}

\* Payloads reach the uplink in the order of the client's frames, and each is
\* there before the next frame is read: handleSession writes before it reads
\* on, and returns when a write fails.
UplinkInOrder ==
  /\ Len(accepted) <= Len(payloads)
  /\ \A i \in 1..Len(accepted) : accepted[i] = payloads[i]
  /\ hpc \in {"read", "poll"} => accepted = payloads

\* The data frames written to the client carry the outbound's answer from its
\* start, in order and without a gap, however morphing cuts the buffers.
DownlinkInOrder ==
  /\ \A i, j \in Data :
       \A k \in DOMAIN toClient[i].arg, l \in DOMAIN toClient[j].arg :
         i < j \/ (i = j /\ k < l) => toClient[i].arg[k] < toClient[j].arg[l]
  /\ \E n \in 0..produced : UnitsSent = 1..n

\* handleSession writes CLOSE only when the outbound has closed the downlink
\* and the forwarder has written all of it, and nothing follows CLOSE.
CloseIsLast ==
  \A i \in DOMAIN toClient :
    toClient[i].type = "close" =>
      i = Len(toClient) /\ down = "closed" /\ UnitsSent = 1..produced

\* The frames that tell of a size which is none of the profile's.
Asked == {i \in DOMAIN toClient :
            toClient[i].type = "padding" /\ toClient[i].arg[1] \notin ProfileSizes}

\* A size the client asks for shapes at most one chunk, so each of these frames
\* has a control frame of its own: GetPacketSize clears the override it uses,
\* whenever HandleControlFrame has set it.
OverrideUsedOnce == ExistsInjection(Asked, 1..overrides)

\* After the forwarder has given its error at most two more payloads go
\* upstream: the first data frame is not followed by a look at the channel.
FewLatePayloads == late <= 2

\* Once the session has ended the forwarder and the outbound end, whatever the
\* client does, and no pipe of the link stays open.
SessionReleased ==
  hpc = "returned" ~> /\ fpc \in {"none", "done"} /\ out \in {"none", "done"}
                      /\ up # "open" /\ down # "open"
=============================================================================
