-------------------------------- MODULE Kcp --------------------------------
(***************************************************************************)
(* A KCP connection (transport/internet/kcp): the two Connections of a     *)
(* conversation, each with a sending and a receiving worker, over UDP.     *)
(* Packets are delayed, lost, repeated and reordered.  A segment is number *)
(* and payload; payload k is the k-th that the application wrote.          *)
(*                                                                         *)
(* Methods of a worker run under its lock and are one step each.  The      *)
(* state of a Connection is an atomic integer: a call of Close, Input,     *)
(* flush or Write loads it, decides, and later stores it or goes on, and   *)
(* each of these is a step with steps of other calls in between.  An end   *)
(* has two updaters, which run flush at the same time.                     *)
(*                                                                         *)
(* Timeouts of segments, of acknowledgements and of states are a choice of *)
(* flush.                                                                  *)
(***************************************************************************)
EXTENDS Integers, Sequences, FiniteSets, Functions

CONSTANTS
  A, B,         \* the two ends
  Loads,        \* what the applications do, see Init
  Range32,      \* the number of segment numbers: 2^32
  Start,        \* the number of the first segment
  BufferSize,   \* sendingWorker.windowSize
  WindowSize,   \* receivingWorker.windowSize
  InFlight,     \* Config.GetSendingInFlightSize()
  Burst,        \* the "magic" factor of SendingWorker.Flush
  RemoteNext,   \* the first remoteNextNumber
  MaxQueued     \* bound: flush begins while no more packets are on their way

Ends == {A, B}
Peer(e) == IF e = A THEN B ELSE A

ASSUME KcpAssumption ==
  /\ A # B
  /\ Range32 \in Nat /\ Start \in Nat
  /\ BufferSize \in Nat /\ WindowSize \in Nat \ {0} /\ InFlight \in Nat /\ Burst \in Nat
  /\ RemoteNext \in Nat /\ MaxQueued \in Nat

\* Fewer than 2^31 segments are sent, so that numbers do not wrap around.
ASSUME NoWrapAssumption ==
  \A l \in Loads, e \in Ends :
    l.writes[e] \in Nat /\ 2 * (Start + l.writes[e] + WindowSize) <= Range32

VARIABLES
  load,      \* [writes: segments per end, closes: ends that Close,
             \*  readers: ends that read, bytes: those that use Read instead of
             \*  ReadMultiBuffer, timers: states whose timer may run out, slow:
             \*  also while another call is under way, loose: the calls between
             \*  whose steps others may come, eager: flush finds everything due,
             \*  faults: bound on the packets that are lost, repeated or displaced]
  state,     \* state[e]: Connection.state
  call,      \* call[e][x]: where call x of e is, see Calls
  snd,       \* snd[e]: the SendingWorker
  rcv,       \* rcv[e]: the ReceivingWorker
  running,   \* running[e]: the ping updater runs
  dying,     \* dying[e]: go Terminate() is under way
  released,  \* released[e]: Terminate has run; sendingWorker.closed
  reader,    \* reader[e]: where the reading application is
  received,  \* received[e]: history, the payloads it was given
  missed,    \* missed[e]: history, io.EOF came while a segment was available
  closed,    \* closed[e]: history, the application has called Close
  owed,      \* owed[e]: history, the segments pushed before it did
  cleared,   \* cleared[e]: history, closing dropped segments from the window
  expired,   \* expired[e]: history, a timer has ended a state
  net,       \* net[e]: the packets on their way to e
  faults     \* the faults so far

appVars == <<reader, received, missed, closed, owed>>
lifeVars == <<running, dying, released, cleared, expired>>
vars == <<load, state, call, snd, rcv, lifeVars, appVars, net, faults>>

None == "none"
States == {"Active", "ReadyToClose", "PeerClosed", "Terminating",
           "PeerTerminating", "Terminated"}

\* The calls of an end; "data" and "ping" are flush in the two updaters.  A call
\* under way goes on with step "at", but first stores the state "set", and does
\* what is left of SetState for the state "entered".  What is due to a flush is
\* everything ("all"), timers of states too ("late"), any part of it ("some"),
\* or everything after thirty seconds without input ("quiet").
Updaters == {"data", "ping"}
Calls == {"close", "input", "write"} \cup Updaters

Phase(p) == [at |-> p, set |-> None, entered |-> None, due |-> None]
Idle == Phase("idle")

\* uint32 arithmetic, and the number of the k-th segment.
Plus(x, y) == IF x + y < Range32 THEN x + y ELSE x + y - Range32
Sub(x, y) == IF x >= y THEN x - y ELSE x + Range32 - y
Num(k) == Plus(Start, k)

Init ==
  /\ load \in Loads
  /\ state = [e \in Ends |-> "Active"]
  /\ call = [e \in Ends |-> [x \in Calls |-> Idle]]
  /\ snd = [e \in Ends |->
       [window |-> {}, pushed |-> 0, first |-> Num(0), updated |-> FALSE,
        remoteNext |-> RemoteNext]]
  /\ rcv = [e \in Ends |->
       [next |-> Num(0), cache |-> {}, left |-> <<>>, acks |-> {}, dirty |-> FALSE]]
  /\ running = [e \in Ends |-> TRUE]
  /\ dying = [e \in Ends |-> FALSE]
  /\ released = [e \in Ends |-> FALSE]
  /\ reader = [e \in Ends |-> IF e \in load.readers THEN "look" ELSE "none"]
  /\ received = [e \in Ends |-> <<>>]
  /\ missed = [e \in Ends |-> FALSE]
  /\ closed = [e \in Ends |-> FALSE]
  /\ owed = [e \in Ends |-> 0]
  /\ cleared = [e \in Ends |-> FALSE]
  /\ expired = [e \in Ends |-> FALSE]
  /\ net = [e \in Ends |-> <<>>]
  /\ faults = 0

-----------------------------------------------------------------------------
(* The SendingWorker as a record: window is the set of the segments that   *)
(* are not acknowledged, pushed the number of segments so far, first is    *)
(* firstUnacknowledged and updated firstUnacknowledgedUpdated.             *)

Clear_Inclusive(w, una) == {k \in w : \E j \in w : j <= k /\ Num(j) > una}

\* Segments leave from the front of the list while their number is below una.
Clear(w, una) == {k \in w : \E j \in w : j <= k /\ Num(j) >= una}

\* A number that was never sent, or is acknowledged already, is of no segment.
processAck(w, numbers) == {k \in w : Num(k) \notin numbers}

FirstNumber(w) == Num(CHOOSE k \in w : \A j \in w : k <= j)

\* s with the window w.
FindFirstUnacknowledged(s, w) ==
  LET first == IF w # {} THEN FirstNumber(w) ELSE Num(s.pushed)
  IN  [s EXCEPT !.window = w, !.first = first, !.updated = @ \/ first # s.first]

ProcessReceivingNext(s, una) == FindFirstUnacknowledged(s, Clear(s.window, una))

\* An acknowledgement: the window of the peer, then its next, then the list.
ProcessAckSegment(s, m) ==
  FindFirstUnacknowledged(
    [s EXCEPT !.remoteNext = IF @ < m.window THEN m.window ELSE @],
    processAck(Clear(s.window, m.next), m.numbers))

\* CloseWrite, and Release.
CloseWrite(s) == [s EXCEPT !.window = {}]

\* A buffer that is full by one more than its size refuses the segment.
Push(s) ==
  IF Cardinality(s.window) > BufferSize THEN s
  ELSE [s EXCEPT !.window = @ \cup {s.pushed}, !.pushed = @ + 1]


\* The segments of D that one Flush sends: the first ones, and at least one.
Flushed(s, D) ==
  LET room == IF InFlight > Sub(s.remoteNext, s.first) THEN Sub(s.remoteNext, s.first) ELSE InFlight
      limit == IF room * Burst = 0 THEN 1 ELSE room * Burst
  IN  {k \in D : Cardinality({j \in D : j < k}) < limit}

\* The list of segments that Flush sends when those of D are due.
Transmissions(s, D) ==
  UNION { {f \in [1..Cardinality(out) -> out] :
             f \in Seq(out) /\ \A i, j \in DOMAIN f : i < j => f[i] < f[j]} :
            out \in {Flushed(s, D)} }

-----------------------------------------------------------------------------
(* The ReceivingWorker as a record: cache holds <<number, payload>> pairs, *)
(* acks are the numbers of the AckList, left is leftOver.                  *)

ProcessSendingNext(r, una) ==
  LET kept == {n \in r.acks : n >= una}
  IN  [r EXCEPT !.acks = kept, !.dirty = @ \/ kept # r.acks]

Numbers(r) == {c[1] : c \in r.cache}

\* A segment outside the window is not even acknowledged, one that is there
\* already is acknowledged again.
ProcessDataSegment(r, m) ==
  IF Sub(m.number, r.next) >= WindowSize THEN r
  ELSE [r EXCEPT !.acks = {n \in @ : n >= m.sendingNext} \cup {m.number}, !.dirty = TRUE,
                 !.cache = IF m.number \in Numbers(r) THEN @
                           ELSE @ \cup {<<m.number, m.payload>>}]

Payload(r, n) == (CHOOSE c \in r.cache : c[1] = n)[2]

\* n segments follow each other from next on, and no more.
IsRun(r, n) ==
  /\ \A i \in 0..(n - 1) : Plus(r.next, i) \in Numbers(r)
  /\ Plus(r.next, n) \notin Numbers(r)

InOrder(r, n) == [i \in 1..n |-> Payload(r, Plus(r.next, i - 1))]

Taken_KeepsNext(r, n) ==
  [r EXCEPT !.cache = {c \in @ : \A i \in 0..(n - 1) : c[1] # Plus(r.next, i)}]

\* They are taken out of the window.
Taken(r, n) ==
  [r EXCEPT !.cache = {c \in @ : \A i \in 0..(n - 1) : c[1] # Plus(r.next, i)},
            !.next = Plus(@, n)]

-----------------------------------------------------------------------------
(* Packets.                                                                *)

\* The option of every segment that is written in state st.
DataSegment(s, k, st) ==
  [type |-> "data", number |-> Num(k), payload |-> k, sendingNext |-> s.first,
   close |-> st = "ReadyToClose"]

AckSegment(r, st) ==
  [type |-> "ack", numbers |-> r.acks, next |-> r.next, window |-> Plus(r.next, WindowSize),
   close |-> st = "ReadyToClose"]

Ping(s, r, st, cmd) ==
  [type |-> cmd, next |-> r.next, sendingNext |-> s.first, close |-> st = "ReadyToClose"]

Without(q, i) == SubSeq(q, 1, i - 1) \o SubSeq(q, i + 1, Len(q))

\* UDP loses a packet, repeats it, or lets later ones overtake it.
Fault(e) ==
  /\ faults < load.faults
  /\ call[e]["input"] = Idle
  /\ \E i \in 1..Len(net[e]) :
       \/ net' = [net EXCEPT ![e] = Without(@, i)]
       \/ net' = [net EXCEPT ![e] = Append(@, @[i])]
       \/ net' = [net EXCEPT ![e] = Append(Without(@, i), @[i])]
  /\ faults' = faults + 1
  /\ UNCHANGED <<load, state, call, snd, rcv, lifeVars, appVars>>

-----------------------------------------------------------------------------
(* Calls and the state of a Connection.                                    *)

\* Call x of e is at step p.
At(e, x, p) == call[e][x] = [Phase(p) EXCEPT !.due = call[e][x].due]

\* SetState(st) if there is an st, and then on with p.
SetState(e, x, st, p) ==
  call' = [call EXCEPT ![e][x] = [at |-> p, set |-> st, entered |-> None,
                                  due |-> IF p = "idle" THEN None ELSE @.due]]

Goto(e, x, p) == SetState(e, x, None, p)

\* SetState unless the state that was loaded is to stay.
Moves(e, x, st, p) == IF st # state[e] THEN SetState(e, x, st, p) ELSE Goto(e, x, p)

StoreState(e, x) ==
  /\ call[e][x].set # None
  /\ state' = [state EXCEPT ![e] = call[e][x].set]
  /\ call' = [call EXCEPT ![e][x] =
                [@ EXCEPT !.set = None,
                          !.entered = IF call[e][x].set = "ReadyToClose" THEN None
                                      ELSE call[e][x].set]]
  /\ UNCHANGED <<load, snd, rcv, lifeVars, appVars, net, faults>>

\* What follows a store: CloseWrite, and go Terminate().
EnterState(e, x) ==
  /\ call[e][x].entered # None
  /\ call' = [call EXCEPT ![e][x] = [@ EXCEPT !.entered = None]]
  /\ snd' = [snd EXCEPT ![e] = CloseWrite(@)]
  /\ cleared' = [cleared EXCEPT ![e] = @ \/ snd[e].window # {}]
  /\ dying' = [dying EXCEPT ![e] = @ \/ call[e][x].entered = "Terminated"]
  /\ UNCHANGED <<load, state, rcv, running, released, expired, appVars, net, faults>>

\* The states Close, OnPeerClosed and a terminate command lead to.
AfterClose(st) ==
  CASE st = "Active" -> "ReadyToClose"
    [] st = "PeerClosed" -> "Terminating"
    [] st = "PeerTerminating" -> "Terminated"
    [] OTHER -> st

OnPeerClosed(st) ==
  CASE st = "ReadyToClose" -> "Terminating"
    [] st = "Active" -> "PeerClosed"
    [] OTHER -> st

OnTerminate(st) ==
  CASE st \in {"Active", "PeerClosed"} -> "PeerTerminating"
    [] st = "ReadyToClose" -> "Terminating"
    [] st = "Terminating" -> "Terminated"
    [] OTHER -> st

\* The application closes the connection, once.
Close(e) ==
  /\ e \in load.closes /\ ~ closed[e]
  /\ call[e]["close"] = Idle
  /\ closed' = [closed EXCEPT ![e] = TRUE]
  /\ owed' = [owed EXCEPT ![e] = snd[e].pushed]
  /\ Moves(e, "close", AfterClose(state[e]), "idle")
  /\ UNCHANGED <<load, state, snd, rcv, lifeVars, reader, received, missed, net, faults>>

\* Input for a packet: first the option, then a command, then the workers.
HandleOption(e) ==
  /\ net[e] # <<>>
  /\ call[e]["input"] = Idle
  /\ LET p == IF Head(net[e]).type = "terminate" THEN "command" ELSE "worker"
     IN  IF Head(net[e]).close THEN Moves(e, "input", OnPeerClosed(state[e]), p)
                               ELSE Goto(e, "input", p)
  /\ UNCHANGED <<load, state, snd, rcv, lifeVars, appVars, net, faults>>

HandleTerminate(e) ==
  /\ At(e, "input", "command")
  /\ Moves(e, "input", OnTerminate(state[e]), "worker")
  /\ UNCHANGED <<load, state, snd, rcv, lifeVars, appVars, net, faults>>

InputSnd(e, m) ==
  IF m.type = "data" \/ (m.type = "ack" /\ released[e]) THEN snd[e]
  ELSE IF m.type = "ack" THEN ProcessAckSegment(snd[e], m) ELSE ProcessReceivingNext(snd[e], m.next)

InputRcv(e, m) ==
  IF m.type = "data" THEN ProcessDataSegment(rcv[e], m)
  ELSE IF m.type = "ack" THEN rcv[e] ELSE ProcessSendingNext(rcv[e], m.sendingNext)

ProcessSegment(e) ==
  /\ At(e, "input", "worker") /\ net[e] # <<>>
  /\ snd' = [snd EXCEPT ![e] = InputSnd(e, Head(net[e]))]
  /\ rcv' = [rcv EXCEPT ![e] = InputRcv(e, Head(net[e]))]
  /\ net' = [net EXCEPT ![e] = Tail(@)]
  /\ Goto(e, "input", "idle")
  /\ UNCHANGED <<load, state, lifeVars, appVars, faults>>

\* Terminate, the goroutine that SetState(StateTerminated) starts.
Terminate(e) ==
  /\ dying[e]
  /\ dying' = [dying EXCEPT ![e] = FALSE]
  /\ released' = [released EXCEPT ![e] = TRUE]
  /\ snd' = [snd EXCEPT ![e] = CloseWrite(@)]
  /\ cleared' = [cleared EXCEPT ![e] = @ \/ snd[e].window # {}]
  /\ rcv' = [rcv EXCEPT ![e].left = <<>>]
  /\ UNCHANGED <<load, state, call, running, expired, appVars, net, faults>>

-----------------------------------------------------------------------------
(* flush, run by the updaters: the ping updater until the connection is    *)
(* terminated, the data updater while there is something to send.          *)

\* The timer of state st runs out.
RunsOut(e, u, st) ==
  /\ st \in load.timers
  /\ load.slow \/ \A x \in Calls \ {u} : call[e][x] = Idle

Expires(e, late) == expired' = [expired EXCEPT ![e] = @ \/ late]

Sends(e, packets) == net' = [net EXCEPT ![Peer(e)] = @ \o packets]

Dues ==
  {"late"} \cup (IF load.eager THEN {} ELSE {"some"})
    \cup (IF load.timers = {} THEN {} ELSE {"all", "quiet"})

\* Run through, the data updater does nothing that the ping updater does not.
FlushBegins(e, u, due) ==
  /\ call[e][u] = Idle
  /\ IF u = "ping" THEN running[e] /\ state[e] # "Terminated"
     ELSE state[e] \notin {"Terminating", "Terminated"} /\ (snd[e].window # {} \/ rcv[e].acks # {})
  /\ Len(net[Peer(e)]) <= MaxQueued /\ (u = "data" => <<e, u>> \in load.loose)
  /\ due = "quiet" => state[e] = "Active" /\ RunsOut(e, u, "Active")
  /\ call' = [call EXCEPT ![e][u] = [Phase(IF due = "quiet" THEN "close" ELSE "drain")
                                       EXCEPT !.due = due]]
  /\ Expires(e, due = "quiet")
  /\ UNCHANGED <<load, state, snd, rcv, running, dying, released, cleared, appVars, net, faults>>

\* After a quiet time, Close; then the end of ReadyToClose.
FlushCloses(e, u) ==
  /\ \/ At(e, u, "close") /\ Moves(e, u, AfterClose(state[e]), "drain")
     \/ At(e, u, "drain") /\ Goto(e, u, IF state[e] = "ReadyToClose" THEN "empty" ELSE "ask")
     \/ At(e, u, "empty") /\ SetState(e, u, IF snd[e].window = {} THEN "Terminating" ELSE None, "ask")
  /\ UNCHANGED <<load, state, snd, rcv, lifeVars, appVars, net, faults>>

\* The tests for Terminating and for the timers of PeerTerminating and of
\* ReadyToClose.  One that fails might as well be made later, so that they are
\* one step up to the first that does not.
FlushTimers(e, u) ==
  LET late == call[e][u].due = "late" /\ RunsOut(e, u, state[e])
  IN  /\ \/ /\ At(e, u, "ask")
            /\ CASE state[e] = "Terminating" -> Goto(e, u, "terminate")
                 [] state[e] = "PeerTerminating" /\ late -> SetState(e, u, "Terminating", "ready")
                 [] state[e] = "ReadyToClose" /\ late -> SetState(e, u, "Terminating", "acks")
                 [] OTHER -> Goto(e, u, "acks")
         \/ /\ At(e, u, "ready")
            /\ SetState(e, u, IF state[e] = "ReadyToClose" /\ late THEN "Terminating" ELSE None, "acks")
      /\ Expires(e, call'[e][u].set # None)
      /\ UNCHANGED <<load, state, snd, rcv, running, dying, released, cleared, appVars, net, faults>>

\* The connection is terminating: one terminate command, and no segments.
FlushTerminate(e, u) ==
  LET late == call[e][u].due = "late" /\ RunsOut(e, u, "Terminating")
  IN  /\ At(e, u, "terminate")
      /\ Sends(e, <<Ping(snd[e], rcv[e], state[e], "terminate")>>)
      /\ SetState(e, u, IF late THEN "Terminated" ELSE None, "idle")
      /\ Expires(e, late)
      /\ UNCHANGED <<load, state, snd, rcv, running, dying, released, cleared, appVars, faults>>

\* again: acknowledgements that were sent before are due again.
FlushAcks(e, u, again) ==
  /\ At(e, u, "acks") /\ (call[e][u].due # "some" => again)
  /\ Sends(e, IF rcv[e].dirty \/ (again /\ rcv[e].acks # {})
              THEN <<AckSegment(rcv[e], state[e])>> ELSE <<>>)
  /\ rcv' = [rcv EXCEPT ![e].dirty = FALSE]
  /\ Goto(e, u, "segments")
  /\ UNCHANGED <<load, state, snd, lifeVars, appVars, faults>>

\* The segments of D that fit; then a ping when the last ones have been
\* acknowledged, or that of every three seconds.
FlushSegments(e, u, D, ping) ==
  /\ At(e, u, "segments") /\ (call[e][u].due # "some" => D = snd[e].window)
  /\ ping => ~ load.eager
  /\ \E f \in Transmissions(snd[e], IF released[e] THEN {} ELSE D) :
       Sends(e, [i \in DOMAIN f |-> DataSegment(snd[e], f[i], state[e])])
  /\ snd' = [snd EXCEPT ![e].updated = @ /\ released[e]]
  /\ Goto(e, u, IF ping \/ (snd[e].updated /\ snd[e].window = {} /\ ~ released[e])
                THEN "ping" ELSE "idle")
  /\ UNCHANGED <<load, state, rcv, lifeVars, appVars, faults>>

FlushPing(e, u) ==
  /\ At(e, u, "ping")
  /\ Sends(e, <<Ping(snd[e], rcv[e], state[e], "ping")>>)
  /\ Goto(e, u, "idle")
  /\ UNCHANGED <<load, state, snd, rcv, lifeVars, appVars, faults>>

\* The ping updater finds the connection terminated and does not run again.
UpdaterEnds(e) ==
  /\ running[e] /\ state[e] = "Terminated" /\ call[e]["ping"] = Idle
  /\ running' = [running EXCEPT ![e] = FALSE]
  /\ UNCHANGED <<load, state, call, snd, rcv, dying, released, cleared, expired, appVars, net, faults>>

-----------------------------------------------------------------------------
(* The application.                                                        *)

\* One round of writeMultiBufferInternal with the next segment.
WriteBegins(e) ==
  /\ snd[e].pushed < load.writes[e] /\ state[e] = "Active"
  /\ call[e]["write"] = Idle
  /\ Goto(e, "write", "push")
  /\ UNCHANGED <<load, state, snd, rcv, lifeVars, appVars, net, faults>>

WritePushes(e) ==
  /\ At(e, "write", "push") /\ snd[e].pushed < load.writes[e]
  /\ IF released[e] THEN UNCHANGED snd ELSE snd' = [snd EXCEPT ![e] = Push(@)]
  /\ Goto(e, "write", "idle")
  /\ UNCHANGED <<load, state, rcv, lifeVars, appVars, net, faults>>

AtEnd_PeerClosed(st) == st \in {"ReadyToClose", "PeerClosed", "Terminating", "Terminated"}

\* The states in which a read returns io.EOF at once.
AtEnd(st) == st \in {"ReadyToClose", "Terminating", "Terminated"}

\* ReadMultiBuffer gives all of got, Read one segment, the rest is leftOver.
Give(e, got, r) ==
  LET now == IF e \in load.bytes /\ got # <<>> THEN 1 ELSE Len(got)
  IN  /\ received' = [received EXCEPT ![e] = @ \o SubSeq(got, 1, now)]
      /\ rcv' = [rcv EXCEPT ![e] = [r EXCEPT !.left = SubSeq(got, now + 1, Len(got))]]

\* The call looks at the state and then for segments; if it finds none it goes
\* on to check the state again or to wait.
ReadLook(e) ==
  /\ reader[e] = "look"
  /\ reader' = [reader EXCEPT ![e] = IF AtEnd(state[e]) THEN "eof" ELSE "take"]
  /\ UNCHANGED <<load, state, call, snd, rcv, lifeVars, received, missed, closed, owed, net, faults>>

ReadTake(e) ==
  /\ reader[e] = "take"
  /\ \/ /\ rcv[e].left # <<>>
        /\ Give(e, rcv[e].left, rcv[e])
        /\ reader' = [reader EXCEPT ![e] = "look"]
     \/ /\ rcv[e].left = <<>>
        /\ \E n \in 0..WindowSize :
             /\ IsRun(rcv[e], n)
             /\ Give(e, InOrder(rcv[e], n), Taken(rcv[e], n))
             /\ reader' = [reader EXCEPT ![e] = IF n = 0 THEN "check" ELSE "look"]
  /\ UNCHANGED <<load, state, call, snd, lifeVars, missed, closed, owed, net, faults>>

\* ReadMultiBuffer ends when the peer is terminating, Read does not look; then
\* the call waits for input or sixteen seconds, and looks again.
ReadCheck(e) ==
  LET ends == state[e] = "PeerTerminating" /\ e \notin load.bytes
  IN  /\ reader[e] = "check"
      /\ reader' = [reader EXCEPT ![e] = IF ends THEN "eof" ELSE "look"]
      /\ missed' = [missed EXCEPT ![e] = ends /\ rcv[e].next \in Numbers(rcv[e])]
      /\ UNCHANGED <<load, state, call, snd, rcv, lifeVars, received, closed, owed, net, faults>>

-----------------------------------------------------------------------------
FlushGoesOn(e, u) ==
  \/ FlushCloses(e, u)
  \/ FlushTimers(e, u)
  \/ FlushTerminate(e, u)
  \/ \E again \in BOOLEAN : FlushAcks(e, u, again)
  \/ \E D \in SUBSET snd[e].window, ping \in BOOLEAN : FlushSegments(e, u, D, ping)
  \/ FlushPing(e, u)

\* The beginning of call x, and what follows.
CallBegins(e, x) ==
  \/ x = "close" /\ Close(e)
  \/ x = "input" /\ HandleOption(e)
  \/ x = "write" /\ WriteBegins(e)
  \/ x \in Updaters /\ \E due \in Dues : FlushBegins(e, x, due)

CallGoesOn(e, x) ==
  \/ StoreState(e, x)
  \/ EnterState(e, x)
  \/ x = "input" /\ (HandleTerminate(e) \/ ProcessSegment(e))
  \/ x = "write" /\ WritePushes(e)
  \/ x \in Updaters /\ FlushGoesOn(e, x)

Read(e) == ReadLook(e) \/ ReadTake(e) \/ ReadCheck(e)

UnderWay ==
  {c \in Ends \X Calls : call[c[1]][c[2]] # Idle}
    \cup {c \in Ends \X {"read"} : reader[c[1]] \in {"take", "check"}}

\* No call but c is under way, except for the loose ones.
Alone(c) == UnderWay \subseteq load.loose \cup c

Next ==
  \E e \in Ends :
    \/ Alone({}) /\ (Terminate(e) \/ UpdaterEnds(e) \/ Fault(e))
    \/ Alone({<<e, "read">>}) /\ Read(e)
    \/ \E x \in Calls :
         \/ Alone({}) /\ CallBegins(e, x)
         \/ Alone({<<e, x>>}) /\ CallGoesOn(e, x)

Spec == Init /\ [][Next]_vars

\* The ping updater of e finds everything due and comes to the timers, no other
\* call of e being under way.
OnTime(e) ==
  /\ call[e]["ping"].due = "late" /\ \A x \in Calls \ {"ping"} : call[e][x] = Idle
  /\ call[e]["ping"].at = IF state[e] = "Terminating" THEN "terminate" ELSE "ask"

\* Packets arrive, every call comes to its end, and an application that may write
\* or read does so again and again.  While it runs, the ping updater is on time
\* now and then.
Fairness ==
  \A e \in Ends :
    /\ \A x \in Calls : []<>(call[e][x] = Idle)
    /\ []<>(reader[e] # "look") /\ []<>(reader[e] \notin {"take", "check"})
    /\ []<>(call[e]["write"] # Idle \/ snd[e].pushed = load.writes[e] \/ state[e] # "Active")
    /\ []<>(OnTime(e) \/ ~ running[e] \/ state[e] = "Terminated")
    /\ []<>(call[e]["input"] # Idle \/ net[e] = <<>>) /\ []<>(~ dying[e])

FairSpec == Spec /\ Fairness

-----------------------------------------------------------------------------
(* Properties.                                                             *)

\* A firstUnacknowledged.
Firsts == Nat \cup {FirstNumber(w) : w \in SUBSET Nat}

Packets ==
  [type : {"data"}, number : Nat, payload : Nat, sendingNext : Firsts, close : BOOLEAN]
    \cup [type : {"ack"}, numbers : SUBSET Nat, next : Nat, window : Nat, close : BOOLEAN]
    \cup [type : {"ping", "terminate"}, next : Nat, sendingNext : Firsts, close : BOOLEAN]

SendingWorkers ==
  [window : SUBSET Nat, pushed : Nat, first : Firsts, updated : BOOLEAN, remoteNext : Nat]

ReceivingWorkers ==
  [next : Nat, cache : SUBSET (Nat \X Nat), left : Seq(Nat), acks : SUBSET Nat, dirty : BOOLEAN]

Phases ==
  {"idle", "command", "worker", "close", "drain", "empty", "ask", "ready", "terminate", "acks",
   "segments", "ping", "push"}

CallRecords ==
  [at : Phases, set : States \cup {None}, entered : States \cup {None},
   due : {None, "some", "all", "late", "quiet"}]

ControlOK ==
  /\ state \in [Ends -> States]
  /\ call \in [Ends -> [Calls -> CallRecords]]
  /\ running \in [Ends -> BOOLEAN] /\ dying \in [Ends -> BOOLEAN]
  /\ released \in [Ends -> BOOLEAN] /\ cleared \in [Ends -> BOOLEAN]
  /\ expired \in [Ends -> BOOLEAN] /\ closed \in [Ends -> BOOLEAN]
  /\ missed \in [Ends -> BOOLEAN] /\ owed \in [Ends -> Nat]
  /\ reader \in [Ends -> {"none", "look", "take", "check", "eof"}]

TypeOK ==
  /\ load \in Loads
  /\ ControlOK
  /\ snd \in [Ends -> SendingWorkers] /\ rcv \in [Ends -> ReceivingWorkers]
  /\ received \in [Ends -> Seq(Nat)]
  /\ net \in [Ends -> Seq(Packets)]

\* What the reader of e has been given is a beginning of what the peer wrote,
\* without loss, repetition or displacement (ReadMultiBuffer, Read), for Read
\* until the connection is released with what it has left over.
DeliveredInOrder ==
  \A e \in Ends : ~ released[e] \/ e \notin load.bytes =>
    /\ Len(received[e]) <= snd[Peer(e)].pushed
    /\ \A i \in 1..Len(received[e]) : received[e][i] = i - 1

\* The segments the receiving worker of e has, given to the reader or not.
Held(e) ==
  {received[e][i] : i \in 1..Len(received[e])}
    \cup {rcv[e].left[i] : i \in 1..Len(rcv[e].left)}
    \cup {c[2] : c \in rcv[e].cache}

\* A segment leaves the sending window only when the peer holds it, whatever
\* acknowledgements are lost, repeated or late; only closing drops one that
\* the peer does not hold (ProcessReceivingNext, processAck, CloseWrite).
AckedMeansHeld ==
  \A e \in Ends :
    ~ cleared[e] /\ ~ released[Peer(e)]
      => 0..(snd[e].pushed - 1) \subseteq snd[e].window \cup Held(Peer(e))

\* An io.EOF that the peer's termination causes comes after everything the peer
\* pushed before it called Close, unless a timer cut the closing short on one
\* side, or the last segments came between the two looks of the reader.
EofComplete ==
  \A e \in Ends :
    reader[e] = "eof" /\ ~ closed[e] /\ ~ expired[A] /\ ~ expired[B] /\ ~ missed[e]
      => owed[Peer(e)] <= Len(received[e])

=============================================================================
