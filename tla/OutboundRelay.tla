--------------------------- MODULE OutboundRelay ---------------------------
(***************************************************************************)
(* The Reflex outbound (proxy/reflex/outbound) at its end of a link: two   *)
(* buf.Copy tasks under task.Run, the request from the uplink to the       *)
(* server and the response from the server to the downlink, and what       *)
(* Handler.Dispatch (app/proxyman/outbound) does with the link when        *)
(* Process returns.  The inbound at the other end of the link, the server  *)
(* and the context are the environment.                                    *)
(***************************************************************************)
EXTENDS Naturals, Sequences

CONSTANTS MaxChunks   \* bound on the chunks of a direction

ASSUME OutboundAssumption == MaxChunks \in Nat

Tasks == {"request", "response"}

\* "eof" is io.EOF, "pipe" io.ErrClosedPipe, "cancelled" context.Canceled.
Results == {"none", "nil", "error", "eof", "pipe", "cancelled"}

VARIABLES
  sent,      \* sent[t]: chunks that entered the source of task t: 1, 2, ...
  uplink,    \* the state of the uplink pipe: "open", "closed", "interrupted"
  downlink,  \* the state of the downlink pipe
  taken,     \* how many chunks of the downlink the inbound has read
  server,    \* the server's side of the connection: "open", "fin", "reset"
  conn,      \* our side of it is open
  cancelled, \* ctx.Done() is closed
  main,      \* Dispatch: "dial", "wait", "returned", "writer", "finished"
  result,    \* the cause of what Process returned, see Results
  tpc,       \* tpc[t]: "none", "read", "write", "close", "signal", "send", "done"
  terr,      \* terr[t]: what the task returned
  next,      \* next[t]: the chunk it reads or writes next
  passed,    \* passed[t]: the chunks it has written
  token,     \* the permits in the semaphore
  got,       \* the permits Run has collected
  done       \* the channel of errors, of capacity one

pipes == <<uplink, downlink, taken>>
tasks == <<tpc, terr, next, passed>>
run == <<token, got, done>>
vars == <<sent, pipes, server, conn, cancelled, main, result, tasks, run>>

Init ==
  /\ sent = [t \in Tasks |-> 0]
  /\ uplink = "open" /\ downlink = "open" /\ taken = 0
  /\ server = "open" /\ conn = FALSE /\ cancelled = FALSE
  /\ main = "dial" /\ result = "none"
  /\ tpc = [t \in Tasks |-> "none"]
  /\ terr = [t \in Tasks |-> "nil"]
  /\ next = [t \in Tasks |-> 1]
  /\ passed = [t \in Tasks |-> <<>>]
  /\ token = 0 /\ got = 0 /\ done = <<>>

-----------------------------------------------------------------------------
(* The environment.                                                        *)

InboundWrites ==
  /\ uplink = "open" /\ sent["request"] < MaxChunks
  /\ sent' = [sent EXCEPT !["request"] = @ + 1]
  /\ UNCHANGED <<pipes, server, conn, cancelled, main, result, tasks, run>>

InboundCloses ==
  /\ uplink = "open"
  /\ uplink' = "closed"
  /\ UNCHANGED <<sent, downlink, taken, server, conn, cancelled, main, result, tasks, run>>

InboundReads ==
  /\ downlink # "interrupted" /\ taken < Len(passed["response"])
  /\ taken' = taken + 1
  /\ UNCHANGED <<sent, uplink, downlink, server, conn, cancelled, main, result, tasks, run>>

ServerSends ==
  /\ tpc["response"] # "none" /\ server = "open" /\ sent["response"] < MaxChunks
  /\ sent' = [sent EXCEPT !["response"] = @ + 1]
  /\ UNCHANGED <<pipes, server, conn, cancelled, main, result, tasks, run>>

ServerEnds ==
  /\ tpc["response"] # "none" /\ server = "open"
  /\ server' \in {"fin", "reset"}
  /\ UNCHANGED <<sent, pipes, conn, cancelled, main, result, tasks, run>>

Cancel ==
  /\ ~ cancelled
  /\ cancelled' = TRUE
  /\ UNCHANGED <<sent, pipes, server, conn, main, result, tasks, run>>

-----------------------------------------------------------------------------
(* Process, task.Run and Dispatch.                                         *)

\* The causes of a failed Dial, which Process wraps: no configuration or no answer;
\* a server, or a proxy on the way, that ends the connection while TLS is set up;
\* the end of the context.
DialErrors == {"error", "eof", "pipe"} \cup (IF cancelled THEN {"cancelled"} ELSE {})

\* Run starts both tasks; its semaphore has a permit for each, so that it does
\* not wait between them.
Dial ==
  /\ main = "dial"
  /\ \/ /\ main' = "wait" /\ conn' = TRUE
        /\ tpc' = [t \in Tasks |-> "read"]
        /\ UNCHANGED result
     \/ /\ main' = "returned"
        /\ result' \in DialErrors
        /\ UNCHANGED <<conn, tpc>>
  /\ UNCHANGED <<sent, pipes, server, cancelled, terr, next, passed, run>>

Collected_First == got + 1 = 1
Collected == got + 1 = 2

\* The select of Run: an error, the end of the context or a permit.  Process
\* returns with Run, and the deferred Close ends the connection.
RunSelects ==
  /\ main = "wait"
  /\ \/ /\ done # <<>>
        /\ done' = Tail(done)
        /\ result' = Head(done) /\ main' = "returned" /\ conn' = FALSE
        /\ UNCHANGED <<token, got>>
     \/ /\ cancelled
        /\ result' = "cancelled" /\ main' = "returned" /\ conn' = FALSE
        /\ UNCHANGED run
     \/ /\ token > 0
        /\ token' = token - 1
        /\ got' = got + 1
        /\ IF Collected
             THEN result' = "nil" /\ main' = "returned" /\ conn' = FALSE
             ELSE UNCHANGED <<result, main, conn>>
        /\ UNCHANGED done
  /\ UNCHANGED <<sent, pipes, server, cancelled, tasks>>

\* Interrupt drops what the pipe holds; a closed pipe that held nothing stays
\* closed.
Interrupted(state, unread) == IF state = "closed" /\ unread = 0 THEN "closed" ELSE "interrupted"

EndWriter_AlwaysClose ==
  /\ main = "returned"
  /\ main' = "writer"
  /\ downlink' = IF downlink = "open" THEN "closed" ELSE downlink
  /\ UNCHANGED <<sent, uplink, taken, server, conn, cancelled, result, tasks, run>>

\* A failure interrupts the downlink.  What Dispatch does not take for one, the
\* end of the context and every error that io.EOF causes, closes it.
EndWriter ==
  /\ main = "returned"
  /\ main' = "writer"
  /\ downlink' = IF result \in {"error", "pipe"}
                   THEN Interrupted(downlink, Len(passed["response"]) - taken)
                   ELSE IF downlink = "open" THEN "closed" ELSE downlink
  /\ UNCHANGED <<sent, uplink, taken, server, conn, cancelled, result, tasks, run>>

EndReader_Kept ==
  /\ main = "writer"
  /\ main' = "finished"
  /\ UNCHANGED <<sent, pipes, server, conn, cancelled, result, tasks, run>>

EndReader ==
  /\ main = "writer"
  /\ main' = "finished"
  /\ uplink' = Interrupted(uplink, sent["request"] - (next["request"] - 1))
  /\ UNCHANGED <<sent, downlink, taken, server, conn, cancelled, result, tasks, run>>

-----------------------------------------------------------------------------
(* buf.Copy.                                                               *)

\* How the source of a task stands: it has a chunk, has ended, has failed, or
\* makes the task wait.
Source(t) ==
  LET more == next[t] <= sent[t] IN
  IF t = "request"
    THEN CASE uplink = "interrupted" -> "pipe"
           [] uplink # "interrupted" /\ more -> "chunk"
           [] uplink = "closed" /\ ~ more -> "eof"
           [] OTHER -> "wait"
    ELSE CASE ~ conn \/ server = "reset" -> "error"
           [] conn /\ server # "reset" /\ more -> "chunk"
           [] conn /\ server = "fin" /\ ~ more -> "eof"
           [] OTHER -> "wait"

Fails(t, e) ==
  /\ tpc' = [tpc EXCEPT ![t] = "send"]
  /\ terr' = [terr EXCEPT ![t] = e]
  /\ UNCHANGED <<next, passed>>

\* The end of the source is success, which for the response goes on to close
\* the downlink (task.OnSuccess).
CopyReads(t) ==
  /\ tpc[t] = "read"
  /\ \/ /\ Source(t) = "chunk"
        /\ tpc' = [tpc EXCEPT ![t] = "write"]
        /\ next' = [next EXCEPT ![t] = @ + 1]
        /\ UNCHANGED <<terr, passed>>
     \/ /\ Source(t) = "eof"
        /\ tpc' = [tpc EXCEPT ![t] = IF t = "response" THEN "close" ELSE "signal"]
        /\ UNCHANGED <<terr, next, passed>>
     \/ Source(t) \in {"error", "pipe"} /\ Fails(t, Source(t))
  /\ UNCHANGED <<sent, pipes, server, conn, cancelled, main, result, run>>

\* A write to a server that has ended may still succeed.
CopyWrites(t) ==
  /\ tpc[t] = "write"
  /\ \/ /\ IF t = "request" THEN conn /\ server # "reset" ELSE downlink = "open"
        /\ passed' = [passed EXCEPT ![t] = Append(@, next[t] - 1)]
        /\ tpc' = [tpc EXCEPT ![t] = "read"]
        /\ UNCHANGED <<terr, next>>
     \/ t = "request" /\ (~ conn \/ server # "open") /\ Fails(t, "error")
     \/ t = "response" /\ downlink # "open" /\ Fails(t, "pipe")
  /\ UNCHANGED <<sent, pipes, server, conn, cancelled, main, result, run>>

CloseDownlink ==
  /\ tpc["response"] = "close"
  /\ tpc' = [tpc EXCEPT !["response"] = "signal"]
  /\ downlink' = IF downlink = "open" THEN "closed" ELSE downlink
  /\ UNCHANGED <<sent, uplink, taken, server, conn, cancelled, main, result, terr, next,
                 passed, run>>

\* Success gives a permit back; an error goes to the channel unless one is there.
TaskEnds(t) ==
  /\ tpc[t] \in {"signal", "send"}
  /\ tpc' = [tpc EXCEPT ![t] = "done"]
  /\ token' = IF tpc[t] = "signal" THEN token + 1 ELSE token
  /\ done' = IF tpc[t] = "send" /\ done = <<>> THEN <<terr[t]>> ELSE done
  /\ UNCHANGED <<sent, pipes, server, conn, cancelled, main, result, terr, next, passed, got>>

-----------------------------------------------------------------------------

Environment ==
  \/ InboundWrites \/ InboundCloses \/ InboundReads
  \/ ServerSends \/ ServerEnds \/ Cancel

Dispatch == Dial \/ RunSelects \/ EndWriter \/ EndReader

Next ==
  \/ Environment \/ Dispatch
  \/ \E t \in Tasks : CopyReads(t) \/ CopyWrites(t) \/ TaskEnds(t)
  \/ CloseDownlink

Spec == Init /\ [][Next]_vars

\* Goroutines run.  A write is only sure to return when its connection or pipe
\* has been closed on our side.
FairSpec ==
  /\ Spec
  /\ WF_vars(Dispatch) /\ WF_vars(CloseDownlink)
  /\ \A t \in Tasks : WF_vars(CopyReads(t)) /\ WF_vars(TaskEnds(t))
  /\ WF_vars(CopyWrites("request") /\ ~ conn)
  /\ WF_vars(CopyWrites("response") /\ downlink # "open")

-----------------------------------------------------------------------------
(* Properties.                                                             *)

\* Type correctness; Run's channel holds one error, its semaphore two permits.
TypeOK ==
  /\ sent \in [Tasks -> 0..MaxChunks]
  /\ {uplink, downlink} \subseteq {"open", "closed", "interrupted"}
  /\ taken \in 0..Len(passed["response"])
  /\ server \in {"open", "fin", "reset"}
  /\ conn \in BOOLEAN /\ cancelled \in BOOLEAN
  /\ main \in {"dial", "wait", "returned", "writer", "finished"}
  /\ result \in Results
  /\ tpc \in [Tasks -> {"none", "read", "write", "close", "signal", "send", "done"}]
  /\ terr \in [Tasks -> {"nil", "error", "pipe"}]
  /\ next \in [Tasks -> 1..(MaxChunks + 1)]
  /\ passed \in [Tasks -> Seq(1..MaxChunks)]
  /\ token \in 0..2 /\ got \in 0..2
  /\ done \in Seq({"error", "pipe"}) /\ Len(done) <= 1

Complete(t) == passed[t] = [i \in 1..sent[t] |-> i]

\* Process returns nil only when both directions are complete: Run counts the
\* permits that successful tasks give back.
NilMeansBothComplete ==
  result = "nil" =>
    /\ Complete("request") /\ uplink # "open"
    /\ Complete("response") /\ server = "fin"

\* The inbound takes a closed downlink for the end of the response.  Once there
\* is a connection it is one, unless the context ended: no failure of a task is
\* passed on as an end.  Only an io.EOF of Dial is, and then there was no request
\* and no response.
EofIsComplete ==
  downlink = "closed" =>
    \/ Complete("response") /\ server = "fin"
    \/ result = "cancelled"
    \/ result = "eof" /\ ~ conn /\ passed["request"] = <<>> /\ sent["response"] = 0

\* Once the context ends or either task has failed, Process returns, Dispatch
\* ends both pipes and both tasks end, whatever the server and the inbound do,
\* also when a task waits for a silent peer.
Released ==
  cancelled \/ (\E t \in Tasks : tpc[t] = "send") ~>
    main = "finished" /\ \A t \in Tasks : tpc[t] \in {"none", "done"}
=============================================================================
