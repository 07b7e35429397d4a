--------------------------- MODULE FallbackRelay ---------------------------
(***************************************************************************)
(* handleFallback (proxy/reflex/inbound, handshake.go) from the dial on:   *)
(* two goroutines copy between the client's connection, what the detection *)
(* has buffered of it first, and the local web server; the handler returns *)
(* when the first of them ends, its deferred Close ends the connection to  *)
(* the server, and then the worker closes the client's connection.         *)
(*                                                                         *)
(* The two directions are alike: "up" reads from the client and writes to  *)
(* the server, "down" the other way round.  A side is the peer on one end: *)
(* Src(d) is where direction d reads, Dst(d) where it writes.              *)
(***************************************************************************)
EXTENDS Naturals, Sequences

CONSTANTS
  MaxChunks,   \* bound on the chunks a peer sends
  Buffered,    \* how many chunks of the client the detection has read ahead
  FallbackDest \* h.fallback.Dest, zero when there is none

RelayConstants ==
  MaxChunks \in Nat /\ Buffered \in 0..MaxChunks /\ FallbackDest \in Nat

ASSUME RelayAssumption == RelayConstants

Directions == {"up", "down"}
Src(d) == IF d = "up" THEN "client" ELSE "server"
Dst(d) == IF d = "up" THEN "server" ELSE "client"
Peers == {"client", "server"}

VARIABLES
  sent,    \* sent[p]: the number of chunks peer p has sent: 1, 2, ...
  ended,   \* ended[p]: "no", "fin" or "reset"
  open,    \* open[p]: our end of the connection to p is open
  main,    \* where handleFallback is: "dial", "wait", "returned", "closed"
  result,  \* what it returned: "none", "nil" or "error"
  gpc,     \* gpc[d]: where the goroutine is: "none", "read", "write", "send", "done"
  gerr,    \* gerr[d]: what io.Copy returned
  next,    \* next[d]: the chunk the goroutine reads or writes next
  passed,  \* passed[d]: the chunks written to the other side
  errCh    \* the channel of results, of capacity two

vars == <<sent, ended, open, main, result, gpc, gerr, next, passed, errCh>>
copies == <<gpc, gerr, next, passed>>

Init ==
  /\ sent = [p \in Peers |-> IF p = "client" THEN Buffered ELSE 0]
  /\ ended = [p \in Peers |-> "no"]
  /\ open = [p \in Peers |-> p = "client"]
  /\ main = "dial" /\ result = "none"
  /\ gpc = [d \in Directions |-> "none"]
  /\ gerr = [d \in Directions |-> "nil"]
  /\ next = [d \in Directions |-> 1]
  /\ passed = [d \in Directions |-> <<>>]
  /\ errCh = <<>>

-----------------------------------------------------------------------------
(* The peers.                                                              *)

PeerSends(p) ==
  /\ ended[p] = "no" /\ sent[p] < MaxChunks
  /\ p = "server" => gpc["up"] # "none"  \* dialled
  /\ sent' = [sent EXCEPT ![p] = @ + 1]
  /\ UNCHANGED <<ended, open, main, result, copies, errCh>>

PeerEnds(p) ==
  /\ ended[p] = "no"
  /\ p = "server" => gpc["up"] # "none"
  /\ \E e \in {"fin", "reset"} : ended' = [ended EXCEPT ![p] = e]
  /\ UNCHANGED <<sent, open, main, result, copies, errCh>>

-----------------------------------------------------------------------------
(* handleFallback and the worker.                                          *)

Dial_ConnOnly ==
  /\ main = "dial"
  /\ \/ /\ FallbackDest # 0
        /\ open' = [open EXCEPT !["server"] = TRUE]
        /\ gpc' = [d \in Directions |-> "read"]
        /\ main' = "wait"
        /\ next' = [next EXCEPT !["up"] = Buffered + 1]
        /\ UNCHANGED result
     \/ /\ main' = "returned" /\ result' = "error"  \* not configured, or no answer
        /\ UNCHANGED <<open, gpc, next>>
  /\ UNCHANGED <<sent, ended, gerr, passed, errCh>>

Dial ==
  /\ main = "dial"
  /\ \/ /\ FallbackDest # 0
        /\ open' = [open EXCEPT !["server"] = TRUE]
        /\ gpc' = [d \in Directions |-> "read"]
        /\ main' = "wait"
        /\ UNCHANGED result
     \/ /\ main' = "returned" /\ result' = "error"  \* not configured, or no answer
        /\ UNCHANGED <<open, gpc>>
  /\ UNCHANGED <<sent, ended, gerr, next, passed, errCh>>

FirstResult_ErrorIgnored ==
  /\ main = "wait" /\ errCh # <<>>
  /\ result' = "nil"
  /\ errCh' = Tail(errCh)
  /\ main' = "returned"
  /\ open' = [open EXCEPT !["server"] = FALSE]
  /\ UNCHANGED <<sent, ended, copies>>

\* The first result decides; the deferred Close runs with the return.
FirstResult ==
  /\ main = "wait" /\ errCh # <<>>
  /\ result' = Head(errCh)
  /\ errCh' = Tail(errCh)
  /\ main' = "returned"
  /\ open' = [open EXCEPT !["server"] = FALSE]
  /\ UNCHANGED <<sent, ended, copies>>

\* The worker closes the client's connection when Process has returned.
WorkerCloses ==
  /\ main = "returned"
  /\ main' = "closed"
  /\ open' = [open EXCEPT !["client"] = FALSE]
  /\ UNCHANGED <<sent, ended, result, copies, errCh>>

-----------------------------------------------------------------------------
(* io.Copy.                                                                *)

Ends(d, e) ==
  /\ gpc' = [gpc EXCEPT ![d] = "send"]
  /\ gerr' = [gerr EXCEPT ![d] = e]
  /\ UNCHANGED <<next, passed>>

\* What the detection has buffered is read before the connection is.
HasChunk(d) ==
  /\ next[d] <= sent[Src(d)]
  /\ \/ open[Src(d)] /\ ended[Src(d)] # "reset"
     \/ d = "up" /\ next[d] <= Buffered

CopyRead(d) ==
  /\ gpc[d] = "read"
  /\ \/ /\ HasChunk(d)
        /\ gpc' = [gpc EXCEPT ![d] = "write"]
        /\ UNCHANGED <<gerr, next, passed>>
     \/ ~ HasChunk(d) /\ ended[Src(d)] = "fin" /\ open[Src(d)] /\ Ends(d, "nil")
     \/ ~ HasChunk(d) /\ (ended[Src(d)] = "reset" \/ ~ open[Src(d)]) /\ Ends(d, "error")
  /\ UNCHANGED <<sent, ended, open, main, result, errCh>>

\* A write to a peer that has ended may still succeed.
CopyWrite(d) ==
  /\ gpc[d] = "write"
  /\ \/ /\ open[Dst(d)] /\ ended[Dst(d)] # "reset"
        /\ passed' = [passed EXCEPT ![d] = Append(@, next[d])]
        /\ next' = [next EXCEPT ![d] = @ + 1]
        /\ gpc' = [gpc EXCEPT ![d] = "read"]
        /\ UNCHANGED gerr
     \/ (~ open[Dst(d)] \/ ended[Dst(d)] # "no") /\ Ends(d, "error")
  /\ UNCHANGED <<sent, ended, open, main, result, errCh>>

Send_Unbuffered(d) ==
  /\ gpc[d] = "send" /\ main = "wait" /\ errCh = <<>>
  /\ errCh' = Append(errCh, gerr[d])
  /\ gpc' = [gpc EXCEPT ![d] = "done"]
  /\ UNCHANGED <<sent, ended, open, main, result, gerr, next, passed>>

Send(d) ==
  /\ gpc[d] = "send" /\ Len(errCh) < 2
  /\ errCh' = Append(errCh, gerr[d])
  /\ gpc' = [gpc EXCEPT ![d] = "done"]
  /\ UNCHANGED <<sent, ended, open, main, result, gerr, next, passed>>

-----------------------------------------------------------------------------

Copy(d) == CopyRead(d) \/ CopyWrite(d) \/ Send(d)

Next ==
  \/ \E p \in Peers : PeerSends(p) \/ PeerEnds(p)
  \/ Dial \/ FirstResult \/ WorkerCloses
  \/ \E d \in Directions : Copy(d)

Spec == Init /\ [][Next]_vars

\* Goroutines run.  The peers do as they like; in particular a write may wait
\* for ever for a peer that does not read, but not once our end is closed.
FairSpec ==
  /\ Spec
  /\ WF_vars(FirstResult) /\ WF_vars(WorkerCloses)
  /\ \A d \in Directions : /\ WF_vars(CopyRead(d))
                           /\ WF_vars(CopyWrite(d) /\ ~ open[Dst(d)])
                           /\ WF_vars(Send(d))

-----------------------------------------------------------------------------
(* Properties.                                                             *)

\* Type correctness; no more is read than was sent.
TypeOK ==
  /\ sent \in [Peers -> 0..MaxChunks]
  /\ ended \in [Peers -> {"no", "fin", "reset"}]
  /\ open \in [Peers -> BOOLEAN]
  /\ main \in {"dial", "wait", "returned", "closed"}
  /\ result \in {"none", "nil", "error"}
  /\ gpc \in [Directions -> {"none", "read", "write", "send", "done"}]
  /\ gerr \in [Directions -> {"nil", "error"}]
  /\ next \in [Directions -> 1..(MaxChunks + 1)]
  /\ passed \in [Directions -> Seq(1..MaxChunks)]
  /\ errCh \in Seq({"nil", "error"})

\* Each side is given what the other side sent, in order and from the first
\* chunk the detection has left unread on.
RelayInOrder ==
  \A d \in Directions : /\ Len(passed[d]) <= sent[Src(d)]
                        /\ \A i \in 1..Len(passed[d]) : passed[d][i] = i

\* When the relay ends without error, at least one direction is complete: the
\* peer that ended got everything across.
NilMeansOneComplete ==
  result = "nil" =>
    \E d \in Directions : ended[Src(d)] = "fin" /\ Len(passed[d]) = sent[Src(d)]

\* Both goroutines end after the handler has returned: the channel takes both
\* results, and the two Closes end both reads.
NoGoroutineLeft == main = "returned" ~> \A d \in Directions : gpc[d] \in {"none", "done"}

\* What the documentation's version of handleFallback does: it returns when
\* the server's answer has been copied to its end, unless a connection fails.
AnswerComplete ==
  main = "closed" /\ result = "nil" =>
    ended["server"] = "fin" /\ Len(passed["down"]) = sent["server"]
=============================================================================
