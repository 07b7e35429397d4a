------------------------ MODULE OutboundRelay_proofs ------------------------
(***************************************************************************)
(* Proofs about OutboundRelay, for any number of chunks.                   *)
(***************************************************************************)
EXTENDS OutboundRelay, TLAPS

SourceEnded(t) == IF t = "request" THEN uplink # "open" ELSE server = "fin"

\* A task that has come to the end of its source, and one Run has a permit of.
Succeeded(t) == tpc[t] = "done" /\ terr[t] = "nil"
Finished(t) == tpc[t] \in {"close", "signal"} \/ Succeeded(t)
Permit(t) == IF Succeeded(t) THEN 1 ELSE 0

\* Where a task is, and what it has passed on.
TaskInv(t) ==
  /\ Len(passed[t]) + 1 <= next[t] /\ next[t] <= sent[t] + 1
  /\ \A i \in 1..Len(passed[t]) : passed[t][i] = i
  /\ tpc[t] \in {"none", "read", "close", "signal"} => next[t] = Len(passed[t]) + 1 /\ terr[t] = "nil"
  /\ tpc[t] = "write" => next[t] = Len(passed[t]) + 2 /\ terr[t] = "nil"
  /\ tpc[t] = "send" => terr[t] # "nil"
  /\ Finished(t) => Len(passed[t]) = sent[t] /\ SourceEnded(t)

\* There has been no connection.
Unconnected ==
  ~ conn /\ sent["response"] = 0 /\ \A t \in Tasks : tpc[t] = "none" /\ passed[t] = <<>>

\* The permits, taken or not, are those of the tasks that succeeded.
OutboundInv ==
  /\ TypeOK
  /\ main = "dial" \/ result = "eof" => Unconnected
  /\ main \in {"dial", "wait"} => result = "none"
  /\ main \notin {"dial", "wait"} => result # "none"
  /\ \A t \in Tasks : TaskInv(t)
  /\ token + got = Permit("request") + Permit("response")
  /\ result = "nil" => Succeeded("request") /\ Succeeded("response")
  /\ downlink = "closed" => Finished("response") \/ result \in {"cancelled", "eof"}

\* What the type invariant says of one task.
LEMMA Types ==
  ASSUME TypeOK
  PROVE  /\ MaxChunks \in Nat
         /\ \A t \in Tasks : sent[t] \in 0..MaxChunks /\ next[t] \in 1..(MaxChunks + 1)
                             /\ passed[t] \in Seq(1..MaxChunks) /\ Len(passed[t]) \in Nat
<1>1. /\ sent \in [Tasks -> 0..MaxChunks] /\ next \in [Tasks -> 1..(MaxChunks + 1)]
      /\ passed \in [Tasks -> Seq(1..MaxChunks)]
  BY Zenon DEF TypeOK
<1> QED BY <1>1, OutboundAssumption

\* An outbound connection that has just begun.
LEMMA OutboundInit == Init => OutboundInv
<1> SUFFICES ASSUME Init PROVE OutboundInv
  BY Zenon
<1>1. TypeOK
  <2>1. /\ sent \in [Tasks -> 0..MaxChunks] /\ next \in [Tasks -> 1..(MaxChunks + 1)]
        /\ passed \in [Tasks -> Seq(1..MaxChunks)] /\ token \in 0..2 /\ got \in 0..2
        /\ done \in Seq({"error", "pipe"}) /\ Len(done) <= 1
    BY OutboundAssumption DEF Init
  <2>2. taken \in 0..Len(passed["response"])
    BY DEF Init, Tasks
  <2> QED BY Zenon, <2>1, <2>2 DEF Init, TypeOK, Results
<1>2. \A t \in Tasks : tpc[t] = "none" /\ terr[t] = "nil" /\ next[t] = 1 /\ passed[t] = <<>> /\ sent[t] = 0
  BY Zenon DEF Init
<1>3. \A t \in Tasks : ~ Finished(t) /\ Permit(t) = 0
  BY Zenon, <1>2 DEF Finished, Succeeded, Permit
<1>4. \A t \in Tasks : TaskInv(t)
  BY <1>2, <1>3 DEF TaskInv
<1>5. token + got = Permit("request") + Permit("response")
  BY Zenon, <1>3 DEF Init, Tasks
<1>6. Unconnected
  BY Zenon, <1>2 DEF Init, Unconnected, Tasks
<1>7. TypeOK /\ (\A t \in Tasks : TaskInv(t)) /\ main = "dial" /\ result = "none" /\ downlink = "open"
  BY Zenon, <1>1, <1>4 DEF Init
<1> QED BY Zenon, <1>5, <1>6, <1>7 DEF OutboundInv

\* A task that does not move keeps its invariant while its source only grows,
\* and no more once the task is finished.
LEMMA TaskKept ==
  ASSUME OutboundInv, NEW t \in Tasks, UNCHANGED tasks,
         sent'[t] \in Nat, sent'[t] >= sent[t],
         SourceEnded(t) => SourceEnded(t)' /\ sent'[t] = sent[t]
  PROVE  TaskInv(t)'
<1>1. tpc' = tpc /\ terr' = terr /\ next' = next /\ passed' = passed
  BY Zenon DEF tasks
<1>2. sent[t] \in Nat /\ next[t] \in Nat /\ Len(passed[t]) \in Nat
  BY Types DEF OutboundInv
<1>3. Finished(t)' <=> Finished(t)
  BY Zenon, <1>1 DEF Finished, Succeeded
<1>4. TaskInv(t)
  BY Zenon DEF OutboundInv
<1> QED BY <1>1, <1>2, <1>3, <1>4 DEF TaskInv

\* The inbound, the server and the context.
LEMMA EnvironmentStep ==
  ASSUME OutboundInv, Environment
  PROVE  OutboundInv'
<1>1. UNCHANGED <<downlink, conn, main, result, tasks, run>>
  BY Zenon
     DEF Environment, InboundWrites, InboundCloses, InboundReads, ServerSends, ServerEnds, Cancel, pipes
<1>2. UNCHANGED <<tpc, terr, next, passed, token, got, done>>
  BY Zenon, <1>1 DEF tasks, run
<1>3. MaxChunks \in Nat /\ sent \in [Tasks -> 0..MaxChunks] /\ Len(passed["response"]) \in Nat
  BY Zenon, Types DEF OutboundInv, TypeOK, Tasks
<1>4. /\ sent' \in [Tasks -> 0..MaxChunks]
      /\ \A t \in Tasks : sent'[t] >= sent[t]
  BY <1>3
     DEF Environment, InboundWrites, InboundCloses, InboundReads, ServerSends, ServerEnds, Cancel
<1>5. \A t \in Tasks : SourceEnded(t) => SourceEnded(t)' /\ sent'[t] = sent[t]
  BY Zenon, <1>3
     DEF SourceEnded, Tasks, Environment, InboundWrites, InboundCloses, InboundReads, ServerSends,
              ServerEnds, Cancel, pipes
<1>6. /\ uplink' \in {"open", "closed", "interrupted"} /\ taken' \in 0..Len(passed["response"])
      /\ server' \in {"open", "fin", "reset"} /\ cancelled' \in BOOLEAN
  <2>1. /\ uplink \in {"open", "closed", "interrupted"} /\ taken \in 0..Len(passed["response"])
        /\ server \in {"open", "fin", "reset"} /\ cancelled \in BOOLEAN
    BY Zenon DEF OutboundInv, TypeOK
  <2>2. CASE InboundReads
    BY <1>3, <2>1, <2>2 DEF InboundReads
  <2>3. CASE ~ InboundReads
    BY Zenon, <2>1, <2>3
       DEF Environment, InboundWrites, InboundCloses, ServerSends, ServerEnds, Cancel, pipes
  <2> QED BY Zenon, <2>2, <2>3
<1>7. TypeOK'
  BY Zenon, <1>1, <1>2, <1>4, <1>6 DEF OutboundInv, TypeOK
<1>8. ASSUME NEW t \in Tasks PROVE TaskInv(t)'
  BY <1>1, <1>3, <1>4, <1>5, TaskKept
<1>9. \A t \in Tasks : /\ Succeeded(t)' <=> Succeeded(t)
                       /\ Finished(t)' <=> Finished(t)
                       /\ Permit(t)' = Permit(t)
  BY Zenon, <1>2 DEF Finished, Succeeded, Permit
<1>10. Unconnected => Unconnected'
  BY Zenon, <1>1, <1>2, <1>3
     DEF Unconnected, Tasks, Environment, InboundWrites, InboundCloses, InboundReads, ServerSends,
         ServerEnds, Cancel
<1> QED BY Zenon, <1>1, <1>2, <1>7, <1>8, <1>9, <1>10 DEF OutboundInv, Tasks

\* Receiving the error.
LEMMA Receiving ==
  ASSUME NEW S, NEW s \in Seq(S), s # <<>>, Len(s) <= 1
  PROVE  Head(s) \in S /\ Tail(s) \in Seq(S) /\ Len(Tail(s)) <= 1
<1>1. Len(s) \in Nat /\ Len(s) # 0
  OBVIOUS
<1>2. Head(s) = s[1] /\ s[1] \in S
  BY <1>1
<1>3. Tail(s) \in Seq(S) /\ Len(Tail(s)) = Len(s) - 1
  BY <1>1
<1> QED BY <1>1, <1>2, <1>3

\* A sequence of one element.
LEMMA Single == ASSUME NEW S, NEW e \in S PROVE <<e>> \in Seq(S) /\ Len(<<e>>) = 1
OBVIOUS

\* Taking a permit.
LEMMA Taking ==
  ASSUME NEW k \in 0..2, NEW g \in 0..2, k > 0, k + g <= 2
  PROVE  /\ k - 1 \in 0..2 /\ g + 1 \in 0..2 /\ (k - 1) + (g + 1) = k + g
         /\ \A a, b \in {0, 1} : k + g = a + b /\ g + 1 = 2 => a = 1 /\ b = 1
OBVIOUS

\* Process, task.Run and Dispatch.
LEMMA DispatchStep ==
  ASSUME OutboundInv, Dispatch
  PROVE  OutboundInv'
<1>1. UNCHANGED <<sent, taken, server, cancelled, terr, next, passed>>
  BY Zenon DEF Dispatch, Dial, RunSelects, EndWriter, EndReader, pipes, tasks
<1>2. \A t \in Tasks : sent'[t] \in Nat /\ sent'[t] >= sent[t]
  BY <1>1, Types DEF OutboundInv
<1>3. CASE Dial
  <2>1. /\ UNCHANGED <<uplink, downlink, token, got, done>> /\ downlink # "closed"
        /\ \/ main' = "wait" /\ result' = "none"
           \/ main' = "returned" /\ result' \in {"error", "eof", "pipe", "cancelled"} /\ Unconnected'
        /\ conn' \in BOOLEAN
    <3>1. UNCHANGED <<uplink, downlink, token, got, done>> /\ main = "dial"
      BY Zenon, <1>3 DEF Dial, pipes, run
    <3>2. result = "none" /\ Unconnected /\ tpc["response"] = "none"
      BY Zenon, <3>1 DEF OutboundInv, Unconnected, Tasks
    <3>3. downlink # "closed"
      BY Zenon, <3>2 DEF OutboundInv, Finished, Succeeded
    <3>4. conn' \in BOOLEAN
      BY Zenon, <1>3 DEF Dial, OutboundInv, TypeOK
    <3>5. \/ main' = "wait" /\ result' = result
          \/ main' = "returned" /\ result' \in DialErrors /\ conn' = conn /\ tpc' = tpc
      BY Zenon, <1>3 DEF Dial
    <3>6. DialErrors \subseteq {"error", "eof", "pipe", "cancelled"}
      BY Zenon DEF DialErrors
    <3>7. ASSUME conn' = conn, tpc' = tpc PROVE Unconnected'
      <4>1. sent' = sent /\ passed' = passed
        BY Zenon, <1>1
      <4> QED BY Zenon, <3>2, <3>7, <4>1 DEF Unconnected
    <3> QED BY Zenon, <3>1, <3>2, <3>3, <3>4, <3>5, <3>6, <3>7
  <2>2. /\ tpc' \in [Tasks -> {"none", "read", "write", "close", "signal", "send", "done"}]
        /\ \A t \in Tasks : tpc[t] = "none" /\ tpc'[t] \in {"none", "read"}
    BY Zenon, <1>3 DEF Dial, OutboundInv, Unconnected, TypeOK
  <2>3. TypeOK'
    BY Zenon, <1>1, <2>1, <2>2 DEF OutboundInv, TypeOK, Results
  <2>4. \A t \in Tasks : ~ Finished(t)' /\ ~ Succeeded(t)' /\ ~ Succeeded(t)
    BY Zenon, <2>2 DEF Finished, Succeeded
  <2>5. \A t \in Tasks : TaskInv(t)'
    BY Zenon, <1>1, <2>2, <2>4 DEF OutboundInv, TaskInv
  <2>6. token' + got' = Permit("request")' + Permit("response")'
    BY Zenon, <2>1, <2>4 DEF OutboundInv, Permit, Tasks
  <2>7. main' # "dial" /\ (result' = "eof" => Unconnected')
    BY Zenon, <2>1
  <2> QED BY Zenon, <2>1, <2>3, <2>5, <2>6, <2>7 DEF OutboundInv
<1>4. ASSUME UNCHANGED tpc
      PROVE  /\ \A t \in Tasks : /\ Succeeded(t)' <=> Succeeded(t)
                                 /\ Finished(t)' <=> Finished(t)
             /\ Permit("request")' = Permit("request") /\ Permit("response")' = Permit("response")
  BY Zenon, <1>1, <1>4 DEF Succeeded, Finished, Permit
<1>5. ASSUME UNCHANGED tpc, uplink # "open" => uplink' # "open", NEW t \in Tasks
      PROVE  TaskInv(t)'
  <2>1. UNCHANGED tasks
    BY Zenon, <1>1, <1>5 DEF tasks
  <2>2. SourceEnded(t) => SourceEnded(t)' /\ sent'[t] = sent[t]
    BY Zenon, <1>1, <1>5 DEF SourceEnded
  <2> QED BY Zenon, <1>2, <2>1, <2>2, TaskKept
<1>6. CASE RunSelects
  <2>1. UNCHANGED <<uplink, downlink, tpc>> /\ main = "wait"
    BY Zenon, <1>6 DEF RunSelects, pipes, tasks
  <2>2. done \in Seq({"error", "pipe"}) /\ Len(done) <= 1 /\ token \in 0..2 /\ got \in 0..2
    BY Zenon DEF OutboundInv, TypeOK
  <2>3. Permit("request") \in {0, 1} /\ Permit("response") \in {0, 1}
        /\ token + got = Permit("request") + Permit("response")
    BY Zenon DEF Permit, OutboundInv
  <2>4. CASE /\ done # <<>> /\ done' = Tail(done) /\ result' = Head(done) /\ main' = "returned"
             /\ conn' = FALSE /\ UNCHANGED <<token, got>>
    <3>1. /\ result' \in {"error", "pipe"} /\ done' \in Seq({"error", "pipe"})
          /\ Len(done') <= 1
      <4>1. done # <<>> /\ done' = Tail(done) /\ result' = Head(done)
        BY Zenon, <2>4
      <4> QED BY Zenon, <2>2, <4>1, Receiving
    <3>2. TypeOK'
      BY Zenon, <1>1, <2>1, <2>4, <3>1 DEF OutboundInv, TypeOK, Results
    <3> QED BY Zenon, <1>4, <1>5, <2>1, <2>4, <3>1, <3>2 DEF OutboundInv, Tasks
  <2>5. CASE /\ cancelled /\ result' = "cancelled" /\ main' = "returned" /\ conn' = FALSE
             /\ UNCHANGED run
    <3>1. UNCHANGED <<token, got, done>>
      BY Zenon, <2>5 DEF run
    <3>2. TypeOK'
      BY Zenon, <1>1, <2>1, <2>5, <3>1 DEF OutboundInv, TypeOK, Results
    <3> QED BY Zenon, <1>4, <1>5, <2>1, <2>5, <3>1, <3>2 DEF OutboundInv, Tasks
  <2>6. CASE /\ token > 0 /\ token' = token - 1 /\ got' = got + 1 /\ UNCHANGED done
             /\ IF Collected THEN result' = "nil" /\ main' = "returned" /\ conn' = FALSE
                             ELSE UNCHANGED <<result, main, conn>>
    <3>0. token + got <= 2
      BY <2>3
    <3>1. token' \in 0..2 /\ got' \in 0..2 /\ token' + got' = token + got
      BY Zenon, <3>0, <2>2, <2>6, Taking
    <3>2. Collected => Permit("request") = 1 /\ Permit("response") = 1
      <4>1. token > 0
        BY Zenon, <2>6
      <4>2. \A a, b \in {0, 1} : token + got = a + b /\ got + 1 = 2 => a = 1 /\ b = 1
        BY <2>2, <3>0, <4>1, Taking
      <4> QED BY Zenon, <2>3, <4>2 DEF Collected
    <3>3. Collected => Succeeded("request") /\ Succeeded("response")
      BY <3>2 DEF Permit
    <3>4. \/ result' = "nil" /\ main' = "returned" /\ Collected
          \/ result' = result /\ main' = main
      BY Zenon, <2>6
    <3>5. conn' \in BOOLEAN
      BY Zenon, <2>6 DEF OutboundInv, TypeOK
    <3>6. TypeOK'
      BY Zenon, <1>1, <2>1, <2>6, <3>1, <3>4, <3>5 DEF OutboundInv, TypeOK, Results
    <3>7. result = "none"
      BY Zenon, <2>1 DEF OutboundInv
    <3> QED BY Zenon, <1>4, <1>5, <2>1, <2>6, <3>1, <3>3, <3>4, <3>6, <3>7 DEF OutboundInv, Tasks
  <2> QED BY Zenon, <1>6, <2>4, <2>5, <2>6 DEF RunSelects
<1>7. CASE EndWriter
  <2>1. UNCHANGED <<uplink, tpc, conn, result, token, got, done>> /\ main = "returned" /\ main' = "writer"
    BY Zenon, <1>7 DEF EndWriter, tasks, run
  <2>2. /\ downlink' \in {"open", "closed", "interrupted"}
        /\ downlink' = "closed" => downlink = "closed" \/ result \in {"nil", "cancelled", "eof"}
    <3>1. result \in Results /\ result # "none"
      BY Zenon, <2>1 DEF OutboundInv, TypeOK
    <3> QED BY Zenon, <1>7, <3>1 DEF EndWriter, Interrupted, OutboundInv, TypeOK, Results
  <2>3. TypeOK'
    BY Zenon, <1>1, <2>1, <2>2 DEF OutboundInv, TypeOK
  <2>4. result = "nil" => Finished("response")
    BY Zenon DEF OutboundInv, Finished
  <2>5. Unconnected => Unconnected'
    BY Zenon, <1>1, <2>1 DEF Unconnected
  <2> QED BY Zenon, <1>4, <1>5, <2>1, <2>2, <2>3, <2>4, <2>5 DEF OutboundInv, Tasks
<1>8. CASE EndReader
  <2>1. UNCHANGED <<downlink, tpc, conn, result, token, got, done>> /\ main = "writer" /\ main' = "finished"
    BY Zenon, <1>8 DEF EndReader, tasks, run
  <2>2. uplink' \in {"closed", "interrupted"}
    BY Zenon, <1>8 DEF EndReader, Interrupted
  <2>3. TypeOK'
    BY Zenon, <1>1, <2>1, <2>2 DEF OutboundInv, TypeOK
  <2>4. Unconnected => Unconnected'
    BY Zenon, <1>1, <2>1 DEF Unconnected
  <2> QED BY Zenon, <1>4, <1>5, <2>1, <2>2, <2>3, <2>4 DEF OutboundInv, Tasks
<1> QED BY Zenon, <1>3, <1>6, <1>7, <1>8 DEF Dispatch

\* What a step of task t owes: the other task and Run's side stay as they are.
LEMMA OneTask ==
  ASSUME OutboundInv, NEW t \in Tasks, UNCHANGED <<sent, uplink, taken, server, conn, cancelled, main, result, got>>,
         TypeOK', TaskInv(t)', main # "dial", result # "eof",
         \A x \in Tasks \ {t} : /\ tpc'[x] = tpc[x] /\ terr'[x] = terr[x]
                                /\ next'[x] = next[x] /\ passed'[x] = passed[x],
         Succeeded(t) => Succeeded(t)',
         Finished(t) => Finished(t)',
         \/ token' = token /\ (Succeeded(t)' <=> Succeeded(t))
         \/ token' = token + 1 /\ Succeeded(t)' /\ ~ Succeeded(t),
         downlink' = "closed" => downlink = "closed" \/ (t = "response" /\ Finished(t)')
  PROVE  OutboundInv'
<1>1. ASSUME NEW x \in Tasks \ {t}
      PROVE  /\ Finished(x)' <=> Finished(x)
             /\ Succeeded(x)' <=> Succeeded(x)
             /\ Permit(x)' = Permit(x)
  BY Zenon, <1>1 DEF Finished, Succeeded, Permit
<1>2. ASSUME NEW x \in Tasks \ {t} PROVE TaskInv(x)'
  <2>1. TaskInv(x)
    BY Zenon DEF OutboundInv
  <2>2. SourceEnded(x)' <=> SourceEnded(x)
    BY Zenon DEF SourceEnded
  <2> QED BY <1>1, <2>1, <2>2 DEF TaskInv
<1>3. token \in Nat /\ got \in Nat /\ Permit("request") \in Nat /\ Permit("response") \in Nat
  <2>1. token \in 0..2 /\ got \in 0..2
    BY Zenon DEF OutboundInv, TypeOK
  <2>2. Permit("request") \in {0, 1} /\ Permit("response") \in {0, 1}
    BY Zenon DEF Permit
  <2> QED BY <2>1, <2>2
<1>4. token + got = Permit("request") + Permit("response")
  BY Zenon DEF OutboundInv
<1>5. \/ token' = token /\ Permit(t)' = Permit(t)
      \/ token' = token + 1 /\ Permit(t)' = Permit(t) + 1
  BY DEF Permit
<1>6. token' + got' = Permit("request")' + Permit("response")'
  <2>1. CASE t = "request"
    <3>1. Permit("response")' = Permit("response")
      BY Zenon, <1>1, <2>1 DEF Tasks
    <3> QED BY <1>3, <1>4, <1>5, <2>1, <3>1
  <2>2. CASE t = "response"
    <3>1. Permit("request")' = Permit("request")
      BY Zenon, <1>1, <2>2 DEF Tasks
    <3> QED BY <1>3, <1>4, <1>5, <2>2, <3>1
  <2> QED BY Zenon, <2>1, <2>2 DEF Tasks
<1>7. \A x \in Tasks : TaskInv(x)' /\ (Succeeded(x) => Succeeded(x)') /\ (Finished(x) => Finished(x)')
  BY Zenon, <1>1, <1>2
<1>8. result' = "nil" => Succeeded("request")' /\ Succeeded("response")'
  BY Zenon, <1>7 DEF OutboundInv, Tasks
<1>9. downlink' = "closed" => Finished("response")' \/ result' \in {"cancelled", "eof"}
  BY Zenon, <1>7 DEF OutboundInv, Tasks
<1> QED BY Zenon, <1>6, <1>7, <1>8, <1>9 DEF OutboundInv

\* The copies, the close of the downlink and the ends of the tasks.
LEMMA TaskStep ==
  ASSUME OutboundInv, NEW t \in Tasks,
         CopyReads(t) \/ CopyWrites(t) \/ TaskEnds(t) \/ (t = "response" /\ CloseDownlink)
  PROVE  OutboundInv'
<1>1. /\ UNCHANGED <<sent, uplink, taken, server, conn, cancelled, main, result, got>>
      /\ tpc[t] \notin {"none", "done"}
  BY Zenon DEF CopyReads, CopyWrites, TaskEnds, CloseDownlink, pipes, run
<1>2. main # "dial" /\ result # "eof" /\ ~ Succeeded(t)
  BY Zenon, <1>1 DEF OutboundInv, Unconnected, Succeeded
<1>3. /\ MaxChunks \in Nat /\ sent[t] \in 0..MaxChunks /\ next[t] \in 1..(MaxChunks + 1)
      /\ passed[t] \in Seq(1..MaxChunks) /\ Len(passed[t]) \in Nat
  BY Zenon, Types DEF OutboundInv
<1>4. TaskInv(t)
  BY Zenon DEF OutboundInv
<1>5. SourceEnded(t)' <=> SourceEnded(t)
  BY Zenon, <1>1 DEF SourceEnded
<1>6. /\ tpc \in [Tasks -> {"none", "read", "write", "close", "signal", "send", "done"}]
      /\ terr \in [Tasks -> {"nil", "error", "pipe"}]
      /\ next \in [Tasks -> 1..(MaxChunks + 1)] /\ passed \in [Tasks -> Seq(1..MaxChunks)]
      /\ downlink \in {"open", "closed", "interrupted"}
  BY Zenon DEF OutboundInv, TypeOK
<1>7. CASE /\ tpc[t] \in {"read", "write"} /\ UNCHANGED <<downlink, token, done>>
           /\ \E e \in {"error", "pipe"} : Fails(t, e)
  <2>1. PICK e \in {"error", "pipe"} : Fails(t, e)
    BY Zenon, <1>7
  <2>2. /\ tpc' = [tpc EXCEPT ![t] = "send"] /\ terr' = [terr EXCEPT ![t] = e]
        /\ UNCHANGED <<next, passed>>
    BY Zenon, <2>1 DEF Fails
  <2>3. TypeOK'
    BY Zenon, <1>1, <1>7, <2>2 DEF OutboundInv, TypeOK
  <2>4. tpc'[t] = "send" /\ terr'[t] = e
        /\ \A x \in Tasks \ {t} : tpc'[x] = tpc[x] /\ terr'[x] = terr[x]
    BY Zenon, <1>6, <2>2
  <2>5. ~ Finished(t)' /\ ~ Succeeded(t)' /\ ~ Finished(t)
    BY Zenon, <1>2, <1>7, <2>4 DEF Finished, Succeeded
  <2>6. TaskInv(t)'
    BY Zenon, <1>1, <1>4, <2>2, <2>4, <2>5 DEF TaskInv
  <2> QED BY Zenon, <1>1, <1>2, <1>7, <2>2, <2>3, <2>4, <2>5, <2>6, OneTask
<1>8. CASE /\ tpc[t] = "read" /\ next[t] <= sent[t] /\ tpc' = [tpc EXCEPT ![t] = "write"]
           /\ next' = [next EXCEPT ![t] = @ + 1]
           /\ UNCHANGED <<terr, passed, downlink, token, done>>
  <2>1. next[t] + 1 \in 1..(MaxChunks + 1)
    BY <1>3, <1>8
  <2>2. /\ tpc' \in [Tasks -> {"none", "read", "write", "close", "signal", "send", "done"}]
        /\ next' \in [Tasks -> 1..(MaxChunks + 1)]
        /\ tpc'[t] = "write" /\ next'[t] = next[t] + 1
        /\ \A x \in Tasks \ {t} : tpc'[x] = tpc[x] /\ next'[x] = next[x]
    BY Zenon, <1>6, <1>8, <2>1
  <2>3. TypeOK'
    BY Zenon, <1>1, <1>8, <2>2 DEF OutboundInv, TypeOK
  <2>4. ~ Finished(t)' /\ ~ Succeeded(t)' /\ ~ Finished(t)
    BY Zenon, <1>2, <1>8, <2>2 DEF Finished, Succeeded
  <2>5. next[t] = Len(passed[t]) + 1 /\ terr[t] = "nil" /\ \A i \in 1..Len(passed[t]) : passed[t][i] = i
    BY Zenon, <1>4, <1>8 DEF TaskInv
  <2>6. next[t] + 1 = Len(passed[t]) + 2 /\ Len(passed[t]) + 1 <= next[t] + 1 /\ next[t] + 1 <= sent[t] + 1
    BY <1>3, <1>8, <2>5
  <2>7. TaskInv(t)'
    BY Zenon, <1>1, <1>8, <2>2, <2>4, <2>5, <2>6 DEF TaskInv
  <2> QED BY Zenon, <1>1, <1>2, <1>8, <2>2, <2>3, <2>4, <2>7, OneTask
<1>9. CASE /\ tpc[t] = "read" /\ next[t] > sent[t] /\ SourceEnded(t)
           /\ tpc' = [tpc EXCEPT ![t] = IF t = "response" THEN "close" ELSE "signal"]
           /\ UNCHANGED <<terr, next, passed, downlink, token, done>>
  <2>1. /\ tpc' \in [Tasks -> {"none", "read", "write", "close", "signal", "send", "done"}]
        /\ tpc'[t] \in {"close", "signal"} /\ \A x \in Tasks \ {t} : tpc'[x] = tpc[x]
    BY Zenon, <1>6, <1>9
  <2>2. TypeOK'
    BY Zenon, <1>1, <1>9, <2>1 DEF OutboundInv, TypeOK
  <2>3. ~ Succeeded(t)' /\ ~ Finished(t)
    BY Zenon, <1>2, <1>9, <2>1 DEF Finished, Succeeded
  <2>4. next[t] = Len(passed[t]) + 1 /\ terr[t] = "nil" /\ next[t] <= sent[t] + 1
    BY Zenon, <1>4, <1>9 DEF TaskInv
  <2>5. Len(passed[t]) = sent[t]
    BY <1>3, <1>9, <2>4
  <2>6. TaskInv(t)'
    BY Zenon, <1>1, <1>4, <1>5, <1>9, <2>1, <2>4, <2>5 DEF TaskInv
  <2> QED BY Zenon, <1>1, <1>2, <1>9, <2>1, <2>2, <2>3, <2>6, OneTask
<1>10. CASE /\ tpc[t] = "write" /\ passed' = [passed EXCEPT ![t] = Append(@, next[t] - 1)]
            /\ tpc' = [tpc EXCEPT ![t] = "read"]
            /\ UNCHANGED <<terr, next, downlink, token, done>>
  <2> DEFINE p == Append(passed[t], next[t] - 1)
  <2>1. next[t] = Len(passed[t]) + 2 /\ terr[t] = "nil" /\ next[t] <= sent[t] + 1
        /\ \A i \in 1..Len(passed[t]) : passed[t][i] = i
    BY Zenon, <1>4, <1>10 DEF TaskInv
  <2>2. next[t] - 1 \in 1..MaxChunks /\ next[t] - 1 = Len(passed[t]) + 1
    BY <1>3, <2>1
  <2>3. /\ p \in Seq(1..MaxChunks) /\ Len(p) = Len(passed[t]) + 1
        /\ p[Len(passed[t]) + 1] = next[t] - 1 /\ \A i \in 1..Len(passed[t]) : p[i] = passed[t][i]
    BY <1>3, <2>2
  <2>4. \A i \in 1..Len(p) : p[i] = i
    BY <1>3, <2>1, <2>2, <2>3
  <2>5. /\ tpc' \in [Tasks -> {"none", "read", "write", "close", "signal", "send", "done"}]
        /\ passed' \in [Tasks -> Seq(1..MaxChunks)]
        /\ tpc'[t] = "read" /\ passed'[t] = p
        /\ \A x \in Tasks \ {t} : tpc'[x] = tpc[x] /\ passed'[x] = passed[x]
    BY Zenon, <1>6, <1>10, <2>3
  <2> HIDE DEF p
  <2>6. TypeOK'
    <3>1. taken \in 0..Len(passed["response"])
      BY Zenon DEF OutboundInv, TypeOK
    <3>2. taken \in 0..Len(passed'["response"])
      BY SMTT(30), <1>3, <2>3, <2>5, <3>1 DEF Tasks
    <3> QED BY Zenon, <1>1, <1>10, <2>5, <3>2 DEF OutboundInv, TypeOK
  <2>7. ~ Finished(t)' /\ ~ Succeeded(t)' /\ ~ Finished(t)
    BY Zenon, <1>2, <1>10, <2>5 DEF Finished, Succeeded
  <2>8. next[t] = Len(p) + 1
    BY <1>3, <2>1, <2>3
  <2>9. TaskInv(t)'
    BY <1>1, <1>10, <2>1, <2>4, <2>5, <2>7, <2>8, <1>3 DEF TaskInv
  <2> QED BY Zenon, <1>1, <1>2, <1>10, <2>5, <2>6, <2>7, <2>9, OneTask
<1>11. CASE t = "response" /\ CloseDownlink
  <2>1. /\ tpc[t] = "close" /\ tpc' = [tpc EXCEPT ![t] = "signal"]
        /\ downlink' \in {"open", "closed", "interrupted"}
        /\ UNCHANGED <<terr, next, passed, token, done>>
    BY Zenon, <1>6, <1>11 DEF CloseDownlink, run
  <2>2. /\ tpc' \in [Tasks -> {"none", "read", "write", "close", "signal", "send", "done"}]
        /\ tpc'[t] = "signal" /\ \A x \in Tasks \ {t} : tpc'[x] = tpc[x]
    BY Zenon, <1>6, <2>1
  <2>3. TypeOK'
    BY Zenon, <1>1, <2>1, <2>2 DEF OutboundInv, TypeOK
  <2>4. Finished(t) /\ Finished(t)' /\ ~ Succeeded(t)'
    BY Zenon, <2>1, <2>2 DEF Finished, Succeeded
  <2>5. TaskInv(t)'
    BY Zenon, <1>1, <1>4, <1>5, <2>1, <2>2, <2>4 DEF TaskInv
  <2> QED BY Zenon, <1>1, <1>2, <1>11, <2>1, <2>2, <2>3, <2>4, <2>5, OneTask
<1>12. CASE TaskEnds(t)
  <2>1. /\ tpc[t] \in {"signal", "send"} /\ tpc' = [tpc EXCEPT ![t] = "done"]
        /\ token' = IF tpc[t] = "signal" THEN token + 1 ELSE token
        /\ done' = IF tpc[t] = "send" /\ done = <<>> THEN <<terr[t]>> ELSE done
        /\ UNCHANGED <<terr, next, passed, downlink>>
    BY Zenon, <1>12 DEF TaskEnds, pipes
  <2>2. /\ tpc' \in [Tasks -> {"none", "read", "write", "close", "signal", "send", "done"}]
        /\ tpc'[t] = "done" /\ \A x \in Tasks \ {t} : tpc'[x] = tpc[x]
    BY Zenon, <1>6, <2>1
  <2>3. /\ tpc[t] = "signal" => terr[t] = "nil" /\ Finished(t)
        /\ tpc[t] = "send" => terr[t] \in {"error", "pipe"} /\ ~ Finished(t)
    BY Zenon, <1>2, <1>4, <1>6 DEF TaskInv, Finished, Succeeded
  <2>4. (Succeeded(t)' <=> tpc[t] = "signal") /\ (Finished(t)' <=> tpc[t] = "signal")
    BY Zenon, <2>1, <2>2, <2>3 DEF Finished, Succeeded
  <2>5. done' \in Seq({"error", "pipe"}) /\ Len(done') <= 1
    <3>1. done \in Seq({"error", "pipe"}) /\ Len(done) <= 1
      BY Zenon DEF OutboundInv, TypeOK
    <3>2. CASE tpc[t] = "send"
      <4>1. terr[t] \in {"error", "pipe"} /\ done' \in {done, <<terr[t]>>}
        BY Zenon, <2>1, <2>3, <3>2
      <4>2. <<terr[t]>> \in Seq({"error", "pipe"}) /\ Len(<<terr[t]>>) = 1
        BY Zenon, <4>1, Single
      <4> DEFINE e == <<terr[t]>>
      <4> HIDE DEF e
      <4>3. e \in Seq({"error", "pipe"}) /\ Len(e) <= 1
        <5>1. Len(e) = 1
          BY <4>2, Zenon DEF e
        <5>2. e \in Seq({"error", "pipe"})
          BY <4>2, Zenon DEF e
        <5>3. Len(e) <= 1
          BY <5>1
        <5> QED BY <5>2, <5>3, Zenon
      <4>4. done' = done \/ done' = e
        BY <4>1, Zenon DEF e
      <4> QED BY <3>1, <4>3, <4>4, Zenon
    <3>3. CASE tpc[t] # "send"
      BY Zenon, <2>1, <3>1, <3>3
    <3> QED BY Zenon, <3>2, <3>3
  <2>6. token' \in 0..2
    <3>1. token \in 0..2 /\ got \in 0..2 /\ token + got = Permit("request") + Permit("response")
      BY Zenon DEF OutboundInv, TypeOK
    <3>2. Permit("request") \in {0, 1} /\ Permit("response") \in {0, 1} /\ Permit(t) = 0
      BY Zenon, <1>2 DEF Permit
    <3>3. token <= 1
      BY <3>1, <3>2 DEF Tasks
    <3> QED BY <2>1, <3>1, <3>3
  <2>7. TypeOK'
    BY Zenon, <1>1, <2>1, <2>2, <2>5, <2>6 DEF OutboundInv, TypeOK
  <2>8. TaskInv(t)'
    BY Zenon, <1>1, <1>4, <1>5, <2>1, <2>2, <2>3, <2>4 DEF TaskInv
  <2>9. CASE tpc[t] = "signal"
    BY Zenon, <1>1, <1>2, <2>1, <2>2, <2>3, <2>4, <2>7, <2>8, <2>9, OneTask
  <2>10. CASE tpc[t] = "send"
    BY Zenon, <1>1, <1>2, <2>1, <2>2, <2>3, <2>4, <2>7, <2>8, <2>10, OneTask
  <2> QED BY Zenon, <2>1, <2>9, <2>10
<1>13. CASE CopyReads(t)
  <2>1. tpc[t] = "read" /\ UNCHANGED <<downlink, token, done>>
    BY Zenon, <1>13 DEF CopyReads, pipes, run
  <2>2. Source(t) = "chunk" => next[t] <= sent[t]
    BY Zenon DEF Source
  <2>3. Source(t) = "eof" => ~ (next[t] <= sent[t]) /\ SourceEnded(t)
    BY Zenon DEF Source, SourceEnded
  <2>4. ~ (next[t] <= sent[t]) => next[t] > sent[t]
    BY <1>3
  <2> QED BY Zenon, <1>7, <1>8, <1>9, <1>13, <2>1, <2>2, <2>3, <2>4 DEF CopyReads
<1>14. CASE CopyWrites(t)
  <2>1. tpc[t] = "write" /\ UNCHANGED <<downlink, token, done>>
    BY Zenon, <1>14 DEF CopyWrites, pipes, run
  <2> QED BY Zenon, <1>7, <1>10, <1>14, <2>1 DEF CopyWrites
<1> QED BY Zenon, <1>11, <1>12, <1>13, <1>14

-----------------------------------------------------------------------------

\* The inductive invariant of the outbound's relay.
THEOREM OutboundInvariant == Spec => []OutboundInv
<1>1. OutboundInv /\ [Next]_vars => OutboundInv'
  <2> SUFFICES ASSUME OutboundInv, [Next]_vars PROVE OutboundInv'
    BY Zenon
  <2>1. CASE UNCHANGED vars
    <3>1. /\ UNCHANGED <<sent, uplink, downlink, taken, server, conn>>
          /\ UNCHANGED <<cancelled, main, result, tpc, terr, next, passed, token, got, done>>
      BY Zenon, <2>1 DEF vars, pipes, tasks, run
    <3>2. TypeOK'
      BY Zenon, <3>1 DEF OutboundInv, TypeOK
    <3>3. \A t \in Tasks : /\ Succeeded(t)' <=> Succeeded(t)
                           /\ Finished(t)' <=> Finished(t)
                           /\ SourceEnded(t)' <=> SourceEnded(t)
                           /\ Permit(t)' = Permit(t)
      BY Zenon, <3>1 DEF Finished, Succeeded, SourceEnded, Permit
    <3>4. ASSUME NEW t \in Tasks PROVE TaskInv(t)'
      BY Zenon, <3>1, <3>3 DEF OutboundInv, TaskInv
    <3>5. Unconnected' <=> Unconnected
      BY Zenon, <3>1 DEF Unconnected
    <3> QED BY Zenon, <3>1, <3>2, <3>3, <3>4, <3>5 DEF OutboundInv, Tasks
  <2>2. CASE Next
    BY Zenon, <2>2, EnvironmentStep, DispatchStep, TaskStep DEF Next, Tasks
  <2> QED BY Zenon, <2>1, <2>2
<1> QED BY <1>1, OutboundInit, PTL DEF Spec

\* A task that has finished without an error has passed on all of its source.
LEMMA FinishedComplete ==
  ASSUME OutboundInv, NEW t \in Tasks, Finished(t)
  PROVE  Complete(t) /\ SourceEnded(t)
<1>1. /\ passed[t] \in Seq(1..MaxChunks) /\ Len(passed[t]) = sent[t] /\ SourceEnded(t)
      /\ \A i \in 1..Len(passed[t]) : passed[t][i] = i
  BY Zenon, Types DEF OutboundInv, TaskInv
<1>2. passed[t] = [i \in 1..Len(passed[t]) |-> passed[t][i]]
  BY <1>1
<1> QED BY Zenon, <1>1, <1>2 DEF Complete

\* Process returns nil only when request and response are complete: task.Run
\* cannot count a permit of a task that failed, nor one twice.
THEOREM NilBothComplete == Spec => []NilMeansBothComplete
<1>1. OutboundInv => NilMeansBothComplete
  <2> SUFFICES ASSUME OutboundInv, result = "nil"
               PROVE  /\ Complete("request") /\ uplink # "open"
                      /\ Complete("response") /\ server = "fin"
    BY Zenon DEF NilMeansBothComplete
  <2>1. Finished("request") /\ Finished("response")
    BY Zenon DEF OutboundInv, Finished
  <2> QED BY Zenon, <2>1, FinishedComplete DEF SourceEnded, Tasks
<1> QED BY <1>1, OutboundInvariant, PTL

\* A closed downlink is the end of a complete response or of the context, or
\* Dial failed with io.EOF: once there is a connection, no failure reaches the
\* inbound as the end of the response.
THEOREM EofTruthful == Spec => []EofIsComplete
<1>1. OutboundInv => EofIsComplete
  <2> SUFFICES ASSUME OutboundInv, downlink = "closed", result # "cancelled"
               PROVE  \/ Complete("response") /\ server = "fin"
                      \/ result = "eof" /\ ~ conn /\ passed["request"] = <<>> /\ sent["response"] = 0
    BY Zenon DEF EofIsComplete
  <2>1. CASE Finished("response")
    BY Zenon, <2>1, FinishedComplete DEF SourceEnded, Tasks
  <2>2. CASE result = "eof"
    BY Zenon, <2>2 DEF OutboundInv, Unconnected, Tasks
  <2> QED BY Zenon, <2>1, <2>2 DEF OutboundInv
<1> QED BY <1>1, OutboundInvariant, PTL
=============================================================================
