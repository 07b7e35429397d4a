-------------------------------- MODULE Pipe --------------------------------
(***************************************************************************)
(* transport/pipe: the bounded buffer between an inbound session and the   *)
(* outbound that serves it.  Writers append under the mutex and signal the *)
(* reader; the reader takes everything there is and signals the writers.   *)
(* Signals are channels of capacity one that are sent to without blocking  *)
(* (common/signal.Notifier).  Waiting is a select outside the mutex, so    *)
(* that every interleaving of trying, signalling and waiting can happen.   *)
(*                                                                         *)
(* A buffer is one item and has size one: items are <<w, k>>, the k-th     *)
(* item of writer w, and a write carries up to MaxWrite of them.           *)
(***************************************************************************)
EXTENDS Integers, Sequences, Functions

CONSTANTS
  Writers,          \* the goroutines that write
  Limits,           \* the limits a pipe may be made with; a negative one is none
  MaxWrite,         \* the largest write, in items
  MaxItems          \* bound on the items of a writer

ASSUME PipeAssumption ==
  /\ Limits \subseteq Int
  /\ MaxWrite \in Nat \ {0}
  /\ MaxItems \in Nat

VARIABLES
  limit,        \* p.option.limit
  discardOverflow,  \* p.option.discardOverflow
  state,        \* p.state: "open", "closed" or "errord"; done is closed with it
  data,         \* p.data
  readSignal,   \* a value is in the channel of p.readSignal
  writeSignal,  \* a value is in the channel of p.writeSignal
  errChan,      \* a value is in p.errChan
  wpc,          \* wpc[w]: where writer w is in WriteMultiBuffer
  mb,           \* mb[w]: what it is writing
  count,        \* count[w]: the items w has tried to write so far
  rpc,          \* where the reader is in ReadMultiBuffer(Timeout)
  timed,        \* whether its call has a timeout
  accepted,     \* history: everything that entered p.data
  received,     \* history: everything that reads returned
  eof,          \* history: a read has returned io.EOF
  acked,        \* history: the items of writes that returned nil
  failed,       \* history: the items of writes that returned an error
  discarded     \* history: the items dropped by discardOverflow

readerVars == <<rpc, timed, received, eof>>
writerVars == <<wpc, mb, count, accepted, acked, failed, discarded>>
signals == <<readSignal, writeSignal, errChan>>
option == <<limit, discardOverflow>>
vars == <<option, state, data, signals, writerVars, readerVars>>

Items == Writers \X (1..MaxItems)

Init ==
  /\ limit \in Limits /\ discardOverflow \in BOOLEAN
  /\ state = "open"
  /\ data = <<>>
  /\ readSignal = FALSE /\ writeSignal = FALSE /\ errChan = FALSE
  /\ wpc = [w \in Writers |-> "idle"]
  /\ mb = [w \in Writers |-> <<>>]
  /\ count = [w \in Writers |-> 0]
  /\ rpc = "idle" /\ timed = FALSE
  /\ accepted = <<>> /\ received = <<>> /\ eof = FALSE
  /\ acked = {} /\ failed = {} /\ discarded = {}

isFull_ZeroIsUnlimited == limit > 0 /\ Len(data) > limit

isFull == limit >= 0 /\ Len(data) > limit

-----------------------------------------------------------------------------
(* WriteMultiBuffer.  An empty buffer returns at once and changes nothing. *)

WriteMultiBuffer(w, n) ==
  /\ wpc[w] = "idle"
  /\ count[w] + n <= MaxItems
  /\ wpc' = [wpc EXCEPT ![w] = "try"]
  /\ mb' = [mb EXCEPT ![w] = [i \in 1..n |-> <<w, count[w] + i>>]]
  /\ count' = [count EXCEPT ![w] = @ + n]
  /\ UNCHANGED <<state, data, signals, accepted, acked, failed, discarded, readerVars>>

writeMultiBufferInternal_RetryAfterMerge(w) ==
  /\ wpc[w] = "try"
  /\ \/ /\ state = "open" /\ ~ isFull
        /\ data' = data \o mb[w]
        /\ accepted' = accepted \o mb[w]
        /\ wpc' = [wpc EXCEPT ![w] = IF data = <<>> THEN "signal" ELSE "wait"]
        /\ UNCHANGED discarded
     \/ /\ state = "open" /\ isFull /\ ~ discardOverflow
        /\ wpc' = [wpc EXCEPT ![w] = "wait"]
        /\ UNCHANGED <<data, accepted, discarded>>
     \/ /\ state = "open" /\ isFull /\ discardOverflow
        /\ wpc' = [wpc EXCEPT ![w] = "idle"]
        /\ discarded' = discarded \cup Range(mb[w])
        /\ UNCHANGED <<data, accepted>>
     \/ /\ state # "open"
        /\ wpc' = [wpc EXCEPT ![w] = "fail"]
        /\ UNCHANGED <<data, accepted, discarded>>
  /\ UNCHANGED <<state, signals, mb, count, acked, failed, readerVars>>

\* One turn of the loop, under the mutex: append; or, when the buffer is full,
\* drop the write or wait; or fail.
writeMultiBufferInternal(w) ==
  /\ wpc[w] = "try"
  /\ \/ /\ state = "open" /\ ~ isFull
        /\ data' = data \o mb[w]
        /\ accepted' = accepted \o mb[w]
        /\ wpc' = [wpc EXCEPT ![w] = "signal"]
        /\ UNCHANGED discarded
     \/ /\ state = "open" /\ isFull /\ ~ discardOverflow
        /\ wpc' = [wpc EXCEPT ![w] = "wait"]
        /\ UNCHANGED <<data, accepted, discarded>>
     \/ /\ state = "open" /\ isFull /\ discardOverflow
        /\ wpc' = [wpc EXCEPT ![w] = "idle"]
        /\ discarded' = discarded \cup Range(mb[w])
        /\ UNCHANGED <<data, accepted>>
     \/ /\ state # "open"
        /\ wpc' = [wpc EXCEPT ![w] = "fail"]
        /\ UNCHANGED <<data, accepted, discarded>>
  /\ UNCHANGED <<state, signals, mb, count, acked, failed, readerVars>>

SignalReader_Skipped(w) ==
  /\ \/ /\ wpc[w] = "signal"
        /\ acked' = acked \cup Range(mb[w])
        /\ UNCHANGED failed
     \/ /\ wpc[w] = "fail"
        /\ failed' = failed \cup Range(mb[w])
        /\ UNCHANGED acked
  /\ wpc' = [wpc EXCEPT ![w] = "idle"]
  /\ UNCHANGED <<state, data, signals, mb, count, accepted, discarded, readerVars>>

\* The mutex is free again: wake the reader and return, nil after an append
\* and an error after a failure.
SignalReader(w) ==
  /\ \/ /\ wpc[w] = "signal"
        /\ acked' = acked \cup Range(mb[w])
        /\ UNCHANGED failed
     \/ /\ wpc[w] = "fail"
        /\ failed' = failed \cup Range(mb[w])
        /\ UNCHANGED acked
  /\ readSignal' = TRUE
  /\ wpc' = [wpc EXCEPT ![w] = "idle"]
  /\ UNCHANGED <<state, data, writeSignal, errChan, mb, count, accepted,
                 discarded, readerVars>>

\* The select of a writer that found the buffer full.
WriterWakes(w) ==
  /\ wpc[w] = "wait"
  /\ \/ /\ writeSignal
        /\ writeSignal' = FALSE
        /\ wpc' = [wpc EXCEPT ![w] = "try"]
        /\ UNCHANGED failed
     \/ /\ state # "open"
        /\ wpc' = [wpc EXCEPT ![w] = "idle"]
        /\ failed' = failed \cup Range(mb[w])
        /\ UNCHANGED writeSignal
  /\ UNCHANGED <<state, data, readSignal, errChan, mb, count, accepted, acked,
                 discarded, readerVars>>

-----------------------------------------------------------------------------
(* ReadMultiBuffer and ReadMultiBufferTimeout.                             *)

ReadMultiBuffer(t) ==
  /\ rpc = "idle"
  /\ rpc' = "try"
  /\ timed' = t
  /\ UNCHANGED <<state, data, signals, writerVars, received, eof>>

\* Under the mutex: take everything, or learn of the end, or find nothing.
readMultiBufferInternal ==
  /\ rpc = "try"
  /\ \/ /\ state # "errord" /\ data # <<>>
        /\ received' = received \o data
        /\ data' = <<>>
        /\ rpc' = "signal"
        /\ UNCHANGED eof
     \/ /\ state = "closed" /\ data = <<>>
        /\ eof' = TRUE
        /\ rpc' = "signal"
        /\ UNCHANGED <<data, received>>
     \/ /\ state = "errord"
        /\ rpc' = "signal"
        /\ UNCHANGED <<data, received, eof>>
     \/ /\ state = "open" /\ data = <<>>
        /\ rpc' = "wait"
        /\ UNCHANGED <<data, received, eof>>
  /\ UNCHANGED <<state, signals, writerVars, timed>>

SignalWriter_Skipped ==
  /\ rpc = "signal"
  /\ rpc' = "idle"
  /\ UNCHANGED <<state, data, signals, writerVars, timed, received, eof>>

\* Wake a writer, and return.
SignalWriter ==
  /\ rpc = "signal"
  /\ writeSignal' = TRUE
  /\ rpc' = "idle"
  /\ UNCHANGED <<state, data, readSignal, errChan, writerVars, timed, received, eof>>

\* The select of a reader that found nothing: a signal or the end of the pipe
\* send it back to the loop; an injected error or the timer end the call.
ReaderWakes ==
  /\ rpc = "wait"
  /\ \/ /\ readSignal
        /\ readSignal' = FALSE
        /\ rpc' = "try"
        /\ UNCHANGED errChan
     \/ /\ state # "open"
        /\ rpc' = "try"
        /\ UNCHANGED <<readSignal, errChan>>
     \/ /\ ~ timed /\ errChan
        /\ errChan' = FALSE
        /\ rpc' = "idle"
        /\ UNCHANGED readSignal
  /\ UNCHANGED <<state, data, writeSignal, writerVars, timed, received, eof>>

\* The timer of ReadMultiBufferTimeout fires.
ReaderTimeout ==
  /\ rpc = "wait" /\ timed
  /\ rpc' = "idle"
  /\ UNCHANGED <<state, data, signals, writerVars, timed, received, eof>>

-----------------------------------------------------------------------------
(* The other operations, each of them under the mutex or on a channel.     *)

Close ==
  /\ state = "open"
  /\ state' = "closed"
  /\ UNCHANGED <<data, signals, writerVars, readerVars>>

Interrupt_KeepsClosed ==
  /\ data' = <<>>
  /\ state' = IF state = "open" THEN "errord" ELSE state
  /\ UNCHANGED <<signals, writerVars, readerVars>>

\* What is buffered is dropped; a closed pipe that loses data this way becomes
\* an interrupted one, a closed pipe without data stays closed.
Interrupt ==
  /\ data' = <<>>
  /\ state' = IF state = "open" \/ data # <<>> THEN "errord" ELSE state
  /\ UNCHANGED <<signals, writerVars, readerVars>>

\* ReturnAnError blocks while an earlier error has not been taken.
ReturnAnError ==
  /\ ~ errChan
  /\ errChan' = TRUE
  /\ UNCHANGED <<state, data, readSignal, writeSignal, writerVars, readerVars>>

Recover ==
  /\ errChan
  /\ errChan' = FALSE
  /\ UNCHANGED <<state, data, readSignal, writeSignal, writerVars, readerVars>>

-----------------------------------------------------------------------------

Writer(w) ==
  \/ writeMultiBufferInternal(w)
  \/ SignalReader(w)
  \/ WriterWakes(w)

Reader ==
  \/ readMultiBufferInternal
  \/ SignalWriter
  \/ ReaderWakes

\* The options are those pipe.New was given.
Next ==
  /\ \/ \E w \in Writers : Writer(w) \/ \E n \in 1..MaxWrite : WriteMultiBuffer(w, n)
     \/ Reader
     \/ \E t \in BOOLEAN : ReadMultiBuffer(t)
     \/ ReaderTimeout
     \/ Close
     \/ Interrupt
     \/ ReturnAnError
     \/ Recover
  /\ UNCHANGED option

Spec == Init /\ [][Next]_vars

\* A goroutine inside a call is scheduled, and the reader comes back for more
\* (buf.Copy reads until it gets an error).  Nobody has to write or to close.
FairSpec ==
  /\ Spec
  /\ \A w \in Writers : WF_vars(Writer(w) /\ UNCHANGED option)
  /\ WF_vars(Reader /\ UNCHANGED option)
  /\ WF_vars(UNCHANGED option /\ \E t \in BOOLEAN : ReadMultiBuffer(t))

-----------------------------------------------------------------------------
(* Properties.                                                             *)

\* Type correctness of the pipe and of the calls in progress.
TypeOK ==
  /\ limit \in Int /\ discardOverflow \in BOOLEAN
  /\ state \in {"open", "closed", "errord"}
  /\ data \in Seq(Items) /\ accepted \in Seq(Items) /\ received \in Seq(Items)
  /\ readSignal \in BOOLEAN /\ writeSignal \in BOOLEAN /\ errChan \in BOOLEAN
  /\ wpc \in [Writers -> {"idle", "try", "signal", "fail", "wait"}]
  /\ mb \in [Writers -> Seq(Items)]
  /\ count \in [Writers -> 0..MaxItems]
  /\ rpc \in {"idle", "try", "signal", "wait"}
  /\ timed \in BOOLEAN /\ eof \in BOOLEAN
  /\ acked \subseteq Items /\ failed \subseteq Items /\ discarded \subseteq Items

\* The pipe is a stream: reads return what writes put in, in order and once,
\* and io.EOF comes only after everything accepted has been read, also when
\* Close, Interrupt and reads race.
PipeStream == INSTANCE Stream WITH
  sent <- accepted,
  mode <- IF state = "errord" THEN "broken" ELSE state

ImplementsStream == PipeStream!Spec

\* Its inductive form, with the types: what is buffered is exactly what has
\* been accepted and not yet read, until Interrupt empties the buffer for good.
PipeInv ==
  /\ TypeOK
  /\ state # "errord" => accepted = received \o data
  /\ state = "errord" => data = <<>>
  /\ eof => state = "closed" /\ data = <<>>

\* The buffer exceeds the limit by at most one write, the one that went over it.
Bounded == limit >= 0 => Len(data) <= limit + MaxWrite

\* What a write returned is the truth about it: nil means that its items are
\* in the stream, once each, an error that none of them is; writes are dropped
\* only with discardOverflow.
WriteResults ==
  /\ acked \subseteq Range(accepted)
  /\ failed \cap Range(accepted) = {}
  /\ discarded \cap Range(accepted) = {}
  /\ discarded # {} => discardOverflow
  /\ \A i, j \in 1..Len(accepted) : accepted[i] = accepted[j] => i = j

\* The inductive form of it: the items of w up to Settled(w) are decided, those
\* of the write in progress come after them.
Settled(w) == IF wpc[w] \in {"try", "wait", "fail"} THEN count[w] - Len(mb[w]) ELSE count[w]

ResultInv ==
  /\ WriteResults
  /\ \A w \in Writers :
       /\ Len(mb[w]) <= count[w]
       /\ \A i \in 1..Len(mb[w]) : mb[w][i] = <<w, count[w] - Len(mb[w]) + i>>
       /\ wpc[w] = "signal" => Range(mb[w]) \subseteq Range(accepted)
  /\ \A w \in Writers, k \in 1..MaxItems :
       <<w, k>> \in Range(accepted) \cup failed \cup discarded => k <= Settled(w)

\* No wake-up of the reader is lost: while it waits and something is there for
\* it, a signal is in the channel or a writer is about to send one.
NoLostWakeup ==
  rpc = "wait" /\ data # <<>> =>
    readSignal \/ \E w \in Writers : wpc[w] = "signal"

\* A reader that waits while data is in the pipe gets it.
ReaderServed == rpc = "wait" /\ data # <<>> ~> rpc # "wait"

\* A writer that waits for room gets it, or the news that the pipe is closed,
\* as long as the reader keeps reading.
WriterServed == \A w \in Writers : wpc[w] = "wait" ~> wpc[w] # "wait"
=============================================================================
