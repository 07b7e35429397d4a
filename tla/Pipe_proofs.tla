----------------------------- MODULE Pipe_proofs -----------------------------
(***************************************************************************)
(* Proofs about Pipe, for any number of writers, any limit and any size of *)
(* writes.                                                                 *)
(***************************************************************************)
EXTENDS Pipe, TLAPS

\* A concatenation has the elements of both parts.
LEMMA RangeConcat ==
  ASSUME NEW S, NEW s \in Seq(S), NEW t \in Seq(S)
  PROVE  Range(s \o t) = Range(s) \cup Range(t)
<1>1. ASSUME NEW x \in Range(s \o t) PROVE x \in Range(s) \cup Range(t)
  <2>1. PICK i \in 1..Len(s \o t) : x = (s \o t)[i]
    BY <1>1 DEF Range
  <2>2. CASE i <= Len(s)
    BY <2>1, <2>2 DEF Range
  <2>3. CASE i > Len(s)
    <3>1. x = t[i - Len(s)] /\ i - Len(s) \in 1..Len(t)
      BY <2>1, <2>3
    <3> QED BY <3>1 DEF Range
  <2> QED BY <2>2, <2>3
<1>2. ASSUME NEW x \in Range(s) PROVE x \in Range(s \o t)
  <2>1. PICK i \in 1..Len(s) : x = s[i]
    BY <1>2 DEF Range
  <2>2. x = (s \o t)[i] /\ i \in 1..Len(s \o t)
    BY <2>1
  <2> QED BY <2>2 DEF Range
<1>3. ASSUME NEW x \in Range(t) PROVE x \in Range(s \o t)
  <2>1. PICK i \in 1..Len(t) : x = t[i]
    BY <1>3 DEF Range
  <2>2. x = (s \o t)[Len(s) + i] /\ Len(s) + i \in 1..Len(s \o t)
    BY <2>1
  <2> QED BY <2>2 DEF Range
<1> QED BY Zenon, <1>1, <1>2, <1>3

\* What a writer starts to write is a sequence of its own items.
LEMMA NewItems ==
  ASSUME TypeOK, NEW w \in Writers, NEW n \in 1..MaxWrite, count[w] + n <= MaxItems
  PROVE  [i \in 1..n |-> <<w, count[w] + i>>] \in Seq(Items)
<1> DEFINE s == [i \in 1..n |-> <<w, count[w] + i>>]
<1>1. count[w] \in Nat /\ n \in Nat
  BY PipeAssumption DEF TypeOK
<1>2. s \in [1..n -> Items]
  BY <1>1, PipeAssumption DEF Items
<1> QED BY <1>1, <1>2

\* Every step keeps the types.
LEMMA TypeStep == TypeOK /\ [Next]_vars => TypeOK'
<1> SUFFICES ASSUME TypeOK, [Next]_vars PROVE TypeOK'
  BY Zenon
<1> UNCHANGED <<limit, discardOverflow>>
  BY Zenon DEF Next, vars, option
<1> USE DEF TypeOK
<1>1. ASSUME NEW w \in Writers, NEW n \in 1..MaxWrite, WriteMultiBuffer(w, n)
      PROVE  TypeOK'
  <2>1. mb' \in [Writers -> Seq(Items)]
    BY SMTT(30), <1>1, NewItems DEF WriteMultiBuffer
  <2>2. count[w] + n \in 0..MaxItems
    BY <1>1, PipeAssumption DEF WriteMultiBuffer
  <2> QED BY SMTT(30), <1>1, <2>1, <2>2 DEF WriteMultiBuffer, signals, readerVars
<1>2. ASSUME NEW w \in Writers, writeMultiBufferInternal(w) PROVE TypeOK'
  <2>1. mb[w] \in Seq(Items) /\ data \o mb[w] \in Seq(Items)
        /\ accepted \o mb[w] \in Seq(Items)
    OBVIOUS
  <2>2. Range(mb[w]) \subseteq Items
    BY <2>1 DEF Range
  <2> QED BY ZenonT(60), <1>2, <2>1, <2>2 DEF writeMultiBufferInternal, signals, readerVars
<1>3. ASSUME NEW w \in Writers, SignalReader(w) \/ WriterWakes(w) PROVE TypeOK'
  <2>1. Range(mb[w]) \subseteq Items
    BY DEF Range
  <2>2. CASE SignalReader(w)
    BY <2>1, <2>2 DEF SignalReader, readerVars
  <2>3. CASE WriterWakes(w)
    BY ZenonT(60), <2>1, <2>3 DEF WriterWakes, readerVars
  <2> QED BY SMTT(30), <1>3, <2>2, <2>3
<1>4. ASSUME NEW t \in BOOLEAN, ReadMultiBuffer(t) PROVE TypeOK'
  BY Zenon, <1>4 DEF ReadMultiBuffer, signals, writerVars
<1>5. CASE readMultiBufferInternal
  <2>1. received \o data \in Seq(Items) /\ <<>> \in Seq(Items)
    OBVIOUS
  <2> QED BY ZenonT(60), <1>5, <2>1 DEF readMultiBufferInternal, signals, writerVars
<1>6. CASE SignalWriter \/ ReaderWakes \/ ReaderTimeout
  BY ZenonT(60), <1>6 DEF SignalWriter, ReaderWakes, ReaderTimeout, signals, writerVars
<1>7. CASE Close \/ Interrupt \/ ReturnAnError \/ Recover
  <2>1. CASE Close
    BY Zenon, <2>1 DEF Close, signals, writerVars, readerVars
  <2>2. CASE Interrupt
    BY <2>2 DEF Interrupt, signals, writerVars, readerVars
  <2>3. CASE ReturnAnError \/ Recover
    BY ZenonT(60), <2>3 DEF ReturnAnError, Recover, writerVars, readerVars
  <2> QED BY Zenon, <1>7, <2>1, <2>2, <2>3
<1>8. CASE UNCHANGED vars
  BY <1>8 DEF vars, signals, writerVars, readerVars
<1> QED
  BY SMTT(30), <1>1, <1>2, <1>3, <1>4, <1>5, <1>6, <1>7, <1>8 DEF Next, Writer, Reader

\* Every step keeps the inductive invariant.
LEMMA PipeInvStep == PipeInv /\ [Next]_vars => PipeInv'
<1> SUFFICES ASSUME PipeInv, [Next]_vars PROVE PipeInv'
  BY Zenon
<1>0. TypeOK /\ TypeOK'
  BY Zenon, TypeStep DEF PipeInv
<1>a. data \in Seq(Items) /\ accepted \in Seq(Items) /\ received \in Seq(Items)
      /\ mb \in [Writers -> Seq(Items)] /\ eof \in BOOLEAN /\ eof' \in BOOLEAN
  BY Zenon, <1>0 DEF TypeOK
<1> DEFINE Rest ==
      /\ state # "errord" => accepted = received \o data
      /\ state = "errord" => data = <<>>
      /\ eof => state = "closed" /\ data = <<>>
<1>b. Rest /\ eof \in BOOLEAN /\ eof' \in BOOLEAN
  BY Zenon, <1>a DEF PipeInv
<1>1. ASSUME NEW w \in Writers, writeMultiBufferInternal(w) PROVE Rest'
  <2>1. CASE state = "open" /\ ~ isFull
    <3>1. (received \o data) \o mb[w] = received \o (data \o mb[w])
      BY SMTT(30), <1>a
    <3> QED BY ZenonT(60), <1>1, <1>b, <2>1, <3>1
        DEF writeMultiBufferInternal, signals, readerVars
  <2>2. CASE ~ (state = "open" /\ ~ isFull)
    BY SMTT(30), <1>1, <1>b, <2>2 DEF writeMultiBufferInternal, signals, readerVars
  <2> QED BY Zenon, <2>1, <2>2
<1>2. ASSUME readMultiBufferInternal PROVE Rest'
  <2>1. (received \o data) \o <<>> = received \o data
    BY <1>a
  <2> QED BY Zenon, <1>2, <1>b, <2>1 DEF readMultiBufferInternal, signals, writerVars
<1>3. ASSUME Interrupt PROVE Rest'
  BY ZenonT(60), <1>3, <1>b DEF Interrupt, signals, writerVars, readerVars
<1>4. ASSUME Close PROVE Rest'
  BY Zenon, <1>4, <1>b DEF Close, signals, writerVars, readerVars
<1>5. ASSUME UNCHANGED <<state, data, accepted, received, eof>> PROVE Rest'
  BY Zenon, <1>5, <1>b
<1>6. ASSUME NEW w \in Writers, SignalReader(w) \/ WriterWakes(w) PROVE Rest'
  BY Zenon, <1>5, <1>6 DEF SignalReader, WriterWakes, readerVars
<1>7. ASSUME NEW w \in Writers, NEW n \in 1..MaxWrite, WriteMultiBuffer(w, n)
      PROVE  Rest'
  BY Zenon, <1>5, <1>7 DEF WriteMultiBuffer, readerVars
<1>8. ASSUME NEW t \in BOOLEAN, ReadMultiBuffer(t) PROVE Rest'
  BY Zenon, <1>5, <1>8 DEF ReadMultiBuffer, writerVars
<1>9. ASSUME SignalWriter \/ ReaderWakes \/ ReaderTimeout \/ ReturnAnError \/ Recover PROVE Rest'
  BY Zenon, <1>5, <1>9
  DEF SignalWriter, ReaderWakes, ReaderTimeout, ReturnAnError, Recover, writerVars, readerVars
<1>10. ASSUME UNCHANGED vars PROVE Rest'
  BY Zenon, <1>5, <1>10 DEF vars, writerVars, readerVars
<1>11. Rest'
  BY Zenon, <1>1, <1>2, <1>3, <1>4, <1>6, <1>7, <1>8, <1>9, <1>10 DEF Next, Writer, Reader
<1> QED BY Zenon, <1>0, <1>11 DEF PipeInv

\* The inductive invariant of the pipe holds for every instance of it.
THEOREM PipeInvariant == Spec => []PipeInv
<1>1. Init => PipeInv
  <2> SUFFICES ASSUME Init PROVE PipeInv
    BY Zenon
  <2>1. <<>> \in Seq(Items) /\ <<>> \o <<>> = <<>>
    OBVIOUS
  <2>a. 0 \in 0..MaxItems
    BY PipeAssumption
  <2>b. count \in [Writers -> 0..MaxItems] /\ mb \in [Writers -> Seq(Items)]
        /\ wpc \in [Writers -> {"idle", "try", "signal", "fail", "wait"}]
    BY Zenon, <2>1, <2>a DEF Init
  <2>c. limit \in Int /\ discardOverflow \in BOOLEAN
    BY Zenon, PipeAssumption DEF Init
  <2>2. TypeOK
    BY ZenonT(60), <2>1, <2>b, <2>c, Zenon DEF Init, TypeOK
  <2> QED BY Zenon, <2>1, <2>2 DEF Init, PipeInv
<1> QED BY <1>1, PipeInvStep, PTL DEF Spec

\* The pipe implements the stream (ImplementsStream): FIFO, no loss, no
\* duplicates, and io.EOF only after everything has been read.
THEOREM PipeImplementsStream == Spec => ImplementsStream
<1>1. Init => PipeStream!Init
  BY Zenon DEF Init, PipeStream!Init
<1>2. PipeInv /\ PipeInv' /\ [Next]_vars => [PipeStream!Next]_(PipeStream!streamVars)
  <2> SUFFICES ASSUME PipeInv, PipeInv', [Next]_vars
               PROVE  PipeStream!Next \/ UNCHANGED PipeStream!streamVars
    BY Zenon DEF PipeStream!streamVars
  <2>a. data \in Seq(Items) /\ accepted \in Seq(Items) /\ received \in Seq(Items)
        /\ mb \in [Writers -> Seq(Items)] /\ accepted' \in Seq(Items)
    BY Zenon DEF PipeInv, TypeOK
  <2>1. ASSUME UNCHANGED <<accepted, received, state, eof>>
        PROVE  UNCHANGED PipeStream!streamVars
    BY Zenon, <2>1 DEF PipeStream!streamVars
  <2>2. ASSUME NEW w \in Writers, writeMultiBufferInternal(w)
        PROVE  PipeStream!Next \/ UNCHANGED PipeStream!streamVars
    <3>1. CASE state = "open" /\ ~ isFull
      <4>1. accepted' = accepted \o mb[w] /\ UNCHANGED <<received, state, eof>>
        BY Zenon, <2>2, <3>1 DEF writeMultiBufferInternal, readerVars
      <4>2. /\ Len(accepted) \in 0..Len(accepted')
            /\ accepted = SubSeq(accepted', 1, Len(accepted))
        BY <2>a, <4>1
      <4>3. PipeStream!Send
        BY ZenonT(60), <2>a, <3>1, <4>1, <4>2 DEF PipeStream!Send
      <4> QED BY Zenon, <4>3 DEF PipeStream!Next
    <3>2. CASE ~ (state = "open" /\ ~ isFull)
      BY Zenon, <2>1, <2>2, <3>2 DEF writeMultiBufferInternal, readerVars
    <3> QED BY Zenon, <3>1, <3>2
  <2>3. ASSUME readMultiBufferInternal
        PROVE  PipeStream!Next \/ UNCHANGED PipeStream!streamVars
    <3>0. UNCHANGED <<state, accepted>>
      BY Zenon, <2>3 DEF readMultiBufferInternal, writerVars
    <3>1. CASE state # "errord" /\ data # <<>>
      <4>1. received' = received \o data /\ accepted = received \o data /\ eof' = eof
        BY Zenon, <2>3, <3>1 DEF readMultiBufferInternal, PipeInv
      <4>2. /\ Len(accepted) \in Len(received)..Len(accepted)
            /\ received' = SubSeq(accepted, 1, Len(accepted))
        BY <2>a, <4>1
      <4>a. \E n \in Len(received)..Len(accepted) : received' = SubSeq(accepted, 1, n)
        BY ZenonT(60), <4>2, Zenon
      <4>b. (IF state = "errord" THEN "broken" ELSE state) # "broken"
        BY Zenon, <3>1 DEF PipeInv, TypeOK
      <4>3. PipeStream!Receive
        BY ZenonT(60), <3>0, <4>1, <4>a, <4>b, Zenon DEF PipeStream!Receive
      <4> QED BY Zenon, <4>3 DEF PipeStream!Next
    <3>2. CASE state = "closed" /\ data = <<>>
      <4>1. received' = received /\ accepted = received \o data
        BY Zenon, <2>3, <3>2 DEF readMultiBufferInternal, PipeInv
      <4>a. state # "open" /\ ~ (state # "errord" /\ data # <<>>) /\ state # "errord"
        BY Zenon, <3>2
      <4>b. eof' = TRUE
        BY ZenonT(60), <2>3, <4>a, Zenon DEF readMultiBufferInternal
      <4>2. received = accepted
        BY <2>a, <3>2, <4>1
      <4>3. PipeStream!End
        BY Zenon, <3>0, <3>2, <4>1, <4>2, <4>b DEF PipeStream!End
      <4> QED BY Zenon, <4>3 DEF PipeStream!Next
    <3>3. CASE state = "errord" \/ (state = "open" /\ data = <<>>)
      BY Zenon, <2>1, <2>3, <3>0, <3>3 DEF readMultiBufferInternal
    <3> QED BY Zenon, <3>1, <3>2, <3>3 DEF PipeInv, TypeOK
  <2>4. ASSUME Close PROVE PipeStream!Close
    BY Zenon, <2>4 DEF Close, PipeStream!Close, writerVars, readerVars
  <2>5. ASSUME Interrupt PROVE PipeStream!Break \/ UNCHANGED PipeStream!streamVars
    <3>1. UNCHANGED <<accepted, received, eof>>
      BY Zenon, <2>5 DEF Interrupt, writerVars, readerVars
    <3>2. CASE state = "open" \/ data # <<>>
      BY Zenon, <2>5, <3>1, <3>2 DEF Interrupt, PipeStream!Break
    <3>3. CASE ~ (state = "open" \/ data # <<>>)
      BY Zenon, <2>1, <2>5, <3>1, <3>3 DEF Interrupt
    <3> QED BY Zenon, <3>2, <3>3
  <2>6. ASSUME NEW w \in Writers, SignalReader(w) \/ WriterWakes(w)
        PROVE  UNCHANGED PipeStream!streamVars
    BY Zenon, <2>1, <2>6 DEF SignalReader, WriterWakes, readerVars
  <2>7. ASSUME NEW w \in Writers, NEW n \in 1..MaxWrite, WriteMultiBuffer(w, n)
        PROVE  UNCHANGED PipeStream!streamVars
    BY Zenon, <2>1, <2>7 DEF WriteMultiBuffer, readerVars
  <2>8. ASSUME NEW t \in BOOLEAN, ReadMultiBuffer(t)
        PROVE  UNCHANGED PipeStream!streamVars
    BY Zenon, <2>1, <2>8 DEF ReadMultiBuffer, writerVars
  <2>9. ASSUME SignalWriter \/ ReaderWakes \/ ReaderTimeout \/ ReturnAnError \/ Recover
        PROVE  UNCHANGED PipeStream!streamVars
    BY Zenon, <2>1, <2>9
    DEF SignalWriter, ReaderWakes, ReaderTimeout, ReturnAnError, Recover, writerVars, readerVars
  <2>10. ASSUME UNCHANGED vars PROVE UNCHANGED PipeStream!streamVars
    BY Zenon, <2>1, <2>10 DEF vars, writerVars, readerVars
  <2> QED
    BY Zenon, <2>2, <2>3, <2>4, <2>5, <2>6, <2>7, <2>8, <2>9, <2>10
    DEF Next, Writer, Reader, PipeStream!Next
<1> QED
  BY <1>1, <1>2, PipeInvariant, PTL DEF Spec, ImplementsStream, PipeStream!Spec

-----------------------------------------------------------------------------
(* The bound.  A write is admitted when at most limit items are buffered.  *)

\* Every step keeps the bounds of the buffer and of the writes under way.
LEMMA BoundedStep ==
  ASSUME TypeOK, Bounded, \A w \in Writers : Len(mb[w]) <= MaxWrite, [Next]_vars
  PROVE  Bounded' /\ \A w \in Writers : Len(mb'[w]) <= MaxWrite
<1> UNCHANGED <<limit, discardOverflow>>
  BY Zenon DEF Next, vars, option
<1>a. data \in Seq(Items) /\ mb \in [Writers -> Seq(Items)] /\ limit \in Int
      /\ MaxWrite \in Nat
  BY Zenon, PipeAssumption DEF TypeOK
<1>1. ASSUME UNCHANGED <<data, mb>>
      PROVE  Bounded' /\ \A w \in Writers : Len(mb'[w]) <= MaxWrite
  BY Zenon, <1>1 DEF Bounded
<1>2. ASSUME NEW w \in Writers, NEW n \in 1..MaxWrite, WriteMultiBuffer(w, n)
      PROVE  Bounded' /\ \A v \in Writers : Len(mb'[v]) <= MaxWrite
  <2>1. Len([i \in 1..n |-> <<w, count[w] + i>>]) = n
    BY <1>a
  <2>2. mb' = [mb EXCEPT ![w] = [i \in 1..n |-> <<w, count[w] + i>>]] /\ data' = data
    BY Zenon, <1>2 DEF WriteMultiBuffer
  <2>3. Bounded'
    BY Zenon, <2>2 DEF Bounded
  <2> QED BY <1>a, <2>1, <2>2, <2>3
<1>3. ASSUME NEW w \in Writers, writeMultiBufferInternal(w)
      PROVE  Bounded' /\ \A v \in Writers : Len(mb'[v]) <= MaxWrite
  <2>1. CASE state = "open" /\ ~ isFull
    <3>1. data' = data \o mb[w] /\ mb' = mb
      BY Zenon, <1>3, <2>1 DEF writeMultiBufferInternal
    <3>2. limit >= 0 => Len(data) <= limit
      BY <1>a, <2>1 DEF isFull
    <3>3. Len(data') = Len(data) + Len(mb[w])
      BY <1>a, <3>1
    <3> QED BY <1>a, <3>1, <3>2, <3>3 DEF Bounded
  <2>2. CASE ~ (state = "open" /\ ~ isFull)
    BY Zenon, <1>1, <1>3, <2>2 DEF writeMultiBufferInternal
  <2> QED BY Zenon, <2>1, <2>2
<1>4. ASSUME readMultiBufferInternal \/ Interrupt
      PROVE  Bounded' /\ \A w \in Writers : Len(mb'[w]) <= MaxWrite
  <2>1. (data' = <<>> \/ data' = data) /\ mb' = mb
    BY Zenon, <1>4 DEF readMultiBufferInternal, Interrupt, writerVars
  <2> QED BY <1>a, <2>1 DEF Bounded
<1>5. ASSUME NEW w \in Writers, SignalReader(w) \/ WriterWakes(w)
      PROVE  UNCHANGED <<data, mb>>
  BY Zenon, <1>5 DEF SignalReader, WriterWakes
<1>6. ASSUME NEW t \in BOOLEAN, ReadMultiBuffer(t) PROVE UNCHANGED <<data, mb>>
  BY Zenon, <1>6 DEF ReadMultiBuffer, writerVars
<1>7. ASSUME SignalWriter \/ ReaderWakes \/ ReaderTimeout \/ ReturnAnError \/ Recover \/ Close
      PROVE  UNCHANGED <<data, mb>>
  BY Zenon, <1>7
  DEF SignalWriter, ReaderWakes, ReaderTimeout, ReturnAnError, Recover, Close, writerVars
<1>8. ASSUME UNCHANGED vars PROVE UNCHANGED <<data, mb>>
  BY Zenon, <1>8 DEF vars, writerVars
<1> QED
  BY Zenon, <1>1, <1>2, <1>3, <1>4, <1>5, <1>6, <1>7, <1>8 DEF Next, Writer, Reader

\* The buffer never exceeds the limit by more than one write (Bounded).
THEOREM PipeBounded == Spec => []Bounded
<1> DEFINE Writes == \A w \in Writers : Len(mb[w]) <= MaxWrite
<1>1. Init => Bounded /\ Writes
  BY PipeAssumption DEF Init, Bounded
<1>2. PipeInv /\ Bounded /\ Writes /\ [Next]_vars => Bounded' /\ Writes'
  BY Zenon, BoundedStep DEF PipeInv
<1> QED BY <1>1, <1>2, PipeInvariant, PTL DEF Spec

-----------------------------------------------------------------------------
(* Wake-ups.                                                               *)

\* A reader never waits on a pipe that holds data unless a signal for it is
\* there or on its way (NoLostWakeup).
THEOREM WakeupsKept == Spec => []NoLostWakeup
<1>1. Init => NoLostWakeup
  BY Zenon DEF Init, NoLostWakeup
<1>2. PipeInv /\ NoLostWakeup /\ [Next]_vars => NoLostWakeup'
  <2> SUFFICES ASSUME TypeOK, NoLostWakeup, [Next]_vars PROVE NoLostWakeup'
    BY Zenon DEF PipeInv
  <2>a. wpc \in [Writers -> {"idle", "try", "signal", "fail", "wait"}]
        /\ readSignal \in BOOLEAN
    BY Zenon DEF TypeOK
  <2>1. ASSUME NEW w \in Writers, NEW n \in 1..MaxWrite, WriteMultiBuffer(w, n)
        PROVE  NoLostWakeup'
    BY Zenon, <2>1, <2>a DEF WriteMultiBuffer, NoLostWakeup, signals, readerVars
  <2>2. ASSUME NEW w \in Writers, writeMultiBufferInternal(w) PROVE NoLostWakeup'
    BY SMTT(30), <2>2, <2>a DEF writeMultiBufferInternal, NoLostWakeup, signals, readerVars
  <2>3. ASSUME NEW w \in Writers, SignalReader(w) PROVE NoLostWakeup'
    BY Zenon, <2>3 DEF SignalReader, NoLostWakeup
  <2>4. ASSUME NEW w \in Writers, WriterWakes(w) PROVE NoLostWakeup'
    BY Zenon, <2>4, <2>a DEF WriterWakes, NoLostWakeup, readerVars
  <2>5. ASSUME NEW t \in BOOLEAN, ReadMultiBuffer(t) PROVE NoLostWakeup'
    BY Zenon, <2>5 DEF ReadMultiBuffer, NoLostWakeup
  <2>6. CASE readMultiBufferInternal
    BY Zenon, <2>6 DEF readMultiBufferInternal, NoLostWakeup
  <2>7. CASE SignalWriter \/ ReaderWakes \/ ReaderTimeout
    BY Zenon, <2>7 DEF SignalWriter, ReaderWakes, ReaderTimeout, NoLostWakeup
  <2>8. CASE Close \/ ReturnAnError \/ Recover
    BY Zenon, <2>8 DEF Close, ReturnAnError, Recover, NoLostWakeup, signals, writerVars, readerVars
  <2>9. CASE Interrupt
    BY Zenon, <2>9 DEF Interrupt, NoLostWakeup
  <2>10. CASE UNCHANGED vars
    BY Zenon, <2>10 DEF vars, NoLostWakeup, signals, writerVars, readerVars
  <2> QED
    BY Zenon, <2>1, <2>2, <2>3, <2>4, <2>5, <2>6, <2>7, <2>8, <2>9, <2>10 DEF Next, Writer, Reader
<1> QED BY <1>1, <1>2, PipeInvariant, PTL DEF Spec

-----------------------------------------------------------------------------
(* What a write returned.                                                  *)

\* The items of the write in progress are the latest of their writer.
LEMMA WriteItems ==
  ASSUME TypeOK, ResultInv, NEW w \in Writers, NEW x \in Range(mb[w])
  PROVE  \E k \in 1..MaxItems : /\ x = <<w, k>>
                                /\ count[w] - Len(mb[w]) < k
                                /\ k <= count[w]
<1>1. mb[w] \in Seq(Items) /\ count[w] \in 0..MaxItems /\ MaxItems \in Nat
  BY Zenon, PipeAssumption DEF TypeOK
<1>2. PICK i \in 1..Len(mb[w]) : x = mb[w][i]
  BY <1>1 DEF Range
<1>3. x = <<w, count[w] - Len(mb[w]) + i>> /\ Len(mb[w]) <= count[w]
  BY Zenon, <1>2 DEF ResultInv
<1>4. count[w] - Len(mb[w]) + i \in 1..MaxItems
  BY <1>1, <1>2, <1>3
<1> QED BY <1>1, <1>2, <1>3, <1>4

\* They are not decided while the write has not been tried or has failed.
LEMMA Undecided ==
  ASSUME TypeOK, ResultInv, NEW w \in Writers, wpc[w] \in {"try", "wait", "fail"}
  PROVE  Range(mb[w]) \cap (Range(accepted) \cup failed \cup discarded) = {}
<1> SUFFICES ASSUME NEW x \in Range(mb[w]),
                    x \in Range(accepted) \cup failed \cup discarded
             PROVE  FALSE
  BY Zenon
<1>1. PICK k \in 1..MaxItems : x = <<w, k>> /\ count[w] - Len(mb[w]) < k
  BY Zenon, WriteItems
<1>2. k <= Settled(w) /\ Settled(w) = count[w] - Len(mb[w])
  BY Zenon, <1>1 DEF ResultInv, Settled
<1>3. count[w] \in Nat /\ Len(mb[w]) \in Nat /\ k \in Nat
  BY DEF TypeOK
<1> QED BY <1>1, <1>2, <1>3

\* The items of one write differ from one another.
LEMMA WriteDistinct ==
  ASSUME TypeOK, ResultInv, NEW w \in Writers,
         NEW i \in 1..Len(mb[w]), NEW j \in 1..Len(mb[w]), mb[w][i] = mb[w][j]
  PROVE  i = j
<1>1. count[w] \in Nat /\ Len(mb[w]) \in Nat
  BY DEF TypeOK
<1>2. /\ mb[w][i] = <<w, count[w] - Len(mb[w]) + i>>
      /\ mb[w][j] = <<w, count[w] - Len(mb[w]) + j>>
  BY Zenon DEF ResultInv
<1>3. <<w, count[w] - Len(mb[w]) + i>>[2] = <<w, count[w] - Len(mb[w]) + j>>[2]
  BY ZenonT(60), <1>2, Zenon
<1>4. count[w] - Len(mb[w]) + i = count[w] - Len(mb[w]) + j
  BY Zenon, <1>3
<1> QED BY <1>1, <1>4

\* An append keeps the stream free of repetitions.
LEMMA AppendDistinct ==
  ASSUME TypeOK, ResultInv, NEW w \in Writers, wpc[w] = "try",
         NEW i \in 1..Len(accepted \o mb[w]), NEW j \in 1..Len(accepted \o mb[w]),
         (accepted \o mb[w])[i] = (accepted \o mb[w])[j]
  PROVE  i = j
<1>a. accepted \in Seq(Items) /\ mb[w] \in Seq(Items)
  BY Zenon DEF TypeOK
<1>b. Range(mb[w]) \cap Range(accepted) = {}
  BY Zenon, Undecided
<1>c. ASSUME NEW l \in 1..Len(accepted \o mb[w])
      PROVE  \/ l \in 1..Len(accepted) /\ (accepted \o mb[w])[l] = accepted[l]
             \/ /\ l - Len(accepted) \in 1..Len(mb[w])
                /\ (accepted \o mb[w])[l] = mb[w][l - Len(accepted)]
  BY <1>a
<1>d. ASSUME NEW l \in 1..Len(accepted), NEW m \in 1..Len(mb[w]) PROVE accepted[l] # mb[w][m]
  <2>1. accepted[l] \in Range(accepted) /\ mb[w][m] \in Range(mb[w])
    BY <1>a DEF Range
  <2> QED BY Zenon, <1>b, <2>1
<1>1. CASE i \in 1..Len(accepted) /\ j \in 1..Len(accepted)
  <2>1. accepted[i] = accepted[j]
    BY <1>1, <1>a
  <2> QED BY Zenon, <1>1, <2>1 DEF ResultInv, WriteResults
<1>2. CASE i - Len(accepted) \in 1..Len(mb[w]) /\ j - Len(accepted) \in 1..Len(mb[w])
  <2>1. mb[w][i - Len(accepted)] = mb[w][j - Len(accepted)]
    BY <1>2, <1>a
  <2>2. i - Len(accepted) = j - Len(accepted)
    BY SMTT(30), <1>2, <2>1, WriteDistinct
  <2> QED BY <1>a, <2>2
<1> QED BY Zenon, <1>c, <1>d, <1>1, <1>2

\* Every step keeps what the results of the calls say.
LEMMA ResultInvStep ==
  ASSUME TypeOK, TypeOK', ResultInv, [Next]_vars
  PROVE  ResultInv'
<1> UNCHANGED <<limit, discardOverflow>>
  BY Zenon DEF Next, vars, option
<1>a. /\ accepted \in Seq(Items) /\ mb \in [Writers -> Seq(Items)]
      /\ count \in [Writers -> 0..MaxItems] /\ MaxItems \in Nat
      /\ wpc \in [Writers -> {"idle", "try", "signal", "fail", "wait"}]
  BY Zenon, PipeAssumption DEF TypeOK
<1>1. ASSUME UNCHANGED <<wpc, mb, count, accepted, acked, failed, discarded>>
      PROVE  ResultInv'
  BY Zenon, <1>1 DEF ResultInv, WriteResults, Settled
<1>2. ASSUME NEW w \in Writers, NEW n \in 1..MaxWrite, WriteMultiBuffer(w, n)
      PROVE  ResultInv'
  <2> DEFINE new == [i \in 1..n |-> <<w, count[w] + i>>]
  <2>1. /\ wpc' = [wpc EXCEPT ![w] = "try"] /\ mb' = [mb EXCEPT ![w] = new]
        /\ count' = [count EXCEPT ![w] = @ + n]
        /\ UNCHANGED <<accepted, acked, failed, discarded>>
        /\ wpc[w] = "idle"
    BY Zenon, <1>2 DEF WriteMultiBuffer
  <2>2. n \in Nat /\ Len(new) = n
    BY PipeAssumption
  <2>3. WriteResults'
    BY Zenon, <2>1 DEF ResultInv, WriteResults
  <2>4. ASSUME NEW v \in Writers
        PROVE  /\ Len(mb'[v]) <= count'[v]
               /\ \A i \in 1..Len(mb'[v]) : mb'[v][i] = <<v, count'[v] - Len(mb'[v]) + i>>
               /\ wpc'[v] = "signal" => Range(mb'[v]) \subseteq Range(accepted')
    <3>1. CASE v = w
      <4>1. mb'[v] = new /\ count'[v] = count[w] + n /\ wpc'[v] = "try"
        BY Zenon, <1>a, <2>1, <3>1
      <4>2. \A i \in 1..n : new[i] = <<v, count'[v] - n + i>>
        BY <1>a, <2>2, <3>1, <4>1
      <4> QED BY <1>a, <2>2, <4>1, <4>2
    <3>2. CASE v # w
      BY SMTT(30), <1>a, <2>1, <3>2 DEF ResultInv
    <3> QED BY Zenon, <3>1, <3>2
  <2>5. ASSUME NEW v \in Writers PROVE Settled(v)' = Settled(v)
    <3>1. CASE v = w
      BY <1>a, <2>1, <2>2, <3>1 DEF Settled
    <3>2. CASE v # w
      BY Zenon, <1>a, <2>1, <3>2 DEF Settled
    <3> QED BY Zenon, <3>1, <3>2
  <2>6. ASSUME NEW v \in Writers, NEW k \in 1..MaxItems,
               <<v, k>> \in Range(accepted') \cup failed' \cup discarded'
        PROVE  k <= Settled(v)'
    BY SMTT(30), <2>1, <2>5, <2>6 DEF ResultInv
  <2> QED BY Zenon, <2>3, <2>4, <2>6 DEF ResultInv
<1>3. ASSUME NEW w \in Writers, UNCHANGED <<mb, count>>,
             wpc[w] \in {"try", "signal", "fail", "wait"},
             \E p \in {"idle", "try", "signal", "fail", "wait"} :
               /\ wpc' = [wpc EXCEPT ![w] = p]
               /\ p = "signal" => Range(mb[w]) \subseteq Range(accepted'),
             WriteResults',
             Range(accepted) \subseteq Range(accepted'),
             \A v \in Writers, k \in 1..MaxItems :
               <<v, k>> \in Range(accepted') \cup failed' \cup discarded'
                 => k <= Settled(v)'
      PROVE  ResultInv'
  <2>1. PICK p : /\ wpc' = [wpc EXCEPT ![w] = p]
                 /\ p = "signal" => Range(mb[w]) \subseteq Range(accepted')
    BY ZenonT(60), <1>3
  <2>2. ASSUME NEW v \in Writers
        PROVE  /\ Len(mb'[v]) <= count'[v]
               /\ \A i \in 1..Len(mb'[v]) : mb'[v][i] = <<v, count'[v] - Len(mb'[v]) + i>>
               /\ wpc'[v] = "signal" => Range(mb'[v]) \subseteq Range(accepted')
    BY SMTT(30), <1>3, <1>a, <2>1 DEF ResultInv
  <2> QED BY Zenon, <1>3, <2>2 DEF ResultInv
\* An item is settled by the step that decides its write.
<1>4. ASSUME NEW w \in Writers, UNCHANGED <<mb, count>>,
             NEW p \in {"idle", "try", "signal", "fail", "wait"},
             wpc' = [wpc EXCEPT ![w] = p],
             Range(accepted') \cup failed' \cup discarded'
               \subseteq Range(accepted) \cup failed \cup discarded \cup Range(mb[w]),
             \/ p \in {"signal", "idle"}
             \/ /\ p \in {"try", "fail", "wait"} /\ wpc[w] \in {"try", "fail", "wait"}
                /\ UNCHANGED <<accepted, failed, discarded>>
      PROVE  \A v \in Writers, k \in 1..MaxItems :
               <<v, k>> \in Range(accepted') \cup failed' \cup discarded'
                 => k <= Settled(v)'
  <2> SUFFICES ASSUME NEW v \in Writers, NEW k \in 1..MaxItems,
                      <<v, k>> \in Range(accepted') \cup failed' \cup discarded'
               PROVE  k <= Settled(v)'
    BY Zenon
  <2>0. Len(mb[v]) \in Nat /\ count[v] \in Nat /\ Settled(v) <= count[v]
    BY <1>a DEF Settled
  <2>1. CASE v # w
    <3>1. Settled(v)' = Settled(v)
      BY Zenon, <1>4, <1>a, <2>1 DEF Settled
    <3>2. <<v, k>> \notin Range(mb[w])
      BY Zenon, <2>1, WriteItems
    <3> QED BY Zenon, <1>4, <3>1, <3>2 DEF ResultInv
  <2>2. CASE v = w /\ p \in {"signal", "idle"}
    <3>1. Settled(v)' = count[v]
      BY Zenon, <1>4, <1>a, <2>2 DEF Settled
    <3>2. CASE <<v, k>> \in Range(mb[w])
      BY Zenon, <2>2, <3>1, <3>2, WriteItems
    <3>3. CASE <<v, k>> \notin Range(mb[w])
      <4>1. k <= Settled(v)
        BY Zenon, <1>4, <3>3 DEF ResultInv
      <4>2. Settled(v) \in Int /\ k \in Int
        BY SMTT(30), <1>a DEF Settled
      <4> QED BY SMTT(30), <2>0, <3>1, <4>1, <4>2
    <3> QED BY Zenon, <3>2, <3>3
  <2>3. CASE v = w /\ p \in {"try", "fail", "wait"}
    <3>1. Settled(v)' = Settled(v)
      BY Zenon, <1>4, <1>a, <2>3 DEF Settled
    <3> QED BY Zenon, <1>4, <2>3, <3>1 DEF ResultInv
  <2> QED BY Zenon, <2>1, <2>2, <2>3
<1>5. ASSUME NEW w \in Writers, writeMultiBufferInternal(w) PROVE ResultInv'
  <2>0. /\ UNCHANGED <<mb, count, acked, failed>> /\ wpc[w] = "try"
    BY Zenon, <1>5 DEF writeMultiBufferInternal
  <2>d. Range(mb[w]) \cap (Range(accepted) \cup failed \cup discarded) = {}
    BY SMTT(30), <2>0, Undecided
  <2>1. CASE state = "open" /\ ~ isFull
    <3>1. /\ accepted' = accepted \o mb[w] /\ discarded' = discarded
          /\ wpc' = [wpc EXCEPT ![w] = "signal"]
      BY Zenon, <1>5, <2>1 DEF writeMultiBufferInternal
    <3>2. Range(accepted') = Range(accepted) \cup Range(mb[w])
      BY <1>a, <3>1, RangeConcat
    <3>3. \A l, m \in 1..Len(accepted') : accepted'[l] = accepted'[m] => l = m
      BY Zenon, <2>0, <3>1, AppendDistinct
    <3>4. WriteResults'
      BY Zenon, <2>0, <2>d, <3>1, <3>2, <3>3 DEF ResultInv, WriteResults
    <3> QED BY ZenonT(60), <1>3, <1>4, <2>0, <3>1, <3>2, <3>4
  <2>2. CASE state = "open" /\ isFull /\ discardOverflow
    <3>1. /\ accepted' = accepted /\ discarded' = discarded \cup Range(mb[w])
          /\ wpc' = [wpc EXCEPT ![w] = "idle"]
      BY Zenon, <1>5, <2>2 DEF writeMultiBufferInternal
    <3>2. WriteResults'
      BY Zenon, <2>0, <2>2, <2>d, <3>1 DEF ResultInv, WriteResults
    <3> QED BY ZenonT(60), <1>3, <1>4, <2>0, <3>1, <3>2
  <2>3. CASE state # "open" \/ (state = "open" /\ isFull /\ ~ discardOverflow)
    <3>1. /\ UNCHANGED <<accepted, discarded>>
          /\ \E p \in {"fail", "wait"} : wpc' = [wpc EXCEPT ![w] = p]
      BY Zenon, <1>5, <2>3 DEF writeMultiBufferInternal
    <3>2. WriteResults'
      BY Zenon, <2>0, <3>1 DEF ResultInv, WriteResults
    <3>3. PICK p \in {"fail", "wait"} : wpc' = [wpc EXCEPT ![w] = p]
      BY ZenonT(60), <3>1
    <3> QED BY ZenonT(60), <1>3, <1>4, <2>0, <3>1, <3>2, <3>3
  <2> QED BY Zenon, <2>1, <2>2, <2>3
<1>6. ASSUME NEW w \in Writers, SignalReader(w) PROVE ResultInv'
  <2>0. UNCHANGED <<mb, count, accepted, discarded>> /\ wpc' = [wpc EXCEPT ![w] = "idle"]
    BY Zenon, <1>6 DEF SignalReader
  <2>1. CASE wpc[w] = "signal"
    <3>1. acked' = acked \cup Range(mb[w]) /\ failed' = failed
      BY Zenon, <1>6, <2>1 DEF SignalReader
    <3>2. WriteResults'
      BY Zenon, <2>0, <2>1, <3>1 DEF ResultInv, WriteResults
    <3> QED BY ZenonT(60), <1>3, <1>4, <2>0, <2>1, <3>1, <3>2
  <2>2. CASE wpc[w] = "fail"
    <3>1. failed' = failed \cup Range(mb[w]) /\ acked' = acked
      BY Zenon, <1>6, <2>2 DEF SignalReader
    <3>2. Range(mb[w]) \cap Range(accepted) = {}
      BY Zenon, <2>2, Undecided
    <3>3. WriteResults'
      BY SMTT(30), <2>0, <3>1, <3>2 DEF ResultInv, WriteResults
    <3> QED BY ZenonT(60), <1>3, <1>4, <2>0, <2>2, <3>1, <3>3
  <2> QED BY Zenon, <1>6, <2>1, <2>2 DEF SignalReader
<1>7. ASSUME NEW w \in Writers, WriterWakes(w) PROVE ResultInv'
  <2>0. UNCHANGED <<mb, count, accepted, acked, discarded>> /\ wpc[w] = "wait"
    BY Zenon, <1>7 DEF WriterWakes
  <2>1. Range(mb[w]) \cap Range(accepted) = {}
    BY SMTT(30), <2>0, Undecided
  <2>2. CASE wpc' = [wpc EXCEPT ![w] = "try"] /\ failed' = failed
    <3>1. WriteResults'
      BY Zenon, <2>0, <2>2 DEF ResultInv, WriteResults
    <3> QED BY ZenonT(60), <1>3, <1>4, <2>0, <2>2, <3>1
  <2>3. CASE wpc' = [wpc EXCEPT ![w] = "idle"] /\ failed' = failed \cup Range(mb[w])
    <3>1. WriteResults'
      BY Zenon, <2>0, <2>1, <2>3 DEF ResultInv, WriteResults
    <3> QED BY ZenonT(60), <1>3, <1>4, <2>0, <2>3, <3>1
  <2> QED BY Zenon, <1>7, <2>2, <2>3 DEF WriterWakes
<1>8. ASSUME Reader \/ ReaderTimeout \/ \E t \in BOOLEAN : ReadMultiBuffer(t) PROVE ResultInv'
  BY Zenon, <1>1, <1>8
  DEF Reader, readMultiBufferInternal, SignalWriter, ReaderWakes, ReaderTimeout,
      ReadMultiBuffer, writerVars
<1>9. ASSUME Close \/ Interrupt \/ ReturnAnError \/ Recover \/ UNCHANGED vars PROVE ResultInv'
  BY Zenon, <1>1, <1>9 DEF Close, Interrupt, ReturnAnError, Recover, vars, writerVars
<1> QED BY Zenon, <1>2, <1>5, <1>6, <1>7, <1>8, <1>9 DEF Next, Writer

\* A write that returned nil is in the stream exactly once or was dropped by
\* discardOverflow, one that returned an error is not in it (WriteResults).
THEOREM WritesTruthful == Spec => []WriteResults
<1>1. Init => ResultInv
  <2> SUFFICES ASSUME Init PROVE ResultInv
    BY Zenon
  <2>1. Range(<<>>) = {}
    BY DEF Range
  <2>2. WriteResults
    BY <2>1 DEF Init, WriteResults
  <2> QED BY <2>1, <2>2 DEF Init, ResultInv
<1>2. PipeInv /\ PipeInv' /\ ResultInv /\ [Next]_vars => ResultInv'
  BY Zenon, ResultInvStep DEF PipeInv
<1>3. ResultInv => WriteResults
  BY Zenon DEF ResultInv
<1> QED BY <1>1, <1>2, <1>3, PipeInvariant, PTL DEF Spec
=============================================================================
