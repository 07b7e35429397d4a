---------------------------- MODULE ReflexFrames ----------------------------
(***************************************************************************)
(* One direction of an established Reflex session (proxy/reflex/inbound,   *)
(* session.go): goroutines that share a Session write encrypted frames,    *)
(* the Session at the other end reads them.  A frame goes out as two       *)
(* writes, header and ciphertext, under writeMu; each end counts frames,   *)
(* and the count is the nonce.                                             *)
(*                                                                         *)
(* A frame is the nonce it was sealed with and the identity of its         *)
(* plaintext, <<w, k>> for the k-th frame of writer w.  Its ciphertext is  *)
(* the frame itself: seals of different frames differ, and only the nonce  *)
(* of the seal opens it.                                                   *)
(*                                                                         *)
(* Between the ends, whole frames may be repeated or lost and headers of   *)
(* length zero inserted, MaxFaults times.                                  *)
(***************************************************************************)
EXTENDS Integers, Sequences, Functions

CONSTANTS
  Writers, NoWriter,
  MaxFrames,    \* bound on the frames of a writer
  Window,       \* replayWindowSize
  MaxFaults     \* bound on faults

ASSUME FramesAssumption ==
  /\ NoWriter \notin Writers
  /\ MaxFrames \in Nat /\ Window \in Nat \ {0}
  /\ MaxFaults \in Nat

VARIABLES
  stopOnError,  \* the reader gives up at the first error, as handleSession does
  writeNonce,   \* the writing Session's counter
  writeMu,      \* who holds its mutex
  wpc, cur,     \* wpc[w], cur[w]: the progress of w in WriteFrame, its frame
  count,        \* count[w]: the calls w has made
  conn,         \* "up", "closed" (FIN after the data) or "reset"
  wire,         \* the pieces written and not yet read
  readNonce, replaySeen, replayOrder,  \* the reading Session
  rpc,          \* "header" or "payload" next, or "eof", "stopped"
  written,      \* history: the frames that went out whole
  delivered,    \* history: the frames ReadFrame returned
  tooLarge,     \* history: a frame was refused for its size
  faults,       \* history: the faults so far
  disordered    \* history: one of them was more than a repetition within the window

sender == <<writeNonce, writeMu, wpc, cur, count, written, tooLarge>>
receiver == <<readNonce, replaySeen, replayOrder, rpc, delivered>>
faultVars == <<faults, disordered>>
vars == <<stopOnError, sender, conn, wire, receiver, faultVars>>

Frames == [nonce : Nat, id : Writers \X (1..MaxFrames)]
Piece(k, f) == [kind |-> k, frame |-> f]
NoFrame == [nonce |-> 0, id |-> <<NoWriter, 0>>]
Pieces == [kind : {"header", "payload", "empty"}, frame : Frames \cup {NoFrame}]
Empty == Piece("empty", NoFrame)   \* a header of length zero

Init ==
  /\ stopOnError \in BOOLEAN
  /\ writeNonce = 0 /\ writeMu = NoWriter
  /\ wpc = [w \in Writers |-> "idle"]
  /\ cur = [w \in Writers |-> NoFrame]
  /\ count = [w \in Writers |-> 0]
  /\ conn = "up" /\ wire = <<>>
  /\ readNonce = 0 /\ replaySeen = {} /\ replayOrder = <<>> /\ rpc = "header"
  /\ written = <<>> /\ delivered = <<>>
  /\ tooLarge = FALSE /\ faults = 0 /\ disordered = FALSE

-----------------------------------------------------------------------------
(* WriteFrame.                                                             *)

makeNonce_Narrow(counter) == counter % 2

\* The counter fills eight of the twelve bytes, so that no two counts meet.
makeNonce(counter) == counter

\* The calls of w, when the mutex allows, with the nonce of the counter.
Sealed(w) == [nonce |-> makeNonce(writeNonce), id |-> <<w, count[w] + 1>>]

WriteFrame_NoMutex(w) ==
  /\ wpc[w] = "idle" /\ count[w] < MaxFrames
  /\ count' = [count EXCEPT ![w] = @ + 1]
  /\ writeNonce' = writeNonce + 1
  /\ cur' = [cur EXCEPT ![w] = Sealed(w)]
  /\ wpc' = [wpc EXCEPT ![w] = "header"]
  /\ UNCHANGED <<writeMu, tooLarge, written, conn, wire, receiver, faultVars>>

\* The nonce is taken and counted before the size is known: a frame that turns
\* out too large is refused and its nonce is gone.
WriteFrame(w) ==
  /\ wpc[w] = "idle" /\ writeMu = NoWriter /\ count[w] < MaxFrames
  /\ count' = [count EXCEPT ![w] = @ + 1]
  /\ writeNonce' = writeNonce + 1
  /\ \/ /\ cur' = [cur EXCEPT ![w] = Sealed(w)]
        /\ writeMu' = w
        /\ wpc' = [wpc EXCEPT ![w] = "header"]
        /\ UNCHANGED tooLarge
     \/ /\ tooLarge' = TRUE
        /\ UNCHANGED <<cur, writeMu, wpc>>
  /\ UNCHANGED <<written, conn, wire, receiver, faultVars>>

\* WriteFrame returns and the deferred Unlock runs.
Return(w) ==
  /\ wpc' = [wpc EXCEPT ![w] = "idle"]
  /\ writeMu' = NoWriter

WriteHeader(w) ==
  /\ wpc[w] = "header" /\ conn = "up"
  /\ wire' = Append(wire, Piece("header", cur[w]))
  /\ wpc' = [wpc EXCEPT ![w] = "payload"]
  /\ UNCHANGED <<writeNonce, writeMu, cur, count, written, tooLarge, conn, receiver, faultVars>>

WritePayload(w) ==
  /\ wpc[w] = "payload" /\ conn = "up"
  /\ wire' = Append(wire, Piece("payload", cur[w]))
  /\ written' = Append(written, cur[w])
  /\ Return(w)
  /\ UNCHANGED <<writeNonce, cur, count, tooLarge, conn, receiver, faultVars>>

\* Either write fails, possibly after a part of it went out.
WriteFails(w) ==
  /\ wpc[w] \in {"header", "payload"} /\ conn # "up"
  /\ Return(w)
  /\ UNCHANGED <<writeNonce, cur, count, written, tooLarge, conn, wire, receiver, faultVars>>

-----------------------------------------------------------------------------
(* rememberCiphertext and ReadFrame.                                       *)

rememberCiphertext_ForgetNewest(c) ==
  LET order == Append(replayOrder, c)
      full == Len(order) > Window
  IN  /\ replayOrder' = IF full THEN Tail(order) ELSE order
      /\ replaySeen' = IF full THEN replaySeen ELSE replaySeen \cup {c}

\* The answer for a ciphertext not in the window: it is remembered, and the
\* oldest one forgotten when there are too many.
rememberCiphertext(c) ==
  LET order == Append(replayOrder, c)
      full == Len(order) > Window
  IN  /\ replayOrder' = IF full THEN Tail(order) ELSE order
      /\ replaySeen' = IF full THEN (replaySeen \cup {c}) \ {Head(order)}
                               ELSE replaySeen \cup {c}

\* aead.Open: what stands where a ciphertext is expected is one, and its nonce
\* is the reader's count.
Opens(c) == c.kind = "payload" /\ c.frame.nonce = makeNonce(readNonce)

AfterError == IF stopOnError THEN "stopped" ELSE "header"

ReadHeader ==
  /\ rpc = "header" /\ wire # <<>>
  /\ \/ /\ Head(wire).kind = "header"
        /\ rpc' = "payload"
     \/ /\ Head(wire).kind = "empty"
        /\ rpc' = AfterError
  /\ wire' = Tail(wire)
  /\ UNCHANGED <<sender, conn, readNonce, replaySeen, replayOrder, delivered, faultVars>>

ReadPayload_CountFirst ==
  /\ rpc = "payload" /\ wire # <<>>
  /\ readNonce' = readNonce + 1
  /\ \/ /\ Head(wire) \in replaySeen
        /\ rpc' = AfterError
        /\ UNCHANGED <<replaySeen, replayOrder, delivered>>
     \/ /\ Head(wire) \notin replaySeen
        /\ rememberCiphertext(Head(wire))
        /\ IF Opens(Head(wire))
           THEN delivered' = Append(delivered, Head(wire).frame) /\ rpc' = "header"
           ELSE rpc' = AfterError /\ UNCHANGED delivered
  /\ wire' = Tail(wire)
  /\ UNCHANGED <<sender, conn, faultVars>>

ReadPayload_NotCounted ==
  /\ rpc = "payload" /\ wire # <<>>
  /\ \/ /\ Head(wire) \in replaySeen
        /\ rpc' = AfterError
        /\ UNCHANGED <<replaySeen, replayOrder, delivered>>
     \/ /\ Head(wire) \notin replaySeen
        /\ rememberCiphertext(Head(wire))
        /\ IF Opens(Head(wire))
           THEN delivered' = Append(delivered, Head(wire).frame) /\ rpc' = "header"
           ELSE rpc' = AfterError /\ UNCHANGED delivered
  /\ wire' = Tail(wire)
  /\ UNCHANGED <<sender, conn, readNonce, faultVars>>

\* A ciphertext seen before is refused and costs no nonce; any other one is
\* remembered and costs a nonce, whether it opens or not.
ReadPayload ==
  /\ rpc = "payload" /\ wire # <<>>
  /\ \/ /\ Head(wire) \in replaySeen
        /\ rpc' = AfterError
        /\ UNCHANGED <<readNonce, replaySeen, replayOrder, delivered>>
     \/ /\ Head(wire) \notin replaySeen
        /\ rememberCiphertext(Head(wire))
        /\ readNonce' = readNonce + 1
        /\ IF Opens(Head(wire))
           THEN delivered' = Append(delivered, Head(wire).frame) /\ rpc' = "header"
           ELSE rpc' = AfterError /\ UNCHANGED delivered
  /\ wire' = Tail(wire)
  /\ UNCHANGED <<sender, conn, faultVars>>

ReadEnd_ResetIsEOF ==
  /\ rpc \in {"header", "payload"}
  /\ \/ conn = "closed" /\ wire = <<>> /\ rpc' \in {"eof", "stopped"}
     \/ conn = "reset" /\ rpc' = "eof"
  /\ UNCHANGED <<sender, conn, wire, readNonce, replaySeen, replayOrder, delivered, faultVars>>

\* io.ReadFull at the end of the connection.  A FIN on a boundary of the two
\* reads of a frame is io.EOF, within one of them io.ErrUnexpectedEOF; a reset
\* is an error and may overtake what is still on its way.
ReadEnd ==
  /\ rpc \in {"header", "payload"}
  /\ \/ conn = "closed" /\ wire = <<>> /\ rpc' \in {"eof", "stopped"}
     \/ conn = "reset" /\ rpc' = "stopped"
  /\ UNCHANGED <<sender, conn, wire, readNonce, replaySeen, replayOrder, delivered, faultVars>>

-----------------------------------------------------------------------------
(* The connection.                                                         *)

\* Either end closes it, or the network gives up.
ConnEnds ==
  /\ conn = "up"
  /\ conn' \in {"closed", "reset"}
  /\ UNCHANGED <<sender, wire, receiver, faultVars>>

\* The places of the wire between two frames.
Boundaries ==
  { i \in 0..Len(wire) :
      /\ IF i = 0 THEN rpc # "payload" ELSE wire[i].kind # "header"
      /\ i < Len(wire) => wire[i + 1].kind # "payload" }

Spliced(i, s) == SubSeq(wire, 1, i) \o s \o SubSeq(wire, i + 1, Len(wire))

Fault(harmless) ==
  /\ faults < MaxFaults /\ rpc \in {"header", "payload"}
  /\ faults' = faults + 1
  /\ disordered' = (disordered \/ ~ harmless)
  /\ UNCHANGED <<sender, conn, receiver>>

Whole(f) == <<Piece("header", f), Piece("payload", f)>>

\* A frame that has been read arrives once more.
Repeat ==
  \E n \in 1..Len(delivered) :
    /\ 0 \in Boundaries
    /\ wire' = Spliced(0, Whole(delivered[n]))
    /\ Fault(n + Window > Len(delivered))

\* A frame that went out arrives at any other place.
Displace ==
  /\ Fault(FALSE)
  /\ \E i \in Boundaries, n \in 1..Len(written) : wire' = Spliced(i, Whole(written[n]))

Lose ==
  /\ Fault(FALSE)
  /\ \E i \in 1..(Len(wire) - 1) :
       /\ wire[i].kind = "header"
       /\ wire[i + 1].kind = "payload"
       /\ wire' = SubSeq(wire, 1, i - 1) \o SubSeq(wire, i + 2, Len(wire))

InsertEmpty ==
  /\ Fault(FALSE)
  /\ \E i \in Boundaries : wire' = Spliced(i, <<Empty>>)

-----------------------------------------------------------------------------

ReadFrame == ReadHeader \/ ReadPayload \/ ReadEnd
Writing(w) == WriteHeader(w) \/ WritePayload(w) \/ WriteFails(w)

Next ==
  /\ \/ \E w \in Writers : WriteFrame(w) \/ Writing(w)
     \/ ReadFrame
     \/ ConnEnds
     \/ Repeat \/ Displace \/ Lose \/ InsertEmpty
  /\ UNCHANGED stopOnError

Spec == Init /\ [][Next]_vars

\* Goroutines inside WriteFrame and the reading loop are scheduled, and the
\* connection takes what is written.
FairSpec ==
  /\ Spec
  /\ WF_vars(ReadFrame /\ UNCHANGED stopOnError)
  /\ \A w \in Writers : WF_vars(Writing(w) /\ UNCHANGED stopOnError)

-----------------------------------------------------------------------------
(* Properties.                                                             *)

\* Type correctness of both Sessions and of what is between them.
TypeOK ==
  /\ stopOnError \in BOOLEAN
  /\ writeNonce \in Nat /\ readNonce \in Nat
  /\ writeMu \in Writers \cup {NoWriter}
  /\ wpc \in [Writers -> {"idle", "header", "payload"}]
  /\ cur \in [Writers -> Frames \cup {NoFrame}]
  /\ count \in [Writers -> 0..MaxFrames]
  /\ conn \in {"up", "closed", "reset"}
  /\ wire \in Seq(Pieces)
  /\ replaySeen \subseteq Pieces /\ replayOrder \in Seq(Pieces)
  /\ rpc \in {"header", "payload", "eof", "stopped"}
  /\ written \in Seq(Frames) /\ delivered \in Seq(Frames)
  /\ tooLarge \in BOOLEAN /\ disordered \in BOOLEAN /\ faults \in 0..MaxFaults

\* Whatever happens between the ends, a session that stops at the first error
\* has been given the frames that were written, in order, from the first on.
DeliveredInOrder ==
  stopOnError => /\ Len(delivered) <= Len(written)
                 /\ \A i \in 1..Len(delivered) : delivered[i] = written[i]

\* Its inductive form.  The mutex makes the holder's nonce the latest one, so
\* that frames go out in the order of their nonces; what is on the wire went
\* out before; and as long as the reader has met no error, it has been given
\* the frame of every nonce below its count.
FramesInv ==
  /\ TypeOK
  /\ \A w \in Writers : wpc[w] # "idle" =>
       /\ writeMu = w /\ cur[w] \in Frames /\ cur[w].nonce < writeNonce
       /\ \A i \in 1..Len(written) : written[i].nonce < cur[w].nonce
  /\ \A i \in 1..Len(written) : written[i].nonce < writeNonce
  /\ \A i, j \in 1..Len(written) : i < j => written[i].nonce < written[j].nonce
  /\ \A p \in Range(wire) : p.kind = "payload" => p.frame \in Range(written)
  /\ Range(delivered) \subseteq Range(written)
  /\ DeliveredInOrder
  /\ stopOnError =>
       /\ \A i \in 1..Len(delivered) : delivered[i].nonce = i - 1
       /\ rpc \in {"header", "payload"} => readNonce = Len(delivered)

\* A reader that goes on after errors may miss frames, but never sees one
\* twice or out of order.
NeverBackwards ==
  /\ Range(delivered) \subseteq Range(written)
  /\ \A i, j \in 1..Len(delivered) : i < j => delivered[i].nonce < delivered[j].nonce

\* The two writes of a frame are never torn apart by another writer: after a
\* header comes its own ciphertext, and the order of the nonces is the order
\* on the wire.
FramesWhole ==
  /\ \A i \in 1..(Len(wire) - 1) :
       wire[i].kind = "header" =>
         wire[i + 1].kind = "payload" /\ wire[i + 1].frame = wire[i].frame
  /\ \A i, j \in 1..Len(written) : i < j => written[i].nonce < written[j].nonce

\* The map and the queue of the replay window agree, the queue holds nothing
\* twice, and they stay within the limit.
WindowCoherent ==
  /\ replaySeen = Range(replayOrder)
  /\ IsInjective(replayOrder)
  /\ Len(replayOrder) <= Window

\* io.EOF at the reader means that it has everything that went out whole, when
\* nothing but repetitions within the window came between and no frame had been
\* refused.
EofComplete ==
  rpc = "eof" /\ ~ disordered /\ ~ tooLarge => delivered = written

\* Repetitions of frames that are still in the window cost a reader that goes
\* on nothing: its count stays that of the frames it was given.
RepeatsHarmless ==
  ~ disordered /\ ~ tooLarge => readNonce = Len(delivered)

\* Without faults and refusals every frame written is read, unless the
\* connection breaks.
AllDelivered ==
  \A w \in Writers, k \in 1..MaxFrames :
    (\E i \in 1..Len(written) : written[i].id = <<w, k>>) ~>
      \/ \E i \in 1..Len(delivered) : delivered[i].id = <<w, k>>
      \/ conn = "reset" \/ faults > 0 \/ tooLarge
=============================================================================
