------------------------- MODULE ReflexFrames_proofs -------------------------
(***************************************************************************)
(* Proofs about ReflexFrames, for any number of writers, frames and faults *)
(* and any window.                                                         *)
(***************************************************************************)
EXTENDS ReflexFrames, TLAPS

-----------------------------------------------------------------------------
(* What the operations on sequences do to the set of their elements.       *)

\* A concatenation has the elements of both parts.
LEMMA RangeConcat ==
  ASSUME NEW S, NEW s \in Seq(S), NEW t \in Seq(S)
  PROVE  Range(s \o t) = Range(s) \cup Range(t)
<1>1. ASSUME NEW x \in Range(s \o t) PROVE x \in Range(s) \cup Range(t)
  <2>1. PICK i \in 1..Len(s \o t) : x = (s \o t)[i]
    BY <1>1 DEF Range
  <2>2. CASE i <= Len(s)
    BY <2>1, <2>2 DEF Range
  <2>3. CASE i > Len(s)
    <3>1. x = t[i - Len(s)] /\ i - Len(s) \in 1..Len(t)
      BY <2>1, <2>3
    <3> QED BY <3>1 DEF Range
  <2> QED BY <2>2, <2>3
<1>2. ASSUME NEW x \in Range(s) PROVE x \in Range(s \o t)
  <2>1. PICK i \in 1..Len(s) : x = s[i]
    BY <1>2 DEF Range
  <2>2. x = (s \o t)[i] /\ i \in 1..Len(s \o t)
    BY <2>1
  <2> QED BY <2>2 DEF Range
<1>3. ASSUME NEW x \in Range(t) PROVE x \in Range(s \o t)
  <2>1. PICK i \in 1..Len(t) : x = t[i]
    BY <1>3 DEF Range
  <2>2. x = (s \o t)[Len(s) + i] /\ Len(s) + i \in 1..Len(s \o t)
    BY <2>1
  <2> QED BY <2>2 DEF Range
<1> QED BY Zenon, <1>1, <1>2, <1>3

\* Append adds one element.
LEMMA RangeAppend ==
  ASSUME NEW S, NEW s \in Seq(S), NEW x \in S
  PROVE  Range(Append(s, x)) = Range(s) \cup {x}
<1>1. ASSUME NEW y \in Range(Append(s, x)) PROVE y \in Range(s) \cup {x}
  <2>1. PICK i \in 1..Len(Append(s, x)) : y = Append(s, x)[i]
    BY <1>1 DEF Range
  <2>2. CASE i \in 1..Len(s)
    BY <2>1, <2>2 DEF Range
  <2>3. CASE i = Len(s) + 1
    BY <2>1, <2>3
  <2> QED BY <2>1, <2>2, <2>3
<1>2. ASSUME NEW y \in Range(s) PROVE y \in Range(Append(s, x))
  <2>1. PICK i \in 1..Len(s) : y = s[i]
    BY <1>2 DEF Range
  <2>2. y = Append(s, x)[i] /\ i \in 1..Len(Append(s, x))
    BY <2>1
  <2> QED BY <2>2 DEF Range
<1>3. x \in Range(Append(s, x))
  <2>1. x = Append(s, x)[Len(s) + 1] /\ Len(s) + 1 \in 1..Len(Append(s, x))
    OBVIOUS
  <2> QED BY <2>1 DEF Range
<1> QED BY Zenon, <1>1, <1>2, <1>3

\* A subsequence has no other elements.
LEMMA RangeSubSeq ==
  ASSUME NEW S, NEW s \in Seq(S), NEW m \in Int, NEW n \in Int, 1 <= m, n <= Len(s)
  PROVE  SubSeq(s, m, n) \in Seq(S) /\ Range(SubSeq(s, m, n)) \subseteq Range(s)
<1>1. SubSeq(s, m, n) \in Seq(S)
  OBVIOUS
<1>2. ASSUME NEW x \in Range(SubSeq(s, m, n)) PROVE x \in Range(s)
  <2>1. PICK i \in 1..Len(SubSeq(s, m, n)) : x = SubSeq(s, m, n)[i]
    BY <1>1, <1>2 DEF Range
  <2>2. x = s[m + i - 1] /\ m + i - 1 \in 1..Len(s)
    BY <2>1
  <2> QED BY <2>2 DEF Range
<1> QED BY Zenon, <1>1, <1>2

\* The tail has no other elements, and the head is one of them.
LEMMA RangeTail ==
  ASSUME NEW S, NEW s \in Seq(S), s # <<>>
  PROVE  /\ Tail(s) \in Seq(S) /\ Range(Tail(s)) \subseteq Range(s)
         /\ Head(s) \in Range(s) /\ Head(s) \in S
<1>1. Tail(s) \in Seq(S) /\ Len(s) \in Nat /\ Len(s) >= 1
  OBVIOUS
<1>2. ASSUME NEW x \in Range(Tail(s)) PROVE x \in Range(s)
  <2>1. PICK i \in 1..Len(Tail(s)) : x = Tail(s)[i]
    BY <1>1, <1>2 DEF Range
  <2>2. x = s[i + 1] /\ i + 1 \in 1..Len(s)
    BY <1>1, <2>1
  <2> QED BY <2>2 DEF Range
<1>3. Head(s) = s[1] /\ 1 \in 1..Len(s)
  BY <1>1
<1> QED BY <1>1, <1>2, <1>3 DEF Range

-----------------------------------------------------------------------------
(* The invariant.                                                          *)

\* The invariant in parts: the order of the nonces, which the mutex keeps, ...
Structure ==
  /\ \A w \in Writers : wpc[w] # "idle" =>
       /\ writeMu = w /\ cur[w] \in Frames /\ cur[w].nonce < writeNonce
       /\ \A i \in 1..Len(written) : written[i].nonce < cur[w].nonce
  /\ \A i \in 1..Len(written) : written[i].nonce < writeNonce
  /\ \A i, j \in 1..Len(written) : i < j => written[i].nonce < written[j].nonce

\* ... what is under way, ...
OnWire == \A p \in Range(wire) : p.kind = "payload" => p.frame \in Range(written)

WentOut == Range(delivered) \subseteq Range(written)

\* ... and what the reader has been given.
Reading ==
  /\ DeliveredInOrder
  /\ stopOnError =>
       /\ \A i \in 1..Len(delivered) : delivered[i].nonce = i - 1
       /\ rpc \in {"header", "payload"} => readNonce = Len(delivered)

\* The parts of the invariant, each with the state it is about.
LEMMA InvParts == FramesInv <=> TypeOK /\ Structure /\ OnWire /\ WentOut /\ Reading
BY Zenon DEF FramesInv, Structure, OnWire, WentOut, Reading

\* Inserting frames keeps the wire a sequence of pieces.
LEMMA SplicedType ==
  ASSUME TypeOK, NEW i \in Boundaries, NEW s \in Seq(Pieces)
  PROVE  /\ Spliced(i, s) \in Seq(Pieces)
         /\ Range(Spliced(i, s)) \subseteq Range(wire) \cup Range(s)
<1>1. wire \in Seq(Pieces) /\ i \in 0..Len(wire)
  BY Zenon DEF TypeOK, Boundaries
<1> DEFINE a == SubSeq(wire, 1, i)
           b == SubSeq(wire, i + 1, Len(wire))
<1>2. a \in Seq(Pieces) /\ Range(a) \subseteq Range(wire)
  BY <1>1, RangeSubSeq
<1>3. b \in Seq(Pieces) /\ Range(b) \subseteq Range(wire)
  BY <1>1, RangeSubSeq
<1>4. a \o s \in Seq(Pieces) /\ Range(a \o s) = Range(a) \cup Range(s)
  <2> HIDE DEF a
  <2> QED BY <1>2, RangeConcat
<1> DEFINE c == a \o s
<1>5. c \o b \in Seq(Pieces) /\ Range(c \o b) = Range(c) \cup Range(b)
  <2>1. c \in Seq(Pieces) /\ b \in Seq(Pieces)
    BY Zenon, <1>3, <1>4
  <2> HIDE DEF b, c
  <2> QED BY <2>1, RangeConcat
<1> QED BY Zenon, <1>2, <1>3, <1>4, <1>5 DEF Spliced

\* The pieces of a frame are of that frame.
LEMMA WholeFrame ==
  ASSUME NEW f \in Frames
  PROVE  /\ Whole(f) \in Seq(Pieces)
         /\ \A p \in Range(Whole(f)) : p.frame = f
<1> DEFINE h == Piece("header", f)
           b == Piece("payload", f)
<1>1. h \in Pieces /\ b \in Pieces /\ h.frame = f /\ b.frame = f
  BY Zenon DEF Piece, Pieces
<1>2. <<h, b>> \in Seq(Pieces) /\ DOMAIN <<h, b>> = {1, 2}
  <2> HIDE DEF h, b
  <2> QED BY <1>1
<1>3. Range(<<h, b>>) = {h, b}
  <2> HIDE DEF h, b
  <2> QED BY <1>1, <1>2 DEF Range
<1> QED BY Zenon, <1>1, <1>2, <1>3 DEF Whole

\* A fault changes nothing but the wire, and what it puts there went out before.
LEMMA FaultStep ==
  ASSUME TypeOK, Reading, Repeat \/ Displace \/ Lose \/ InsertEmpty, OnWire, WentOut
  PROVE  /\ wire' \in Seq(Pieces) /\ OnWire'
         /\ UNCHANGED <<sender, conn, receiver>>
         /\ faults' \in 0..MaxFaults /\ disordered' \in BOOLEAN
<1>a. wire \in Seq(Pieces) /\ written \in Seq(Frames) /\ delivered \in Seq(Frames)
  BY Zenon DEF TypeOK
<1>1. /\ UNCHANGED <<sender, conn, receiver>>
      /\ faults < MaxFaults /\ faults' = faults + 1
  BY ZenonT(60) DEF Repeat, Displace, Lose, InsertEmpty, Fault
<1>2. UNCHANGED <<sender, conn, receiver>> /\ faults' \in 0..MaxFaults
  BY <1>1, FramesAssumption DEF TypeOK
<1>b. disordered' \in BOOLEAN
  BY ZenonT(60) DEF Repeat, Displace, Lose, InsertEmpty, Fault
<1>c. written' = written
  BY Zenon, <1>2 DEF sender
<1>3. ASSUME NEW i \in Boundaries, NEW f \in Range(written), wire' = Spliced(i, Whole(f))
      PROVE  wire' \in Seq(Pieces) /\ OnWire'
  <2>1. f \in Frames
    BY <1>a, <1>3 DEF Range
  <2> QED BY Zenon, <1>3, <1>c, <2>1, WholeFrame, SplicedType DEF OnWire
<1>4. CASE Repeat
  <2>1. PICK n \in 1..Len(delivered) :
          0 \in Boundaries /\ wire' = Spliced(0, Whole(delivered[n]))
    BY Zenon, <1>4 DEF Repeat
  <2>2. delivered[n] \in Range(delivered)
    BY <1>a DEF Range
  <2> QED BY Zenon, <1>2, <1>b, <1>3, <2>1, <2>2 DEF WentOut
<1>5. CASE Displace
  <2>1. PICK i \in Boundaries, n \in 1..Len(written) : wire' = Spliced(i, Whole(written[n]))
    BY Zenon, <1>5 DEF Displace
  <2>2. written[n] \in Range(written)
    BY <1>a DEF Range
  <2> QED BY Zenon, <1>2, <1>b, <1>3, <2>1, <2>2
<1>6. CASE Lose
  <2>1. PICK i \in 1..(Len(wire) - 1) :
          wire' = SubSeq(wire, 1, i - 1) \o SubSeq(wire, i + 2, Len(wire))
    BY ZenonT(60), <1>6 DEF Lose
  <2> DEFINE a == SubSeq(wire, 1, i - 1)
             b == SubSeq(wire, i + 2, Len(wire))
  <2>2. a \in Seq(Pieces) /\ Range(a) \subseteq Range(wire)
    BY <1>a, RangeSubSeq
  <2>3. b \in Seq(Pieces) /\ Range(b) \subseteq Range(wire)
    BY <1>a, RangeSubSeq
  <2>4. a \o b \in Seq(Pieces) /\ Range(a \o b) = Range(a) \cup Range(b)
    <3> HIDE DEF a, b
    <3> QED BY <2>2, <2>3, RangeConcat
  <2> QED BY SMTT(30), <1>2, <1>b, <1>c, <2>1, <2>2, <2>3, <2>4 DEF OnWire
<1>7. CASE InsertEmpty
  <2>1. PICK i \in Boundaries : wire' = Spliced(i, <<Empty>>)
    BY Zenon, <1>7 DEF InsertEmpty
  <2>a. Empty \in Pieces
    BY Zenon DEF Empty, Piece, Pieces
  <2>2. <<Empty>> \in Seq(Pieces) /\ Range(<<Empty>>) = {Empty}
    BY <2>a DEF Range
  <2>3. Empty.kind # "payload"
    BY Zenon DEF Empty, Piece
  <2> QED BY ZenonT(60), <1>2, <1>b, <1>c, <2>1, <2>2, <2>3, SplicedType DEF OnWire
<1> QED BY Zenon, <1>4, <1>5, <1>6, <1>7

\* Every step keeps the types.
LEMMA TypeStep ==
  ASSUME FramesInv, [Next]_vars
  PROVE  TypeOK'
<1> stopOnError' = stopOnError
  BY Zenon DEF Next, vars
<1> USE DEF TypeOK
<1>0. TypeOK /\ Structure /\ OnWire /\ WentOut /\ Reading
  BY Zenon, InvParts
<1>1. ASSUME NEW w \in Writers, WriteFrame(w) PROVE TypeOK'
  <2>1. count[w] + 1 \in 1..MaxFrames
    BY <1>0, <1>1, FramesAssumption DEF WriteFrame
  <2>2. Sealed(w) \in Frames
    BY Zenon, <1>0, <2>1 DEF Sealed, Frames, makeNonce
  <2>3. writeNonce' \in Nat /\ count' \in [Writers -> 0..MaxFrames]
    BY <1>0, <1>1, <2>1 DEF WriteFrame
  <2>4. /\ writeMu' \in Writers \cup {NoWriter} /\ cur' \in [Writers -> Frames \cup {NoFrame}]
        /\ wpc' \in [Writers -> {"idle", "header", "payload"}]
    BY ZenonT(60), <1>0, <1>1, <2>2 DEF WriteFrame
  <2>5. tooLarge' \in BOOLEAN
    BY ZenonT(60), <1>0, <1>1 DEF WriteFrame
  <2> QED BY Zenon, <1>0, <1>1, <2>3, <2>4, <2>5 DEF WriteFrame, receiver, faultVars
<1>2. ASSUME NEW w \in Writers, Writing(w) PROVE TypeOK'
  <2>1. cur[w] \in Frames \cup {NoFrame}
    BY Zenon, <1>0
  <2>2. Piece("header", cur[w]) \in Pieces /\ Piece("payload", cur[w]) \in Pieces
    BY Zenon, <2>1 DEF Piece, Pieces
  <2>3. CASE WriteHeader(w)
    <3>1. wire' \in Seq(Pieces)
      BY <1>0, <2>2, <2>3 DEF WriteHeader
    <3> QED BY Zenon, <1>0, <2>3, <3>1 DEF WriteHeader, receiver, faultVars
  <2>4. CASE WritePayload(w)
    <3>1. cur[w] \in Frames
      BY Zenon, <1>0, <2>4 DEF WritePayload, Structure
    <3>2. wire' \in Seq(Pieces) /\ written' \in Seq(Frames)
      BY <1>0, <2>2, <2>4, <3>1 DEF WritePayload
    <3> QED BY Zenon, <1>0, <2>4, <3>2 DEF WritePayload, Return, receiver, faultVars
  <2>5. CASE WriteFails(w)
    BY Zenon, <1>0, <2>5 DEF WriteFails, Return, receiver, faultVars
  <2> QED BY Zenon, <1>2, <2>3, <2>4, <2>5 DEF Writing
<1>3. CASE ReadHeader
  <2>1. wire' \in Seq(Pieces) /\ rpc' \in {"header", "payload", "stopped"}
    BY Zenon, <1>0, <1>3, RangeTail DEF ReadHeader, AfterError
  <2> QED BY Zenon, <1>0, <1>3, <2>1 DEF ReadHeader, sender, faultVars
<1>4. CASE ReadPayload
  <2> DEFINE c == Head(wire)
  <2>1. /\ wire' \in Seq(Pieces) /\ wire # <<>> /\ c \in Range(wire) /\ c \in Pieces
        /\ wire' = Tail(wire)
    BY Zenon, <1>0, <1>4, RangeTail DEF ReadPayload
  <2> DEFINE order == Append(replayOrder, c)
  <2>2. order \in Seq(Pieces) /\ order # <<>>
    <3>1. replayOrder \in Seq(Pieces) /\ c \in Pieces
      BY Zenon, <1>0, <2>1
    <3> HIDE DEF c
    <3>2. order \in Seq(Pieces) /\ Len(order) = Len(replayOrder) + 1 /\ Len(replayOrder) \in Nat
      BY <3>1
    <3>3. Len(order) # Len(<<>>)
      BY <3>2
    <3> QED BY Zenon, <3>2, <3>3
  <2>3. replayOrder' \in Seq(Pieces)
    <3>1. replayOrder' = replayOrder \/ replayOrder' = order \/ replayOrder' = Tail(order)
      BY Zenon, <1>4 DEF ReadPayload, rememberCiphertext
    <3>2. Tail(order) \in Seq(Pieces)
      <4> HIDE DEF order
      <4> QED BY Zenon, <2>2, RangeTail
    <3> HIDE DEF order
    <3> QED BY ZenonT(60), <1>0, <2>2, <3>1, <3>2
  <2>4. replaySeen' \subseteq Pieces
    BY Zenon, <1>0, <1>4, <2>1 DEF ReadPayload, rememberCiphertext
  <2>5. readNonce' \in Nat /\ rpc' \in {"header", "payload", "eof", "stopped"}
    BY SMTT(30), <1>0, <1>4 DEF ReadPayload, AfterError
  <2>6. delivered' \in Seq(Frames)
    <3>1. Opens(c) => c.frame \in Frames
      <4>1. Opens(c) => c.frame \in Range(written)
        BY Zenon, <1>0, <2>1 DEF Opens, OnWire
      <4>2. Range(written) \subseteq Frames
        BY <1>0 DEF Range
      <4> HIDE DEF c
      <4> QED BY Zenon, <4>1, <4>2
    <3>2. delivered' = delivered \/ (Opens(c) /\ delivered' = Append(delivered, c.frame))
      BY Zenon, <1>4 DEF ReadPayload
    <3>3. delivered \in Seq(Frames)
      BY Zenon, <1>0
    <3> DEFINE f == c.frame
    <3> HIDE DEF f
    <3>4. f \in Frames => Append(delivered, f) \in Seq(Frames)
      BY <3>3
    <3> QED BY Zenon, <3>1, <3>2, <3>3, <3>4 DEF f
  <2> QED BY SMTT(30), <1>0, <1>4, <2>1, <2>3, <2>4, <2>5, <2>6 DEF ReadPayload, sender, faultVars
<1>5. CASE ReadEnd \/ ConnEnds
  BY SMTT(30), <1>0, <1>5 DEF ReadEnd, ConnEnds, sender, receiver, faultVars
<1>6. CASE Repeat \/ Displace \/ Lose \/ InsertEmpty
  BY SMTT(30), <1>0, <1>6, FaultStep DEF sender, receiver
<1>7. CASE UNCHANGED vars
  BY Zenon, <1>0, <1>7 DEF vars, sender, receiver, faultVars
<1> QED
  BY Zenon, <1>1, <1>2, <1>3, <1>4, <1>5, <1>6, <1>7 DEF Next, ReadFrame

\* The writers' side: the mutex keeps the frames in the order of their nonces.
LEMMA StructureStep ==
  ASSUME FramesInv, [Next]_vars
  PROVE  Structure'
<1>0. TypeOK /\ Structure /\ OnWire /\ WentOut /\ Reading
  BY Zenon, InvParts
<1>a. /\ written \in Seq(Frames) /\ writeNonce \in Nat
      /\ wpc \in [Writers -> {"idle", "header", "payload"}]
      /\ cur \in [Writers -> Frames \cup {NoFrame}]
      /\ count \in [Writers -> 0..MaxFrames]
      /\ \A f \in Frames : f.nonce \in Nat
  BY Zenon, <1>0 DEF TypeOK, Frames
<1>b. \A i \in 1..Len(written) : written[i] \in Frames /\ written[i].nonce \in Nat
  BY <1>a
<1>1. ASSUME UNCHANGED <<writeNonce, writeMu, wpc, cur, written>> PROVE Structure'
  BY Zenon, <1>0, <1>1 DEF Structure
<1>2. ASSUME NEW w \in Writers, WriteFrame(w) PROVE Structure'
  <2>1. writeNonce' = writeNonce + 1 /\ written' = written /\ writeMu = NoWriter
    BY Zenon, <1>2 DEF WriteFrame
  <2>2. \A v \in Writers : wpc[v] = "idle"
    BY Zenon, <1>0, <2>1, FramesAssumption DEF Structure
  <2>3. CASE cur' = cur /\ wpc' = wpc
    BY <1>0, <1>a, <1>b, <2>1, <2>2, <2>3 DEF Structure
  <2>4. CASE /\ cur' = [cur EXCEPT ![w] = Sealed(w)] /\ writeMu' = w
             /\ wpc' = [wpc EXCEPT ![w] = "header"]
    <3>1. count[w] + 1 \in 1..MaxFrames
      BY <1>2, <1>a, FramesAssumption DEF WriteFrame
    <3>2. Sealed(w) \in Frames /\ Sealed(w).nonce = writeNonce
      BY Zenon, <1>a, <3>1 DEF Sealed, Frames, makeNonce
    <3>3. cur'[w] = Sealed(w) /\ \A v \in Writers : wpc'[v] # "idle" => v = w
      BY Zenon, <1>a, <2>2, <2>4
    <3> QED BY <1>0, <1>a, <1>b, <2>1, <2>4, <3>2, <3>3 DEF Structure
  <2> QED BY Zenon, <1>2, <2>3, <2>4 DEF WriteFrame
<1>3. ASSUME NEW w \in Writers, WriteHeader(w) PROVE Structure'
  <2>1. wpc[w] = "header" /\ wpc' = [wpc EXCEPT ![w] = "payload"]
        /\ UNCHANGED <<writeNonce, writeMu, cur, written>>
    BY Zenon, <1>3 DEF WriteHeader
  <2> QED BY SMTT(30), <1>0, <1>a, <2>1 DEF Structure
<1>4. ASSUME NEW w \in Writers, WritePayload(w) PROVE Structure'
  <2>1. /\ wpc[w] = "payload" /\ wpc' = [wpc EXCEPT ![w] = "idle"]
        /\ written' = Append(written, cur[w]) /\ UNCHANGED <<writeNonce, cur>>
    BY Zenon, <1>4 DEF WritePayload, Return
  <2>2. /\ writeMu = w /\ cur[w] \in Frames /\ cur[w].nonce < writeNonce
        /\ \A i \in 1..Len(written) : written[i].nonce < cur[w].nonce
    BY Zenon, <1>0, <2>1 DEF Structure
  <2>3. \A v \in Writers : wpc'[v] = "idle"
    BY Zenon, <1>0, <1>a, <2>1, <2>2 DEF Structure
  <2>4. /\ Len(written') = Len(written) + 1 /\ Len(written) \in Nat
        /\ written'[Len(written) + 1] = cur[w]
        /\ \A i \in 1..Len(written) : written'[i] = written[i]
    BY <1>a, <2>1, <2>2
  <2>5. \A i \in 1..Len(written') : i \in 1..Len(written) \/ i = Len(written) + 1
    BY <2>4
  <2>6. \A i \in 1..Len(written') : written'[i].nonce < writeNonce'
    BY Zenon, <1>0, <2>1, <2>2, <2>4, <2>5 DEF Structure
  <2>7. ASSUME NEW i \in 1..Len(written'), NEW j \in 1..Len(written'), i < j
        PROVE  written'[i].nonce < written'[j].nonce
    <3>1. i \in 1..Len(written)
      BY <2>4, <2>7
    <3>2. CASE j = Len(written) + 1
      BY Zenon, <2>2, <2>4, <3>1, <3>2
    <3>3. CASE j \in 1..Len(written)
      BY Zenon, <1>0, <2>4, <2>7, <3>1, <3>3 DEF Structure
    <3> QED BY Zenon, <2>5, <3>2, <3>3
  <2> QED BY Zenon, <2>3, <2>6, <2>7 DEF Structure
<1>5. ASSUME NEW w \in Writers, WriteFails(w) PROVE Structure'
  <2>1. /\ wpc[w] # "idle" /\ wpc' = [wpc EXCEPT ![w] = "idle"]
        /\ UNCHANGED <<writeNonce, cur, written>>
    BY Zenon, <1>5 DEF WriteFails, Return
  <2>2. \A v \in Writers : wpc'[v] = "idle"
    BY Zenon, <1>0, <1>a, <2>1 DEF Structure
  <2> QED BY Zenon, <1>0, <2>1, <2>2 DEF Structure
<1>6. CASE ReadFrame \/ ConnEnds
  BY Zenon, <1>1, <1>6 DEF ReadFrame, ReadHeader, ReadPayload, ReadEnd, ConnEnds, sender
<1>7. CASE Repeat \/ Displace \/ Lose \/ InsertEmpty
  BY Zenon, <1>0, <1>1, <1>7, FaultStep DEF sender
<1>8. CASE UNCHANGED vars
  BY Zenon, <1>1, <1>8 DEF vars, sender
<1> QED BY Zenon, <1>2, <1>3, <1>4, <1>5, <1>6, <1>7, <1>8 DEF Next, Writing

\* The wire: ciphertexts on it, and frames read from it, went out before.
LEMMA WireStep ==
  ASSUME FramesInv, [Next]_vars
  PROVE  OnWire' /\ WentOut'
<1>0. TypeOK /\ Structure /\ OnWire /\ WentOut /\ Reading
  BY Zenon, InvParts
<1>a. /\ wire \in Seq(Pieces) /\ written \in Seq(Frames) /\ delivered \in Seq(Frames)
      /\ cur \in [Writers -> Frames \cup {NoFrame}]
  BY Zenon, <1>0 DEF TypeOK
<1>1. ASSUME UNCHANGED <<wire, written, delivered>> PROVE OnWire' /\ WentOut'
  BY Zenon, <1>0, <1>1 DEF OnWire, WentOut
<1>2. ASSUME NEW w \in Writers, WriteHeader(w) PROVE OnWire' /\ WentOut'
  <2> DEFINE h == Piece("header", cur[w])
  <2>1. h \in Pieces /\ h.kind # "payload"
    BY Zenon, <1>a DEF Piece, Pieces
  <2>2. wire' = Append(wire, h) /\ UNCHANGED <<written, delivered>>
    BY Zenon, <1>2 DEF WriteHeader, receiver
  <2> HIDE DEF h
  <2>3. Range(wire') = Range(wire) \cup {h}
    BY <1>a, <2>1, <2>2, RangeAppend
  <2> QED BY Zenon, <1>0, <2>1, <2>2, <2>3 DEF OnWire, WentOut
<1>3. ASSUME NEW w \in Writers, WritePayload(w) PROVE OnWire' /\ WentOut'
  <2> DEFINE b == Piece("payload", cur[w])
  <2>0. cur[w] \in Frames
    BY Zenon, <1>0, <1>3 DEF WritePayload, Structure
  <2>1. b \in Pieces /\ b.frame = cur[w]
    BY Zenon, <2>0 DEF Piece, Pieces
  <2>2. wire' = Append(wire, b) /\ written' = Append(written, cur[w]) /\ delivered' = delivered
    BY Zenon, <1>3 DEF WritePayload, receiver
  <2> HIDE DEF b
  <2>3. Range(wire') = Range(wire) \cup {b}
    BY <1>a, <2>1, <2>2, RangeAppend
  <2>4. Range(written') = Range(written) \cup {cur[w]}
    BY <1>a, <2>0, <2>2, RangeAppend
  <2> QED BY Zenon, <1>0, <2>1, <2>2, <2>3, <2>4 DEF OnWire, WentOut
<1>4. CASE ReadHeader
  <2>1. wire # <<>> /\ wire' = Tail(wire) /\ UNCHANGED <<written, delivered>>
    BY Zenon, <1>4 DEF ReadHeader, sender
  <2>2. Range(wire') \subseteq Range(wire)
    BY Zenon, <1>a, <2>1, RangeTail
  <2> QED BY Zenon, <1>0, <2>1, <2>2 DEF OnWire, WentOut
<1>5. CASE ReadPayload
  <2> DEFINE f == Head(wire).frame
  <2>1. wire # <<>> /\ wire' = Tail(wire) /\ written' = written
    BY Zenon, <1>5 DEF ReadPayload, sender
  <2>2. Range(wire') \subseteq Range(wire) /\ Head(wire) \in Range(wire)
    BY Zenon, <1>a, <2>1, RangeTail
  <2>3. Opens(Head(wire)) => f \in Range(written)
    BY Zenon, <1>0, <2>2 DEF Opens, OnWire
  <2>4. delivered' = delivered \/ (f \in Range(written) /\ delivered' = Append(delivered, f))
    BY Zenon, <1>5, <2>3 DEF ReadPayload
  <2> HIDE DEF f
  <2>5. Range(written) \subseteq Frames
    BY <1>a DEF Range
  <2>6. f \in Frames => Range(Append(delivered, f)) = Range(delivered) \cup {f}
    BY <1>a, RangeAppend
  <2>7. Range(delivered') \subseteq Range(written)
    BY ZenonT(60), <1>0, <2>4, <2>5, <2>6 DEF WentOut
  <2> QED BY Zenon, <1>0, <2>1, <2>2, <2>7 DEF OnWire, WentOut
<1>6. CASE ReadEnd \/ ConnEnds \/ UNCHANGED vars
  BY Zenon, <1>1, <1>6 DEF ReadEnd, ConnEnds, vars, sender, receiver
<1>7. CASE Repeat \/ Displace \/ Lose \/ InsertEmpty
  <2>1. OnWire' /\ UNCHANGED <<written, delivered>>
    BY Zenon, <1>0, <1>7, FaultStep DEF sender, receiver
  <2> QED BY Zenon, <1>0, <2>1 DEF WentOut
<1>8. ASSUME NEW w \in Writers, WriteFrame(w) \/ WriteFails(w) PROVE OnWire' /\ WentOut'
  BY Zenon, <1>1, <1>8 DEF WriteFrame, WriteFails, receiver
<1> QED
  BY Zenon, <1>2, <1>3, <1>4, <1>5, <1>6, <1>7, <1>8 DEF Next, Writing, ReadFrame

\* The frame that opens is the one after those already given to the reader.
LEMMA NextFrame ==
  ASSUME TypeOK, Structure, Reading, stopOnError, rpc = "payload",
         NEW f \in Range(written), f.nonce = readNonce
  PROVE  Len(delivered) + 1 \in 1..Len(written) /\ written[Len(delivered) + 1] = f
<1>a. written \in Seq(Frames) /\ delivered \in Seq(Frames) /\ readNonce \in Nat
  BY Zenon DEF TypeOK
<1>e. \A g \in Frames : g.nonce \in Nat
  BY Zenon DEF Frames
<1>b. \A i \in 1..Len(written) : written[i].nonce \in Nat
  BY <1>a, <1>e
<1>c. Len(delivered) \in Nat /\ Len(written) \in Nat
  BY <1>a
<1>1. PICK j \in 1..Len(written) : f = written[j]
  BY <1>a DEF Range
<1>2. written[j].nonce = Len(delivered)
  BY Zenon, <1>1 DEF Reading
<1>d. /\ Len(delivered) <= Len(written)
      /\ \A i \in 1..Len(delivered) : delivered[i] = written[i] /\ delivered[i].nonce = i - 1
  BY Zenon DEF Reading, DeliveredInOrder
<1>3. \A i \in 1..Len(delivered) : written[i].nonce = i - 1 /\ i \in 1..Len(written)
  BY <1>c, <1>d
<1>4. j > Len(delivered)
  BY <1>2, <1>3, <1>c
<1>5. Len(delivered) + 1 \in 1..Len(written)
  BY <1>4, <1>c
\* Nonces grow along the wire, so that no frame lies between the last one given
\* to the reader and the one with the next nonce.
<1>6. written[Len(delivered) + 1].nonce >= Len(delivered)
  <2>1. CASE Len(delivered) = 0
    BY <1>b, <1>5, <2>1
  <2>2. CASE Len(delivered) > 0
    <3>1. Len(delivered) \in 1..Len(delivered) /\ Len(delivered) \in 1..Len(written)
      BY <1>c, <1>3, <2>2
    <3>2. written[Len(delivered)].nonce < written[Len(delivered) + 1].nonce
      BY <1>5, <1>c, <3>1 DEF Structure
    <3>3. written[Len(delivered)].nonce = Len(delivered) - 1
      BY Zenon, <1>3, <3>1
    <3> QED BY <1>b, <1>c, <1>5, <3>2, <3>3
  <2> QED BY <1>c, <2>1, <2>2
<1>7. ~ (Len(delivered) + 1 < j)
  <2> SUFFICES ASSUME Len(delivered) + 1 < j PROVE FALSE
    BY Zenon
  <2>1. written[Len(delivered) + 1].nonce < written[j].nonce
    BY Zenon, <1>5 DEF Structure
  <2> QED BY <1>b, <1>c, <1>2, <1>5, <1>6, <2>1
<1>8. j = Len(delivered) + 1
  BY <1>4, <1>7, <1>c
<1> QED BY Zenon, <1>1, <1>5, <1>8

\* The reader's side.
LEMMA ReadingStep ==
  ASSUME FramesInv, [Next]_vars
  PROVE  Reading'
<1> stopOnError' = stopOnError
  BY Zenon DEF Next, vars
<1>0. TypeOK /\ Structure /\ OnWire /\ WentOut /\ Reading
  BY Zenon, InvParts
<1>a. /\ written \in Seq(Frames) /\ delivered \in Seq(Frames) /\ wire \in Seq(Pieces)
      /\ readNonce \in Nat /\ Len(delivered) \in Nat
      /\ rpc \in {"header", "payload", "eof", "stopped"}
  BY <1>0 DEF TypeOK
<1>1. ASSUME UNCHANGED <<written, delivered, readNonce>>,
             rpc' = rpc \/ (rpc \in {"header", "payload"})
      PROVE  Reading'
  BY Zenon, <1>0, <1>1 DEF Reading, DeliveredInOrder
<1>2. ASSUME NEW w \in Writers, WritePayload(w) PROVE Reading'
  <2>1. written' = Append(written, cur[w]) /\ UNCHANGED <<delivered, readNonce, rpc>>
    BY Zenon, <1>2 DEF WritePayload, receiver
  <2>2. cur[w] \in Frames
    BY Zenon, <1>0, <1>2 DEF WritePayload, Structure
  <2>3. /\ Len(written') = Len(written) + 1 /\ Len(written) \in Nat
        /\ \A i \in 1..Len(written) : written'[i] = written[i]
    BY <1>a, <2>1, <2>2
  <2> QED BY <1>0, <1>a, <2>1, <2>3 DEF Reading, DeliveredInOrder
<1>3. CASE ReadPayload
  <2> SUFFICES ASSUME stopOnError PROVE Reading'
    BY Zenon DEF Reading, DeliveredInOrder
  <2> DEFINE f == Head(wire).frame
  <2>1. rpc = "payload" /\ wire # <<>> /\ written' = written
    BY Zenon, <1>3 DEF ReadPayload, sender
  <2>2. readNonce = Len(delivered)
    BY Zenon, <1>0, <2>1 DEF Reading
  <2>3. CASE delivered' = delivered /\ rpc' = AfterError
    <3>1. rpc' = "stopped"
      BY Zenon, <2>3 DEF AfterError
    <3> QED BY Zenon, <1>0, <2>1, <2>3, <3>1 DEF Reading, DeliveredInOrder
  <2>4. CASE /\ Opens(Head(wire)) /\ delivered' = Append(delivered, f)
             /\ readNonce' = readNonce + 1
    <3>1. f \in Range(written) /\ f.nonce = readNonce
      BY Zenon, <1>0, <1>a, <2>1, <2>4, RangeTail DEF Opens, OnWire, makeNonce
    <3> HIDE DEF f
    <3>2. Len(delivered) + 1 \in 1..Len(written) /\ written[Len(delivered) + 1] = f
      BY Zenon, <1>0, <2>1, <3>1, NextFrame
    <3>3. f \in Frames
      BY <1>a, <3>2
    <3>4. /\ Len(delivered') = Len(delivered) + 1
          /\ delivered'[Len(delivered) + 1] = f
          /\ \A i \in 1..Len(delivered) : delivered'[i] = delivered[i]
      BY <1>a, <2>4, <3>3
    <3>5. \A i \in 1..Len(delivered') : i \in 1..Len(delivered) \/ i = Len(delivered) + 1
      BY <1>a, <3>4
    <3>6. \A i \in 1..Len(delivered') : delivered'[i] = written[i]
      BY Zenon, <1>0, <3>2, <3>4, <3>5 DEF Reading, DeliveredInOrder
    <3>7. \A i \in 1..Len(delivered') : delivered'[i].nonce = i - 1
      <4>1. \A i \in 1..Len(delivered) : delivered[i].nonce = i - 1
        BY Zenon, <1>0 DEF Reading
      <4>2. f.nonce = (Len(delivered) + 1) - 1
        BY <1>a, <2>2, <3>1
      <4> QED BY Zenon, <3>4, <3>5, <4>1, <4>2
    <3>8. readNonce' = Len(delivered') /\ Len(delivered') <= Len(written)
      BY <1>a, <2>2, <2>4, <3>2, <3>4
    <3> QED BY Zenon, <2>1, <3>6, <3>7, <3>8 DEF Reading, DeliveredInOrder
  <2> QED BY Zenon, <1>3, <2>3, <2>4 DEF ReadPayload
<1>4. CASE ReadHeader
  BY Zenon, <1>1, <1>4 DEF ReadHeader, sender
<1>5. CASE ReadEnd \/ ConnEnds \/ UNCHANGED vars
  BY Zenon, <1>1, <1>5 DEF ReadEnd, ConnEnds, vars, sender, receiver
<1>6. CASE Repeat \/ Displace \/ Lose \/ InsertEmpty
  BY Zenon, <1>0, <1>1, <1>6, FaultStep DEF sender, receiver
<1>7. ASSUME NEW w \in Writers, WriteFrame(w) \/ WriteHeader(w) \/ WriteFails(w) PROVE Reading'
  BY Zenon, <1>1, <1>7 DEF WriteFrame, WriteHeader, WriteFails, receiver
<1> QED BY Zenon, <1>2, <1>3, <1>4, <1>5, <1>6, <1>7 DEF Next, Writing, ReadFrame

\* The inductive invariant holds for every instance.
THEOREM FramesInvariant == Spec => []FramesInv
<1>1. Init => FramesInv
  <2> SUFFICES ASSUME Init PROVE FramesInv
    BY Zenon
  <2>1. Range(<<>>) = {}
    BY DEF Range
  <2>2. /\ writeNonce \in Nat /\ readNonce \in Nat
        /\ writeMu \in Writers \cup {NoWriter}
        /\ wpc \in [Writers -> {"idle", "header", "payload"}]
        /\ cur \in [Writers -> Frames \cup {NoFrame}]
        /\ count \in [Writers -> 0..MaxFrames]
        /\ faults \in 0..MaxFaults
    BY FramesAssumption DEF Init
  <2>3. /\ conn \in {"up", "closed", "reset"} /\ wire \in Seq(Pieces)
        /\ replaySeen \subseteq Pieces /\ replayOrder \in Seq(Pieces)
        /\ rpc \in {"header", "payload", "eof", "stopped"}
        /\ written \in Seq(Frames) /\ delivered \in Seq(Frames)
    BY DEF Init
  <2>4. tooLarge \in BOOLEAN /\ disordered \in BOOLEAN /\ stopOnError \in BOOLEAN
    BY ZenonT(60) DEF Init
  <2>5. TypeOK
    BY Zenon, <2>2, <2>3, <2>4 DEF TypeOK
  <2>6. Structure /\ Reading
    BY DEF Init, Structure, Reading, DeliveredInOrder
  <2>7. OnWire /\ WentOut
    BY Zenon, <2>1 DEF Init, OnWire, WentOut
  <2> QED BY Zenon, <2>5, <2>6, <2>7, InvParts
<1>2. FramesInv /\ [Next]_vars => FramesInv'
  <2> SUFFICES ASSUME FramesInv, [Next]_vars PROVE FramesInv'
    BY Zenon
  <2>1. TypeOK' /\ Structure' /\ OnWire' /\ WentOut' /\ Reading'
    BY Zenon, TypeStep, StructureStep, WireStep, ReadingStep
  <2> QED BY Zenon, <2>1 DEF FramesInv, Structure, OnWire, WentOut, Reading
<1> QED BY <1>1, <1>2, PTL DEF Spec

\* A session that stops at its first error has been given the frames that were
\* written, in order and from the first on, however often frames were repeated,
\* lost or displaced on the way (DeliveredInOrder).
THEOREM SessionInOrder == Spec => []DeliveredInOrder
<1>1. FramesInv => DeliveredInOrder
  BY Zenon DEF FramesInv
<1> QED BY <1>1, FramesInvariant, PTL

\* A step other than that of the reader on a ciphertext leaves the reader's
\* count, its window and what it has returned alone.
LEMMA ReaderOnly ==
  ASSUME TypeOK, Reading, OnWire, WentOut, [Next]_vars, ~ ReadPayload
  PROVE  UNCHANGED <<readNonce, replaySeen, replayOrder, delivered>>
<1>1. CASE UNCHANGED vars
  BY Zenon, <1>1 DEF vars, receiver
<1>2. CASE ReadHeader \/ ReadEnd
  BY ZenonT(60), <1>2 DEF ReadHeader, ReadEnd
<1>3. CASE ConnEnds
  BY Zenon, <1>3 DEF ConnEnds, receiver
<1>4. CASE Repeat \/ Displace \/ Lose \/ InsertEmpty
  BY Zenon, <1>4, FaultStep DEF receiver
<1>5. ASSUME NEW w \in Writers, WriteFrame(w) \/ Writing(w)
      PROVE  UNCHANGED <<readNonce, replaySeen, replayOrder, delivered>>
  BY ZenonT(60), <1>5 DEF WriteFrame, Writing, WriteHeader, WritePayload, WriteFails, receiver
<1> QED BY Zenon, <1>1, <1>2, <1>3, <1>4, <1>5 DEF Next, ReadFrame

\* What the reader has returned has the nonces of earlier counts, in order.
Ascending ==
  /\ \A i \in 1..Len(delivered) : delivered[i].nonce < readNonce
  /\ \A i, j \in 1..Len(delivered) : i < j => delivered[i].nonce < delivered[j].nonce

\* The frame appended has the nonce of the count.
LEMMA Appended ==
  ASSUME NEW s \in Seq(Frames), NEW f \in Frames, NEW n \in Nat, f.nonce = n,
         \A i \in 1..Len(s) : s[i].nonce < n,
         \A i, j \in 1..Len(s) : i < j => s[i].nonce < s[j].nonce
  PROVE  LET t == Append(s, f)
         IN  /\ \A i \in 1..Len(t) : t[i].nonce < n + 1
             /\ \A i, j \in 1..Len(t) : i < j => t[i].nonce < t[j].nonce
<1> DEFINE t == Append(s, f)
<1>1. /\ Len(s) \in Nat /\ Len(t) = Len(s) + 1 /\ t[Len(s) + 1] = f
      /\ \A i \in 1..Len(s) : t[i] = s[i] /\ s[i] \in Frames
  OBVIOUS
<1>2. \A g \in Frames : g.nonce \in Nat
  BY Zenon DEF Frames
<1> HIDE DEF t
<1>3. \A i \in 1..Len(t) : t[i].nonce < n + 1
  BY <1>1, <1>2
<1>4. \A i, j \in 1..Len(t) : i < j => t[i].nonce < t[j].nonce
  <2> SUFFICES ASSUME NEW i \in 1..Len(t), NEW j \in 1..Len(t), i < j
               PROVE  t[i].nonce < t[j].nonce
    BY Zenon
  <2>1. i \in 1..Len(s) /\ t[i] = s[i]
    BY <1>1
  <2>2. CASE j = Len(s) + 1
    <3>1. t[j] = f
      BY Zenon, <1>1, <2>2
    <3> QED BY Zenon, <2>1, <3>1
  <2>3. CASE j \in 1..Len(s)
    <3>1. t[j] = s[j]
      BY Zenon, <1>1, <2>3
    <3> QED BY Zenon, <2>1, <2>3, <3>1
  <2> QED BY <1>1, <2>2, <2>3
<1> QED BY Zenon, <1>3, <1>4 DEF t

\* A session that goes on after errors never returns a frame twice or out of
\* order (NeverBackwards): every ciphertext it tries costs it a nonce, so what
\* opens is sealed with a later one than all before.
THEOREM SessionForwards == Spec => []NeverBackwards
<1>1. Init => Ascending
  BY DEF Init, Ascending
<1>2. FramesInv /\ Ascending /\ [Next]_vars => Ascending'
  <2> SUFFICES ASSUME FramesInv, Ascending, [Next]_vars PROVE Ascending'
    BY Zenon
  <2>0. TypeOK /\ Reading /\ OnWire /\ WentOut
    BY Zenon, InvParts
  <2>1. CASE ~ ReadPayload
    <3>1. readNonce' = readNonce /\ delivered' = delivered
      BY Zenon, <2>0, <2>1, ReaderOnly
    <3> QED BY Zenon, <3>1 DEF Ascending
  <2>2. CASE ReadPayload
    <3>1. CASE readNonce' = readNonce /\ delivered' = delivered
      BY Zenon, <3>1 DEF Ascending
    <3>2. CASE readNonce' = readNonce + 1 /\ delivered' = delivered
      <4>0. readNonce \in Nat /\ delivered \in Seq(Frames) /\ \A g \in Frames : g.nonce \in Nat
        BY Zenon, <2>0 DEF TypeOK, Frames
      <4>a. \A i \in 1..Len(delivered) : delivered[i] \in Frames
        BY <4>0
      <4>1. readNonce \in Nat /\ \A i \in 1..Len(delivered) : delivered[i].nonce \in Nat
        BY Zenon, <4>0, <4>a
      <4> QED BY <3>2, <4>1 DEF Ascending
    <3>3. CASE /\ readNonce' = readNonce + 1 /\ Opens(Head(wire))
               /\ delivered' = Append(delivered, Head(wire).frame) /\ wire # <<>>
      <4>1. /\ wire \in Seq(Pieces) /\ delivered \in Seq(Frames) /\ readNonce \in Nat
            /\ written \in Seq(Frames)
        BY Zenon, <2>0 DEF TypeOK
      <4>2. Head(wire) \in Range(wire)
        BY Zenon, <3>3, <4>1, RangeTail
      <4>3. Head(wire).frame \in Range(written)
        BY Zenon, <2>0, <3>3, <4>2 DEF OnWire, Opens
      <4>4. Head(wire).frame \in Frames
        BY <4>1, <4>3 DEF Range
      <4>5. Head(wire).frame.nonce = readNonce
        BY Zenon, <3>3 DEF Opens, makeNonce
      <4> QED BY Zenon, <3>3, <4>1, <4>4, <4>5, Appended DEF Ascending
    <3> QED BY ZenonT(60), <2>2, <3>1, <3>2, <3>3 DEF ReadPayload
  <2> QED BY Zenon, <2>1, <2>2
<1>3. FramesInv /\ Ascending => NeverBackwards
  BY Zenon DEF FramesInv, Ascending, NeverBackwards
<1> QED BY <1>1, <1>2, <1>3, FramesInvariant, PTL DEF Spec

\* A ciphertext that is not in the queue joins it, ...
LEMMA Joins ==
  ASSUME NEW S, NEW q \in Seq(S), NEW c \in S, c \notin Range(q), IsInjective(q)
  PROVE  LET t == Append(q, c)
         IN  /\ t \in Seq(S) /\ Len(t) = Len(q) + 1
             /\ Range(t) = Range(q) \cup {c} /\ IsInjective(t)
<1> DEFINE t == Append(q, c)
<1>1. /\ t \in Seq(S) /\ Len(q) \in Nat /\ Len(t) = Len(q) + 1 /\ t[Len(q) + 1] = c
      /\ \A i \in 1..Len(q) : t[i] = q[i]
      /\ DOMAIN t = 1..Len(t) /\ DOMAIN q = 1..Len(q)
  OBVIOUS
<1>2. \A i \in 1..Len(q) : q[i] # c
  BY DEF Range
<1>3. Range(t) = Range(q) \cup {c}
  BY RangeAppend
<1> HIDE DEF t
<1>4. IsInjective(t)
  BY <1>1, <1>2 DEF IsInjective
<1> QED BY Zenon, <1>1, <1>3, <1>4 DEF t

\* ... and the oldest one leaves both.
LEMMA Leaves ==
  ASSUME NEW S, NEW q \in Seq(S), q # <<>>, IsInjective(q)
  PROVE  LET t == Tail(q)
         IN  /\ Len(t) = Len(q) - 1 /\ Range(t) = Range(q) \ {Head(q)} /\ IsInjective(t)
<1> DEFINE t == Tail(q)
<1>1. /\ t \in Seq(S) /\ Len(q) \in Nat \ {0} /\ Len(t) = Len(q) - 1 /\ Head(q) = q[1]
      /\ \A i \in 1..Len(t) : t[i] = q[i + 1]
  OBVIOUS
<1>2. DOMAIN t = 1..Len(t) /\ DOMAIN q = 1..Len(q)
  BY <1>1
<1> HIDE DEF t
<1>a. \A i, j \in 1..Len(q) : q[i] = q[j] => i = j
  BY Zenon, <1>2 DEF IsInjective
<1>3. ASSUME NEW x \in Range(t) PROVE x \in Range(q) \ {Head(q)}
  <2>1. PICK i \in 1..Len(t) : x = t[i]
    BY Zenon, <1>2, <1>3 DEF Range
  <2>2. i + 1 \in 1..Len(q) /\ i + 1 # 1 /\ x = q[i + 1] /\ 1 \in 1..Len(q)
    BY <1>1, <2>1
  <2>3. q[i + 1] # q[1]
    BY Zenon, <1>a, <2>2
  <2> QED BY Zenon, <1>1, <1>2, <2>2, <2>3 DEF Range
<1>4. ASSUME NEW x \in Range(q) \ {Head(q)} PROVE x \in Range(t)
  <2>1. PICK i \in 1..Len(q) : x = q[i]
    BY Zenon, <1>2, <1>4 DEF Range
  <2>2. i # 1
    BY Zenon, <1>1, <1>4, <2>1
  <2>3. i - 1 \in 1..Len(t) /\ t[i - 1] = q[(i - 1) + 1] /\ (i - 1) + 1 = i
    BY <1>1, <2>1, <2>2
  <2> QED BY Zenon, <1>2, <2>1, <2>3 DEF Range
<1>5. IsInjective(t)
  <2> SUFFICES ASSUME NEW i \in 1..Len(t), NEW j \in 1..Len(t), t[i] = t[j] PROVE i = j
    BY Zenon, <1>2 DEF IsInjective
  <2>1. i + 1 \in 1..Len(q) /\ j + 1 \in 1..Len(q) /\ q[i + 1] = q[j + 1]
    BY <1>1
  <2>2. i + 1 = j + 1
    BY Zenon, <1>a, <2>1
  <2> QED BY <2>2, <1>1
<1> QED BY Zenon, <1>1, <1>3, <1>4, <1>5 DEF t

\* The map and the queue of the replay window agree and stay within the limit
\* (WindowCoherent), whatever arrives and whatever the size of the window.
THEOREM WindowKept == Spec => []WindowCoherent
<1>1. Init => WindowCoherent
  <2> SUFFICES ASSUME Init PROVE WindowCoherent
    BY Zenon
  <2>1. replaySeen = {} /\ replayOrder = <<>> /\ DOMAIN replayOrder = {}
    BY DEF Init
  <2>2. Len(replayOrder) = 0 /\ Window \in Nat
    BY Zenon, <2>1, FramesAssumption
  <2> QED BY <2>1, <2>2 DEF WindowCoherent, Range, IsInjective
<1>2. FramesInv /\ WindowCoherent /\ [Next]_vars => WindowCoherent'
  <2> SUFFICES ASSUME FramesInv, WindowCoherent, [Next]_vars PROVE WindowCoherent'
    BY Zenon
  <2>0. TypeOK /\ Reading /\ OnWire /\ WentOut
    BY Zenon, InvParts
  <2>1. CASE UNCHANGED <<replaySeen, replayOrder>>
    BY Zenon, <2>1 DEF WindowCoherent
  <2>2. ASSUME NEW c \in Pieces, c \notin replaySeen, rememberCiphertext(c)
        PROVE  WindowCoherent'
    <3> DEFINE order == Append(replayOrder, c)
    <3>1. /\ replayOrder \in Seq(Pieces) /\ Len(replayOrder) \in Nat
          /\ Window \in Nat \ {0} /\ Len(replayOrder) <= Window
          /\ replaySeen = Range(replayOrder)
      BY <2>0, FramesAssumption DEF TypeOK, WindowCoherent
    <3>2. /\ order \in Seq(Pieces) /\ Len(order) = Len(replayOrder) + 1
          /\ Range(order) = replaySeen \cup {c} /\ IsInjective(order)
      BY <2>2, <3>1, Joins DEF WindowCoherent
    <3>3. /\ replayOrder' = IF Len(order) > Window THEN Tail(order) ELSE order
          /\ replaySeen' = IF Len(order) > Window THEN Range(order) \ {Head(order)}
                                                  ELSE Range(order)
      BY Zenon, <2>2, <3>2 DEF rememberCiphertext
    <3> HIDE DEF order
    <3>4. CASE Len(order) > Window
      <4>1. order # <<>>
        BY <3>1, <3>2, <3>4
      <4>2. /\ Len(Tail(order)) = Len(order) - 1 /\ IsInjective(Tail(order))
            /\ Range(Tail(order)) = Range(order) \ {Head(order)}
        BY Zenon, <3>2, <4>1, Leaves
      <4>3. replayOrder' = Tail(order) /\ replaySeen' = Range(Tail(order))
        BY Zenon, <3>3, <3>4, <4>2
      <4>4. Len(Tail(order)) <= Window
        BY <3>1, <3>2, <4>2
      <4> QED BY Zenon, <4>2, <4>3, <4>4 DEF WindowCoherent
    <3>5. CASE ~ (Len(order) > Window)
      <4>1. replayOrder' = order /\ replaySeen' = Range(order)
        BY Zenon, <3>3, <3>5
      <4>2. Len(order) <= Window
        BY <3>1, <3>2, <3>5
      <4> QED BY Zenon, <3>2, <4>1, <4>2 DEF WindowCoherent
    <3> QED BY Zenon, <3>4, <3>5
  <2>3. CASE ReadPayload
    <3>1. CASE wire # <<>> /\ Head(wire) \notin replaySeen /\ rememberCiphertext(Head(wire))
      <4>1. Head(wire) \in Pieces
        BY Zenon, <2>0, <3>1, RangeTail DEF TypeOK
      <4> QED BY Zenon, <2>2, <3>1, <4>1
    <3> QED BY ZenonT(60), <2>1, <2>3, <3>1 DEF ReadPayload
  <2>4. CASE ~ ReadPayload
    BY Zenon, <2>0, <2>1, <2>4, ReaderOnly
  <2> QED BY Zenon, <2>3, <2>4
<1> QED BY <1>1, <1>2, FramesInvariant, PTL DEF Spec

\* Within s a header is followed by its own ciphertext; s ends with no header.
Paired(s) ==
  \A i \in 1..(Len(s) - 1) :
    s[i].kind = "header" => s[i + 1].kind = "payload" /\ s[i + 1].frame = s[i].frame

Shut(s) == Len(s) > 0 => s[Len(s)].kind # "header"

\* A part of a wire that is paired is paired.
LEMMA PairedSub ==
  ASSUME NEW S, NEW s \in Seq(S), Paired(s),
         NEW m \in Nat \ {0}, NEW n \in Nat, n <= Len(s)
  PROVE  LET t == SubSeq(s, m, n)
         IN  /\ t \in Seq(S) /\ Paired(t)
             /\ m <= n => Len(t) = n - m + 1 /\ t[Len(t)] = s[n]
             /\ n < m => Len(t) = 0
<1> DEFINE t == SubSeq(s, m, n)
<1>1. CASE n < m
  <2>1. t = <<>>
    BY <1>1
  <2> QED BY <1>1, <2>1 DEF Paired
<1>2. CASE m <= n
  <2>1. /\ t \in Seq(S) /\ Len(s) \in Nat /\ Len(t) = n - m + 1
        /\ \A i \in 1..(n - m + 1) : t[i] = s[m + i - 1]
    BY <1>2
  <2> HIDE DEF t
  <2>2. ASSUME NEW i \in 1..(Len(t) - 1), t[i].kind = "header"
        PROVE  t[i + 1].kind = "payload" /\ t[i + 1].frame = t[i].frame
    <3> DEFINE k == m + i - 1
    <3>1. k \in 1..(Len(s) - 1) /\ t[i] = s[k] /\ t[i + 1] = s[k + 1]
      <4>1. i \in 1..(n - m + 1) /\ i + 1 \in 1..(n - m + 1) /\ m + (i + 1) - 1 = k + 1
        BY <1>2, <2>1
      <4> QED BY <1>2, <2>1, <4>1
    <3> HIDE DEF k
    <3> QED BY Zenon, <2>2, <3>1 DEF Paired
  <2>3. t[Len(t)] = s[n]
    <3>1. Len(t) \in 1..(n - m + 1) /\ m + Len(t) - 1 = n
      BY <1>2, <2>1
    <3> QED BY Zenon, <2>1, <3>1
  <2> QED BY <1>2, <2>1, <2>2, <2>3 DEF Paired, t
<1> QED BY <1>1, <1>2

\* Two paired wires make one if the first does not end within a frame.
LEMMA PairedConcat ==
  ASSUME NEW S, NEW a \in Seq(S), NEW b \in Seq(S), Paired(a), Paired(b), Shut(a)
  PROVE  LET t == a \o b
         IN  /\ t \in Seq(S) /\ Paired(t) /\ Len(t) = Len(a) + Len(b)
             /\ Len(b) > 0 => t[Len(t)] = b[Len(b)]
             /\ Len(b) = 0 => Shut(t)
<1> DEFINE t == a \o b
<1>1. /\ t \in Seq(S) /\ Len(a) \in Nat /\ Len(b) \in Nat /\ Len(t) = Len(a) + Len(b)
      /\ \A i \in 1..Len(a) : t[i] = a[i]
      /\ \A i \in (Len(a) + 1)..(Len(a) + Len(b)) : t[i] = b[i - Len(a)]
  OBVIOUS
<1> HIDE DEF t
<1>2. ASSUME NEW i \in 1..(Len(t) - 1), t[i].kind = "header"
      PROVE  t[i + 1].kind = "payload" /\ t[i + 1].frame = t[i].frame
  <2>1. CASE i < Len(a)
    <3>1. t[i] = a[i] /\ t[i + 1] = a[i + 1] /\ i \in 1..(Len(a) - 1)
      BY <1>1, <2>1
    <3> QED BY Zenon, <1>2, <3>1 DEF Paired
  <2>2. CASE i = Len(a)
    <3>1. t[i] = a[Len(a)] /\ Len(a) > 0
      BY <1>1, <2>2
    <3> QED BY Zenon, <1>2, <3>1 DEF Shut
  <2>3. CASE i > Len(a)
    <3> DEFINE k == i - Len(a)
    <3>1. /\ k \in 1..(Len(b) - 1) /\ (i + 1) - Len(a) = k + 1
          /\ i \in (Len(a) + 1)..(Len(a) + Len(b))
          /\ i + 1 \in (Len(a) + 1)..(Len(a) + Len(b))
      BY <1>1, <2>3
    <3>2. t[i] = b[k] /\ t[i + 1] = b[k + 1]
      BY <1>1, <3>1
    <3> HIDE DEF k
    <3> QED BY Zenon, <1>2, <3>1, <3>2 DEF Paired
  <2> QED BY <1>1, <2>1, <2>2, <2>3
<1>3. Len(b) > 0 => t[Len(t)] = b[Len(b)]
  BY <1>1
<1>4. Len(b) = 0 => Shut(t)
  BY <1>1 DEF Shut
<1> QED BY Zenon, <1>1, <1>2, <1>3, <1>4 DEF Paired, t

\* What a fault inserts is whole, ...
LEMMA Inserts ==
  /\ Empty \in Pieces /\ <<Empty>> \in Seq(Pieces) /\ Paired(<<Empty>>) /\ Shut(<<Empty>>)
  /\ \A f \in Frames : Whole(f) \in Seq(Pieces) /\ Paired(Whole(f)) /\ Shut(Whole(f))
<1>1. Empty \in Pieces /\ Empty.kind = "empty"
  BY Zenon DEF Empty, Piece, Pieces
<1>2. <<Empty>> \in Seq(Pieces) /\ Len(<<Empty>>) = 1 /\ <<Empty>>[1] = Empty
  BY <1>1
<1>3. Paired(<<Empty>>) /\ Shut(<<Empty>>)
  BY <1>1, <1>2 DEF Paired, Shut
<1>4. ASSUME NEW f \in Frames
      PROVE  Whole(f) \in Seq(Pieces) /\ Paired(Whole(f)) /\ Shut(Whole(f))
  <2> DEFINE h == Piece("header", f)
             b == Piece("payload", f)
  <2>1. h.frame = f /\ b.frame = f /\ b.kind = "payload"
    BY Zenon DEF Piece
  <2>2. Whole(f) = <<h, b>> /\ Len(Whole(f)) = 2 /\ Whole(f)[1] = h /\ Whole(f)[2] = b
    <3>1. Whole(f) = <<h, b>>
      BY Zenon DEF Whole
    <3> HIDE DEF h, b
    <3> QED BY <3>1
  <2>3. Whole(f) \in Seq(Pieces)
    BY Zenon, WholeFrame
  <2> HIDE DEF h, b
  <2> QED BY <2>1, <2>2, <2>3 DEF Paired, Shut
<1> QED BY Zenon, <1>1, <1>2, <1>3, <1>4

\* ... and goes between two frames.
LEMMA SplicedPaired ==
  ASSUME TypeOK, Paired(wire), NEW i \in Boundaries,
         NEW s \in Seq(Pieces), Paired(s), Shut(s)
  PROVE  LET t == Spliced(i, s)
         IN  /\ t \in Seq(Pieces) /\ Paired(t)
             /\ ~ Shut(t) => ~ Shut(wire) /\ t[Len(t)] = wire[Len(wire)]
<1> DEFINE a == SubSeq(wire, 1, i)
           b == SubSeq(wire, i + 1, Len(wire))
           c == a \o s
           t == c \o b
<1>1. /\ wire \in Seq(Pieces) /\ i \in 0..Len(wire) /\ Len(wire) \in Nat
      /\ i # 0 => wire[i].kind # "header"
  BY DEF TypeOK, Boundaries
<1>2. /\ a \in Seq(Pieces) /\ Paired(a) /\ (1 <= i => Len(a) = i - 1 + 1 /\ a[Len(a)] = wire[i])
      /\ i < 1 => Len(a) = 0
  BY <1>1, PairedSub
<1>3. /\ b \in Seq(Pieces) /\ Paired(b)
      /\ i + 1 <= Len(wire) => b[Len(b)] = wire[Len(wire)]
      /\ Len(wire) < i + 1 => Len(b) = 0
  <2>1. i + 1 \in Nat \ {0} /\ Len(wire) \in Nat /\ Len(wire) <= Len(wire)
    BY <1>1
  <2> DEFINE m == i + 1
  <2> HIDE DEF m
  <2>2. /\ SubSeq(wire, m, Len(wire)) \in Seq(Pieces) /\ Paired(SubSeq(wire, m, Len(wire)))
        /\ m <= Len(wire) => SubSeq(wire, m, Len(wire))[Len(SubSeq(wire, m, Len(wire)))]
                               = wire[Len(wire)]
        /\ Len(wire) < m => Len(SubSeq(wire, m, Len(wire))) = 0
    <3>1. m \in Nat \ {0}
      BY Zenon, <2>1 DEF m
    <3> QED BY <1>1, <2>1, <3>1, PairedSub
  <2> QED BY Zenon, <2>2 DEF m
<1>4. Shut(a)
  BY <1>1, <1>2 DEF Shut
<1> HIDE DEF a, b
<1>5. c \in Seq(Pieces) /\ Paired(c) /\ Len(s) \in Nat
      /\ (Len(s) > 0 => c[Len(c)] = s[Len(s)]) /\ (Len(s) = 0 => Shut(c))
  BY <1>2, <1>4, PairedConcat
<1>6. Shut(c)
  BY <1>5 DEF Shut
<1> HIDE DEF c
<1>7. t \in Seq(Pieces) /\ Paired(t) /\ Len(b) \in Nat /\ Len(t) \in Nat
      /\ (Len(b) > 0 => t[Len(t)] = b[Len(b)]) /\ (Len(b) = 0 => Shut(t))
  BY <1>3, <1>5, <1>6, PairedConcat
<1> HIDE DEF t
<1>8. ASSUME ~ Shut(t) PROVE ~ Shut(wire) /\ t[Len(t)] = wire[Len(wire)]
  <2>1. Len(b) > 0 /\ t[Len(t)].kind = "header"
    BY <1>7, <1>8 DEF Shut
  <2>2. i + 1 <= Len(wire) /\ t[Len(t)] = wire[Len(wire)]
    BY <1>1, <1>3, <1>7, <2>1
  <2> QED BY <1>1, <2>1, <2>2 DEF Shut
<1> QED BY Zenon, <1>7, <1>8 DEF Spliced, a, b, c, t

\* A piece may follow if it is the payload of the header before it.
LEMMA PairedAppend ==
  ASSUME NEW S, NEW s \in Seq(S), NEW x \in S, Paired(s),
         ~ Shut(s) => x.kind = "payload" /\ x.frame = s[Len(s)].frame
  PROVE  LET t == Append(s, x) IN Paired(t) /\ Len(t) > 0 /\ t[Len(t)] = x
<1> DEFINE t == Append(s, x)
<1>1. /\ Len(s) \in Nat /\ Len(t) = Len(s) + 1 /\ t[Len(s) + 1] = x
      /\ \A i \in 1..Len(s) : t[i] = s[i]
  OBVIOUS
<1> HIDE DEF t
<1>2. ASSUME NEW i \in 1..(Len(t) - 1), t[i].kind = "header"
      PROVE  t[i + 1].kind = "payload" /\ t[i + 1].frame = t[i].frame
  <2>1. CASE i < Len(s)
    <3>1. t[i] = s[i] /\ t[i + 1] = s[i + 1] /\ i \in 1..(Len(s) - 1)
      BY <1>1, <2>1
    <3> QED BY Zenon, <1>2, <3>1 DEF Paired
  <2>2. CASE i = Len(s)
    <3>1. t[i] = s[Len(s)] /\ t[i + 1] = x /\ Len(s) > 0
      BY <1>1, <2>2
    <3> QED BY Zenon, <1>2, <3>1 DEF Shut
  <2> QED BY <1>1, <2>1, <2>2
<1> QED BY <1>1, <1>2 DEF Paired, t

\* Receiving a piece leaves the rest paired.
LEMMA PairedTail ==
  ASSUME NEW S, NEW s \in Seq(S), s # <<>>, Paired(s)
  PROVE  LET t == Tail(s)
         IN  Paired(t) /\ (~ Shut(t) => ~ Shut(s) /\ t[Len(t)] = s[Len(s)])
<1> DEFINE t == Tail(s)
<1>1. /\ Len(s) \in Nat \ {0} /\ Len(t) = Len(s) - 1
      /\ \A i \in 1..Len(t) : t[i] = s[i + 1]
  OBVIOUS
<1> HIDE DEF t
<1>2. ASSUME NEW i \in 1..(Len(t) - 1), t[i].kind = "header"
      PROVE  t[i + 1].kind = "payload" /\ t[i + 1].frame = t[i].frame
  <2> DEFINE k == i + 1
  <2>1. t[i] = s[k] /\ t[i + 1] = s[k + 1] /\ k \in 1..(Len(s) - 1)
    BY <1>1
  <2> HIDE DEF k
  <2> QED BY Zenon, <1>2, <2>1 DEF Paired
<1>3. ASSUME ~ Shut(t) PROVE ~ Shut(s) /\ t[Len(t)] = s[Len(s)]
  <2>1. Len(t) > 0 /\ t[Len(t)].kind = "header"
    BY Zenon, <1>3 DEF Shut
  <2>2. t[Len(t)] = s[Len(s)] /\ Len(s) > 0
    BY <1>1, <2>1
  <2> QED BY Zenon, <2>1, <2>2 DEF Shut
<1> QED BY Zenon, <1>2, <1>3 DEF Paired, t

\* A fault keeps the frames whole and leaves a header at the end where it is.
LEMMA FaultPaired ==
  ASSUME TypeOK, Paired(wire), Repeat \/ Displace \/ Lose \/ InsertEmpty
  PROVE  Paired(wire') /\ (~ Shut(wire') => ~ Shut(wire) /\ wire'[Len(wire')] = wire[Len(wire)])
<1>1. /\ wire \in Seq(Pieces) /\ Len(wire) \in Nat
      /\ written \in Seq(Frames) /\ delivered \in Seq(Frames)
  BY DEF TypeOK
<1>2. CASE Repeat
  <2>1. PICK n \in 1..Len(delivered) :
          0 \in Boundaries /\ wire' = Spliced(0, Whole(delivered[n]))
    BY Zenon, <1>2 DEF Repeat
  <2>2. delivered[n] \in Frames
    BY <1>1
  <2> QED BY Zenon, <2>1, <2>2, Inserts, SplicedPaired
<1>3. CASE Displace
  <2>1. PICK i \in Boundaries, n \in 1..Len(written) : wire' = Spliced(i, Whole(written[n]))
    BY Zenon, <1>3 DEF Displace
  <2>2. written[n] \in Frames
    BY <1>1
  <2> QED BY Zenon, <2>1, <2>2, Inserts, SplicedPaired
<1>4. CASE InsertEmpty
  <2>1. PICK i \in Boundaries : wire' = Spliced(i, <<Empty>>)
    BY Zenon, <1>4 DEF InsertEmpty
  <2> QED BY Zenon, <2>1, Inserts, SplicedPaired
<1>5. CASE Lose
  <2>1. PICK i \in 1..(Len(wire) - 1) :
          /\ wire[i].kind = "header" /\ wire[i + 1].kind = "payload"
          /\ wire' = SubSeq(wire, 1, i - 1) \o SubSeq(wire, i + 2, Len(wire))
    BY ZenonT(60), <1>5 DEF Lose
  <2> DEFINE p == i - 1
             m == i + 2
             a == SubSeq(wire, 1, p)
             b == SubSeq(wire, m, Len(wire))
  <2>2. /\ p \in Nat /\ p <= Len(wire) /\ m \in Nat \ {0} /\ Len(wire) <= Len(wire)
        /\ p >= 1 => p \in 1..(Len(wire) - 1) /\ p + 1 = i
    BY <1>1
  <2>3. p >= 1 => wire[p].kind # "header"
    <3>1. "header" # "payload"
      BY Zenon
    <3> HIDE DEF p
    <3> QED BY Zenon, <2>1, <2>2, <3>1 DEF Paired
  <2> HIDE DEF p, m
  <2>4. /\ a \in Seq(Pieces) /\ Paired(a)
        /\ 1 <= p => Len(a) = p - 1 + 1 /\ a[Len(a)] = wire[p]
        /\ p < 1 => Len(a) = 0
    BY <1>1, <2>2, PairedSub
  <2>5. /\ b \in Seq(Pieces) /\ Paired(b)
        /\ m <= Len(wire) => b[Len(b)] = wire[Len(wire)]
        /\ Len(wire) < m => Len(b) = 0
    BY <1>1, <2>2, PairedSub
  <2>6. Shut(a)
    BY <2>2, <2>3, <2>4 DEF Shut
  <2> DEFINE t == a \o b
  <2> HIDE DEF a, b
  <2>7. t \in Seq(Pieces) /\ Paired(t) /\ Len(b) \in Nat /\ Len(t) \in Nat
        /\ (Len(b) > 0 => t[Len(t)] = b[Len(b)]) /\ (Len(b) = 0 => Shut(t))
    BY <2>4, <2>5, <2>6, PairedConcat
  <2>8. wire' = t
    BY Zenon, <2>1 DEF t, a, b, p, m
  <2> HIDE DEF t
  <2>9. ASSUME ~ Shut(t) PROVE ~ Shut(wire) /\ t[Len(t)] = wire[Len(wire)]
    <3>1. Len(b) > 0 /\ t[Len(t)].kind = "header"
      BY <2>7, <2>9 DEF Shut
    <3>2. m <= Len(wire) /\ t[Len(t)] = wire[Len(wire)] /\ Len(wire) > 0
      BY <1>1, <2>2, <2>5, <2>7, <3>1
    <3> QED BY Zenon, <3>1, <3>2 DEF Shut
  <2> QED BY Zenon, <2>7, <2>8, <2>9
<1> QED BY Zenon, <1>2, <1>3, <1>4, <1>5

\* A header at the end of the wire is that of the writer that holds the mutex
\* and is about to write its ciphertext.
Latest ==
  conn = "up" /\ ~ Shut(wire) =>
    \E w \in Writers : wpc[w] = "payload" /\ cur[w] = wire[Len(wire)].frame

\* Every step keeps the wire paired, and a header at its end that of the writer
\* at work.
LEMMA PairedStep ==
  ASSUME FramesInv, Paired(wire), Latest, [Next]_vars
  PROVE  Paired(wire)' /\ Latest'
<1>0. TypeOK /\ Structure /\ OnWire /\ WentOut /\ Reading
  BY Zenon, InvParts
<1>a. /\ wire \in Seq(Pieces) /\ wpc \in [Writers -> {"idle", "header", "payload"}]
      /\ cur \in [Writers -> Frames \cup {NoFrame}]
  BY Zenon, <1>0 DEF TypeOK
<1>1. ASSUME UNCHANGED <<wire, wpc, cur>>, conn' = conn \/ conn' # "up"
      PROVE  Paired(wire)' /\ Latest'
  BY Zenon, <1>1 DEF Latest, Paired, Shut
<1>2. ASSUME NEW w \in Writers, WriteFrame(w) PROVE Paired(wire)' /\ Latest'
  <2>1. wire' = wire /\ conn' = conn /\ wpc[w] = "idle"
    BY ZenonT(60), <1>2 DEF WriteFrame
  <2>2. \A v \in Writers \ {w} : wpc'[v] = wpc[v] /\ cur'[v] = cur[v]
    BY Zenon, <1>a, <1>2 DEF WriteFrame
  <2> QED BY Zenon, <2>1, <2>2 DEF Latest, Paired, Shut
<1>3. ASSUME NEW w \in Writers, WriteHeader(w) PROVE Paired(wire)' /\ Latest'
  <2> DEFINE x == Piece("header", cur[w])
  <2>1. /\ wire' = Append(wire, x) /\ conn = "up" /\ wpc[w] = "header"
        /\ wpc' = [wpc EXCEPT ![w] = "payload"] /\ cur' = cur
    BY Zenon, <1>3 DEF WriteHeader
  <2>2. x \in Pieces /\ x.frame = cur[w]
    BY Zenon, <1>a DEF Piece, Pieces
  <2>3. Shut(wire)
    BY Zenon, <1>0, <2>1 DEF Latest, Structure
  <2> HIDE DEF x
  <2>4. Paired(wire') /\ wire'[Len(wire')] = x
    BY Zenon, <1>a, <2>1, <2>2, <2>3, PairedAppend
  <2>5. wpc'[w] = "payload" /\ cur'[w] = wire'[Len(wire')].frame
    BY Zenon, <1>a, <2>1, <2>2, <2>4
  <2> QED BY Zenon, <2>4, <2>5 DEF Latest, Paired
<1>4. ASSUME NEW w \in Writers, WritePayload(w) PROVE Paired(wire)' /\ Latest'
  <2> DEFINE x == Piece("payload", cur[w])
  <2>1. wire' = Append(wire, x) /\ conn = "up" /\ wpc[w] = "payload"
    BY Zenon, <1>4 DEF WritePayload
  <2>2. x \in Pieces /\ x.frame = cur[w] /\ x.kind = "payload"
    BY Zenon, <1>a DEF Piece, Pieces
  <2>3. ~ Shut(wire) => cur[w] = wire[Len(wire)].frame
    BY Zenon, <1>0, <2>1 DEF Latest, Structure
  <2> HIDE DEF x
  <2>4. Paired(wire') /\ wire'[Len(wire')] = x
    BY <1>a, <2>1, <2>2, <2>3, PairedAppend
  <2>5. Shut(wire')
    BY Zenon, <2>2, <2>4 DEF Shut
  <2> QED BY Zenon, <2>4, <2>5 DEF Latest, Paired, Shut
<1>5. ASSUME NEW w \in Writers, WriteFails(w) PROVE Paired(wire)' /\ Latest'
  <2>1. wire' = wire /\ conn' # "up"
    BY ZenonT(60), <1>5 DEF WriteFails
  <2> QED BY Zenon, <2>1 DEF Latest, Paired
<1>6. CASE ReadHeader \/ ReadPayload
  <2>1. wire # <<>> /\ wire' = Tail(wire) /\ UNCHANGED <<conn, wpc, cur>>
    BY ZenonT(60), <1>6 DEF ReadHeader, ReadPayload, sender
  <2>2. Paired(wire') /\ (~ Shut(wire') => ~ Shut(wire) /\ wire'[Len(wire')] = wire[Len(wire)])
    BY Zenon, <1>a, <2>1, PairedTail
  <2> QED BY Zenon, <2>1, <2>2 DEF Latest, Paired, Shut
<1>7. CASE ReadEnd \/ ConnEnds
  <2>1. UNCHANGED <<wire, wpc, cur>> /\ (conn' = conn \/ conn' # "up")
    BY Zenon, <1>7 DEF ReadEnd, ConnEnds, sender
  <2> QED BY Zenon, <1>1, <2>1
<1>8. CASE Repeat \/ Displace \/ Lose \/ InsertEmpty
  <2>1. UNCHANGED <<conn, wpc, cur>>
    BY Zenon, <1>0, <1>8, FaultStep DEF sender
  <2>2. Paired(wire') /\ (~ Shut(wire') => ~ Shut(wire) /\ wire'[Len(wire')] = wire[Len(wire)])
    BY Zenon, <1>0, <1>8, FaultPaired
  <2> QED BY Zenon, <2>1, <2>2 DEF Latest, Paired, Shut
<1>9. CASE UNCHANGED vars
  BY Zenon, <1>1, <1>9 DEF vars, sender
<1> QED BY Zenon, <1>2, <1>3, <1>4, <1>5, <1>6, <1>7, <1>8, <1>9 DEF Next, Writing, ReadFrame

\* The layout of the wire, in every state.
THEOREM WireInvariant == Spec => [](Paired(wire) /\ Latest)
<1>1. Init => Paired(wire) /\ Latest
  <2> SUFFICES ASSUME Init PROVE Paired(wire) /\ Latest
    BY Zenon
  <2>1. Len(wire) = 0
    BY Zenon DEF Init
  <2> QED BY <2>1 DEF Paired, Latest, Shut
<1>2. FramesInv /\ Paired(wire) /\ Latest /\ [Next]_vars => (Paired(wire) /\ Latest)'
  BY Zenon, PairedStep
<1> QED BY <1>1, <1>2, FramesInvariant, PTL DEF Spec

\* The two writes of a frame stay together on the wire, and frames go out in
\* the order of their nonces (FramesWhole), for any number of writers.
THEOREM WritesWhole == Spec => []FramesWhole
<1>1. FramesInv /\ Paired(wire) => FramesWhole
  BY Zenon DEF FramesInv, Paired, FramesWhole
<1> QED BY <1>1, FramesInvariant, WireInvariant, PTL

-----------------------------------------------------------------------------
(* A session that is left alone, but for repetitions within the window.    *)

\* Nothing but harmless repetitions has happened, and no nonce was wasted.
Calm == ~ disordered /\ ~ tooLarge

\* Without a refusal the nonces of the frames that went out have no gap, and
\* the holder of the mutex has the next one, while the connection is up.
Dense ==
  ~ tooLarge =>
    /\ \A i \in 1..Len(written) : written[i].nonce = i - 1
    /\ \A w \in Writers : wpc[w] # "idle" => cur[w].nonce = writeNonce - 1
    /\ conn = "up" => writeNonce = IF writeMu = NoWriter THEN Len(written) ELSE Len(written) + 1

\* The reader has been given what went out first, and counts it.
Given ==
  /\ readNonce = Len(delivered) /\ Len(delivered) <= Len(written)
  /\ \A i \in 1..Len(delivered) : delivered[i] = written[i]

\* The window q holds the ciphertexts of the latest frames of d.
Holds(q, d) ==
  /\ Len(q) = IF Len(d) < Window THEN Len(d) ELSE Window
  /\ \A k \in 1..Len(q) : q[k] = Piece("payload", d[Len(d) - Len(q) + k])

\* A reader that has read a header finds the ciphertext next.
Aligned ==
  rpc = "payload" =>
    IF wire = <<>> THEN conn = "up" => \E w \in Writers : wpc[w] = "payload"
                   ELSE wire[1].kind = "payload"

\* The ciphertexts of s with a nonce from n on have growing nonces, and those
\* with a smaller one come before them.
Ordered(s, n) ==
  \A i, j \in 1..Len(s) :
    i < j /\ s[i].kind = "payload" /\ s[j].kind = "payload" =>
      s[i].frame.nonce < n \/ s[i].frame.nonce < s[j].frame.nonce

\* What is on its way to the reader is in its window or still to be read, and
\* what went out and has not been read is on its way.
Ahead ==
  /\ \A p \in Range(wire) :
       p.kind = "payload" => p.frame.nonce >= readNonce \/ p \in replaySeen
  /\ Ordered(wire, readNonce)
  /\ \A n \in (Len(delivered) + 1)..Len(written) :
       Piece("payload", written[n]) \in Range(wire)

CalmInv == Calm => Given /\ Holds(replayOrder, delivered) /\ Aligned /\ Ahead

Ending == rpc = "eof" => conn = "closed" /\ wire = <<>>

\* The steps that leave the writers alone.
LEMMA SenderLeft ==
  ASSUME TypeOK, Reading, OnWire, WentOut, [Next]_vars,
         \A w \in Writers : ~ WriteFrame(w) /\ ~ Writing(w)
  PROVE  UNCHANGED sender /\ (conn' = conn \/ conn' # "up")
<1>1. CASE ReadFrame \/ UNCHANGED vars
  BY Zenon, <1>1 DEF ReadFrame, ReadHeader, ReadPayload, ReadEnd, vars
<1>2. CASE ConnEnds
  BY Zenon, <1>2 DEF ConnEnds
<1>3. CASE Repeat \/ Displace \/ Lose \/ InsertEmpty
  BY Zenon, <1>3, FaultStep
<1> QED BY Zenon, <1>1, <1>2, <1>3 DEF Next

\* Every step keeps the nonces written without a gap.
LEMMA DenseStep ==
  ASSUME FramesInv, Dense, [Next]_vars
  PROVE  Dense'
<1> SUFFICES ASSUME ~ tooLarge' PROVE Dense'
  BY Zenon DEF Dense
<1>0. TypeOK /\ Structure /\ OnWire /\ WentOut /\ Reading
  BY Zenon, InvParts
<1>a. /\ written \in Seq(Frames) /\ Len(written) \in Nat /\ writeNonce \in Nat
      /\ wpc \in [Writers -> {"idle", "header", "payload"}]
      /\ cur \in [Writers -> Frames \cup {NoFrame}] /\ NoWriter \notin Writers
  BY <1>0, FramesAssumption DEF TypeOK
<1>1. ASSUME ~ tooLarge
      PROVE  /\ \A i \in 1..Len(written) : written[i].nonce = i - 1
             /\ \A w \in Writers : wpc[w] # "idle" => cur[w].nonce = writeNonce - 1
             /\ conn = "up" => writeNonce = IF writeMu = NoWriter THEN Len(written)
                                                                  ELSE Len(written) + 1
  BY Zenon, <1>1 DEF Dense
<1>2. ASSUME NEW w \in Writers, WriteFrame(w) PROVE Dense'
  <2>1. /\ writeNonce' = writeNonce + 1 /\ writeMu = NoWriter /\ writeMu' = w
        /\ cur' = [cur EXCEPT ![w] = Sealed(w)] /\ wpc' = [wpc EXCEPT ![w] = "header"]
        /\ UNCHANGED <<written, conn>> /\ ~ tooLarge
    BY <1>2 DEF WriteFrame
  <2>2. cur'[w].nonce = writeNonce' - 1
    BY <1>a, <2>1 DEF Sealed, makeNonce
  <2>3. \A v \in Writers : wpc'[v] # "idle" => v = w
    BY Zenon, <1>0, <1>a, <2>1 DEF Structure
  <2> QED BY Zenon, <1>a, <1>1, <2>1, <2>2, <2>3 DEF Dense
<1>3. ASSUME NEW w \in Writers, WriteHeader(w) PROVE Dense'
  <2>1. /\ UNCHANGED <<writeNonce, writeMu, cur, written, conn, tooLarge>>
        /\ wpc[w] = "header" /\ wpc' = [wpc EXCEPT ![w] = "payload"]
    BY Zenon, <1>3 DEF WriteHeader
  <2>2. \A v \in Writers : wpc'[v] # "idle" => wpc[v] # "idle"
    BY Zenon, <1>a, <2>1
  <2> QED BY Zenon, <1>1, <2>1, <2>2 DEF Dense
<1>4. ASSUME NEW w \in Writers, WritePayload(w) PROVE Dense'
  <2>1. /\ UNCHANGED <<writeNonce, cur, conn, tooLarge>> /\ conn = "up"
        /\ wpc[w] = "payload" /\ wpc' = [wpc EXCEPT ![w] = "idle"] /\ writeMu' = NoWriter
        /\ written' = Append(written, cur[w])
    BY Zenon, <1>4 DEF WritePayload, Return
  <2>2. writeMu = w /\ cur[w] \in Frames
    BY Zenon, <1>0, <2>1 DEF Structure
  <2>3. writeNonce = Len(written) + 1 /\ cur[w].nonce = Len(written)
    BY <1>a, <1>1, <2>1, <2>2
  <2>4. \A v \in Writers : wpc'[v] # "idle" => wpc[v] # "idle"
    BY Zenon, <1>a, <2>1
  <2>5. /\ Len(written') = Len(written) + 1 /\ written'[Len(written) + 1] = cur[w]
        /\ \A i \in 1..Len(written) : written'[i] = written[i]
    BY <1>a, <2>1, <2>2
  <2>6. \A i \in 1..Len(written') : written'[i].nonce = i - 1
    BY <1>a, <1>1, <2>1, <2>3, <2>5
  <2> QED BY Zenon, <1>1, <2>1, <2>3, <2>4, <2>5, <2>6 DEF Dense
<1>5. ASSUME NEW w \in Writers, WriteFails(w) PROVE Dense'
  <2>1. /\ UNCHANGED <<writeNonce, cur, conn, written, tooLarge>> /\ conn # "up"
        /\ wpc' = [wpc EXCEPT ![w] = "idle"]
    BY Zenon, <1>5 DEF WriteFails, Return
  <2>2. \A v \in Writers : wpc'[v] # "idle" => wpc[v] # "idle"
    BY Zenon, <1>a, <2>1
  <2> QED BY Zenon, <1>1, <2>1, <2>2 DEF Dense
<1>6. CASE UNCHANGED sender /\ (conn' = conn \/ conn' # "up")
  BY Zenon, <1>1, <1>6 DEF Dense, sender
<1> QED BY Zenon, <1>0, <1>2, <1>3, <1>4, <1>5, <1>6, SenderLeft DEF Writing

\* What is left of an ordered wire is ordered.
LEMMA OrderedTail ==
  ASSUME NEW S, NEW s \in Seq(S), s # <<>>, NEW n, Ordered(s, n)
  PROVE  Ordered(Tail(s), n)
<1> DEFINE t == Tail(s)
<1>1. Len(t) = Len(s) - 1 /\ Len(s) \in Nat \ {0} /\ \A i \in 1..Len(t) : t[i] = s[i + 1]
  OBVIOUS
<1> HIDE DEF t
<1>2. \A i \in 1..Len(t) : i + 1 \in 1..Len(s)
  BY <1>1
<1>3. \A i, j \in 1..Len(t) : i < j => i + 1 < j + 1
  BY <1>1
<1>4. Ordered(t, n)
  BY Zenon, <1>1, <1>2, <1>3 DEF Ordered
<1> QED BY Zenon, <1>4 DEF t

\* A header may join, and a ciphertext with a nonce after all others.
LEMMA OrderedAppend ==
  ASSUME NEW S, NEW s \in Seq(S), NEW x \in S, NEW n, Ordered(s, n),
         x.kind = "payload" =>
           \A i \in 1..Len(s) : s[i].kind = "payload" => s[i].frame.nonce < x.frame.nonce
  PROVE  Ordered(Append(s, x), n)
<1> DEFINE t == Append(s, x)
<1>1. /\ Len(t) = Len(s) + 1 /\ Len(s) \in Nat /\ t[Len(s) + 1] = x
      /\ \A i \in 1..Len(s) : t[i] = s[i]
  OBVIOUS
<1> HIDE DEF t
<1>2. \A i, j \in 1..Len(t) : i < j => i \in 1..Len(s) /\ (j \in 1..Len(s) \/ j = Len(s) + 1)
  BY <1>1
<1>3. Ordered(t, n)
  BY Zenon, <1>1, <1>2 DEF Ordered
<1> QED BY Zenon, <1>3 DEF t

\* The window after one more frame.
LEMMA HoldsMore ==
  ASSUME NEW d \in Seq(Frames), NEW f \in Frames, NEW q \in Seq(Pieces), Holds(q, d)
  PROVE  LET t == Append(q, Piece("payload", f))
         IN  Holds(IF Len(t) > Window THEN Tail(t) ELSE t, Append(d, f))
<1> DEFINE c == Piece("payload", f)
           t == Append(q, c)
           e == Append(d, f)
           u == IF Len(t) > Window THEN Tail(t) ELSE t
<1>1. c \in Pieces
  BY Zenon DEF Piece, Pieces
<1> HIDE DEF c
<1>2. /\ t \in Seq(Pieces) /\ Len(q) \in Nat /\ Len(t) = Len(q) + 1 /\ t[Len(q) + 1] = c
      /\ \A k \in 1..Len(q) : t[k] = q[k]
  BY <1>1
<1>3. /\ Len(d) \in Nat /\ Len(e) = Len(d) + 1 /\ e[Len(d) + 1] = f
      /\ \A k \in 1..Len(d) : e[k] = d[k]
  OBVIOUS
<1>4. Window \in Nat \ {0}
  BY Zenon, FramesAssumption
<1>5. Len(q) = IF Len(d) < Window THEN Len(d) ELSE Window
  BY Zenon DEF Holds
<1> HIDE DEF t, e
<1>6. \A k \in 1..Len(t) : t[k] = Piece("payload", e[Len(d) - Len(q) + k])
  <2>1. \A k \in 1..Len(q) : q[k] = Piece("payload", d[Len(d) - Len(q) + k])
    BY Zenon DEF Holds
  <2>2. \A k \in 1..Len(q) : Len(d) - Len(q) + k \in 1..Len(d)
    BY <1>2, <1>3, <1>4, <1>5
  <2>3. \A k \in 1..Len(q) : t[k] = Piece("payload", e[Len(d) - Len(q) + k])
    BY Zenon, <1>2, <1>3, <2>1, <2>2
  <2>4. Len(d) - Len(q) + (Len(q) + 1) = Len(d) + 1
    BY <1>2, <1>3
  <2>5. t[Len(q) + 1] = Piece("payload", e[Len(d) - Len(q) + (Len(q) + 1)])
    BY Zenon, <1>2, <1>3, <2>4 DEF c
  <2>6. \A k \in 1..Len(t) : k \in 1..Len(q) \/ k = Len(q) + 1
    BY <1>2
  <2> QED BY Zenon, <2>3, <2>5, <2>6
<1>7. CASE Len(t) > Window
  <2>1. u = Tail(t)
    BY Zenon, <1>7
  <2>2. Len(u) = Len(q) /\ \A k \in 1..Len(u) : u[k] = t[k + 1]
    BY <1>2, <2>1
  <2>3. Len(q) = Window /\ Len(d) >= Window
    BY <1>2, <1>3, <1>4, <1>5, <1>7
  <2> HIDE DEF u
  <2>4. ASSUME NEW k \in 1..Len(u) PROVE u[k] = Piece("payload", e[Len(e) - Len(u) + k])
    <3>1. k + 1 \in 1..Len(t) /\ Len(d) - Len(q) + (k + 1) = Len(e) - Len(u) + k
      BY <1>2, <1>3, <2>2
    <3> QED BY Zenon, <1>6, <2>2, <3>1
  <2>5. Len(u) = IF Len(e) < Window THEN Len(e) ELSE Window
    BY <1>3, <1>4, <2>2, <2>3
  <2>6. Holds(u, e)
    BY Zenon, <2>4, <2>5 DEF Holds
  <2> QED BY Zenon, <2>6 DEF u, t, e, c
<1>8. CASE ~ (Len(t) > Window)
  <2>1. u = t
    BY Zenon, <1>8
  <2> HIDE DEF u
  <2>2. Len(q) = Len(d) /\ Len(d) < Window
    BY <1>2, <1>3, <1>4, <1>5, <1>8
  <2>3. ASSUME NEW k \in 1..Len(t) PROVE t[k] = Piece("payload", e[Len(e) - Len(t) + k])
    <3>1. Len(d) - Len(q) + k = Len(e) - Len(t) + k
      BY <1>2, <1>3, <2>2
    <3> QED BY Zenon, <1>6, <3>1
  <2>4. Holds(t, e)
    BY <1>2, <1>3, <1>4, <1>8, <2>2, <2>3 DEF Holds
  <2> QED BY Zenon, <2>1, <2>4 DEF u, t, e, c
<1> QED BY Zenon, <1>7, <1>8

\* What is in the window was read before.
LEMMA SeenBefore ==
  ASSUME TypeOK, WindowCoherent, Dense, Calm, Given, Holds(replayOrder, delivered)
  PROVE  \A p \in replaySeen : p.kind = "payload" /\ p.frame.nonce < readNonce
<1> SUFFICES ASSUME NEW p \in replaySeen PROVE p.kind = "payload" /\ p.frame.nonce < readNonce
  BY Zenon
<1>1. /\ replayOrder \in Seq(Pieces) /\ Len(replayOrder) \in Nat /\ Window \in Nat \ {0}
      /\ delivered \in Seq(Frames) /\ Len(delivered) \in Nat
      /\ written \in Seq(Frames) /\ Len(written) \in Nat
  BY FramesAssumption DEF TypeOK
<1>2. PICK k \in 1..Len(replayOrder) : p = replayOrder[k]
  BY <1>1 DEF WindowCoherent, Range
<1> DEFINE n == Len(delivered) - Len(replayOrder) + k
<1>3. n \in 1..Len(delivered) /\ n <= Len(written)
  BY <1>1 DEF Holds, Given
<1>4. p = Piece("payload", delivered[n])
  BY Zenon, <1>2 DEF Holds
<1> HIDE DEF n
<1>5. delivered[n].nonce = n - 1
  BY <1>1, <1>3 DEF Given, Dense, Calm
<1>6. p.kind = "payload" /\ p.frame = delivered[n]
  BY Zenon, <1>4 DEF Piece
<1> QED BY <1>1, <1>3, <1>5, <1>6 DEF Given

\* A ciphertext that is not in the window is the next frame, and opens.
LEMMA FreshOpens ==
  ASSUME TypeOK, OnWire, Dense, Calm, Given, Aligned, Ahead,
         rpc = "payload", wire # <<>>, Head(wire) \notin replaySeen
  PROVE  /\ Len(delivered) + 1 \in 1..Len(written)
         /\ Head(wire) = Piece("payload", written[Len(delivered) + 1])
         /\ Head(wire).frame = written[Len(delivered) + 1]
         /\ Head(wire).frame.nonce = readNonce /\ Opens(Head(wire))
<1> DEFINE n == Len(delivered) + 1
           c == Head(wire)
           x == Piece("payload", written[n])
<1>1. /\ wire \in Seq(Pieces) /\ Len(wire) \in Nat \ {0} /\ c = wire[1] /\ 1 \in 1..Len(wire)
      /\ DOMAIN wire = 1..Len(wire)
      /\ delivered \in Seq(Frames) /\ Len(delivered) \in Nat
      /\ written \in Seq(Frames) /\ Len(written) \in Nat /\ DOMAIN written = 1..Len(written)
  BY DEF TypeOK
<1>2. c.kind = "payload" /\ c \in Range(wire)
  BY Zenon, <1>1 DEF Aligned, Range
<1>3. PICK m \in 1..Len(written) : c.frame = written[m]
  BY Zenon, <1>1, <1>2 DEF OnWire, Range
<1>4. c.frame.nonce = m - 1 /\ c.frame.nonce >= readNonce /\ readNonce = Len(delivered)
  BY Zenon, <1>2, <1>3 DEF Dense, Calm, Ahead, Given
<1>5. n \in 1..Len(written) /\ n \in (Len(delivered) + 1)..Len(written)
  BY <1>1, <1>4
<1>6. x \in Range(wire)
  BY Zenon, <1>5 DEF Ahead
<1>7. x.kind = "payload" /\ x.frame = written[n]
  BY Zenon DEF Piece
<1>8. x.frame.nonce = readNonce
  BY <1>1, <1>4, <1>5, <1>7 DEF Dense, Calm
<1> HIDE DEF n, c, x
<1>9. PICK i \in 1..Len(wire) : x = wire[i]
  BY Zenon, <1>1, <1>6 DEF Range
<1>10. i = 1
  <2> SUFFICES ASSUME 1 < i PROVE FALSE
    BY <1>1
  <2>1. c.frame.nonce < readNonce \/ c.frame.nonce < x.frame.nonce
    BY Zenon, <1>1, <1>2, <1>7, <1>9 DEF Ahead, Ordered
  <2> QED BY <1>1, <1>4, <1>8, <2>1
<1>11. c = x
  BY Zenon, <1>1, <1>9, <1>10
<1>12. Opens(c)
  BY Zenon, <1>2, <1>8, <1>11 DEF Opens, makeNonce
<1> QED BY Zenon, <1>5, <1>7, <1>8, <1>11, <1>12 DEF n, c, x

\* What is on the wire stays when its first piece leaves.
LEMMA RangeRest ==
  ASSUME NEW S, NEW s \in Seq(S), s # <<>>, NEW x \in Range(s), x # Head(s)
  PROVE  x \in Range(Tail(s))
<1>1. /\ Len(s) \in Nat \ {0} /\ Head(s) = s[1] /\ Len(Tail(s)) = Len(s) - 1
      /\ DOMAIN Tail(s) = 1..Len(Tail(s)) /\ \A i \in 1..Len(Tail(s)) : Tail(s)[i] = s[i + 1]
  OBVIOUS
<1>2. PICK i \in 1..Len(s) : x = s[i]
  BY DEF Range
<1>3. i # 1
  BY Zenon, <1>1, <1>2
<1>4. i - 1 \in 1..Len(Tail(s)) /\ (i - 1) + 1 = i
  BY <1>1, <1>3
<1>5. Tail(s)[i - 1] = x
  BY Zenon, <1>1, <1>2, <1>4
<1> QED BY Zenon, <1>1, <1>4, <1>5 DEF Range

\* A header is read, or a ciphertext of the window.
LEMMA AheadTail ==
  ASSUME TypeOK, Dense, Calm, Given, Ahead, wire # <<>>, wire' = Tail(wire),
         UNCHANGED <<readNonce, delivered, written, replaySeen>>,
         Head(wire).kind # "payload" \/ Head(wire).frame.nonce < readNonce
  PROVE  Ahead'
<1>1. /\ wire \in Seq(Pieces) /\ Len(delivered) \in Nat /\ Len(written) \in Nat
  BY DEF TypeOK
<1>2. Range(Tail(wire)) \subseteq Range(wire)
  BY Zenon, <1>1, RangeTail
<1>3. Ordered(Tail(wire), readNonce)
  BY Zenon, <1>1, OrderedTail DEF Ahead
<1>4. ASSUME NEW n \in (Len(delivered) + 1)..Len(written)
      PROVE  Piece("payload", written[n]) \in Range(Tail(wire))
  <2> DEFINE x == Piece("payload", written[n])
  <2>1. x.kind = "payload" /\ x.frame = written[n]
    BY Zenon DEF Piece
  <2>2. n \in 1..Len(written)
    BY <1>1
  <2>3. written[n].nonce = n - 1 /\ ~ (n - 1 < readNonce)
    BY <1>1, <2>2 DEF Dense, Calm, Given
  <2>4. x # Head(wire)
    BY Zenon, <2>1, <2>3
  <2>5. x \in Range(wire)
    BY Zenon DEF Ahead
  <2> HIDE DEF x
  <2>6. x \in Range(Tail(wire))
    BY Zenon, <1>1, <2>4, <2>5, RangeRest
  <2> QED BY Zenon, <2>6 DEF x
<1> QED BY Zenon, <1>2, <1>3, <1>4 DEF Ahead

\* The next frame is read.
LEMMA FreshRead ==
  ASSUME FramesInv, WindowCoherent, Dense, Calm, Given, Holds(replayOrder, delivered),
         Aligned, Ahead, ReadPayload, Head(wire) \notin replaySeen
  PROVE  Given' /\ Holds(replayOrder, delivered)' /\ Aligned' /\ Ahead'
<1>0. TypeOK /\ Structure /\ OnWire /\ WentOut /\ Reading
  BY Zenon, InvParts
<1> DEFINE n == Len(delivered) + 1
           f == written[n]
<1>1. rpc = "payload" /\ wire # <<>>
  BY Zenon DEF ReadPayload
<1>2. /\ n \in 1..Len(written) /\ Head(wire) = Piece("payload", f)
      /\ Head(wire).frame = f /\ Head(wire).frame.nonce = readNonce /\ Opens(Head(wire))
  BY Zenon, <1>0, <1>1, FreshOpens
<1>3. /\ delivered' = Append(delivered, f) /\ readNonce' = readNonce + 1 /\ rpc' = "header"
      /\ rememberCiphertext(Head(wire)) /\ wire' = Tail(wire) /\ written' = written
  BY Zenon, <1>2 DEF ReadPayload, sender
<1>4. /\ wire \in Seq(Pieces) /\ Len(wire) \in Nat \ {0} /\ Head(wire) = wire[1]
      /\ delivered \in Seq(Frames) /\ Len(delivered) \in Nat
      /\ written \in Seq(Frames) /\ Len(written) \in Nat /\ f \in Frames
      /\ replayOrder \in Seq(Pieces) /\ readNonce \in Nat /\ readNonce = Len(delivered)
  BY <1>0, <1>1, <1>2 DEF TypeOK, Given
<1> HIDE DEF f
<1>5. /\ Len(delivered') = n /\ delivered'[n] = f
      /\ \A i \in 1..Len(delivered) : delivered'[i] = delivered[i]
  BY <1>3, <1>4
<1>6. Given'
  <2>1. \A i \in 1..n : i \in 1..Len(delivered) \/ i = n
    BY <1>4
  <2>2. \A i \in 1..n : delivered'[i] = written[i]
    BY Zenon, <1>5, <2>1 DEF Given, f
  <2> QED BY <1>2, <1>3, <1>4, <1>5, <2>2 DEF Given
<1>7. Holds(replayOrder, delivered)'
  <2>1. replayOrder' = LET t == Append(replayOrder, Piece("payload", f))
                       IN  IF Len(t) > Window THEN Tail(t) ELSE t
    BY Zenon, <1>2, <1>3 DEF rememberCiphertext
  <2>2. Holds(replayOrder', delivered')
    BY Zenon, <1>3, <1>4, <2>1, HoldsMore
  <2> QED BY Zenon, <2>2 DEF Holds
<1>8. Aligned'
  BY Zenon, <1>3 DEF Aligned
<1>9. \A j \in 2..Len(wire) : wire[j].kind = "payload" => wire[j].frame.nonce > readNonce
  <2>1. 1 \in 1..Len(wire) /\ wire[1].kind = "payload" /\ wire[1].frame.nonce = readNonce
    BY <1>2, <1>4 DEF Piece
  <2>2. \A j \in 2..Len(wire) : j \in 1..Len(wire) /\ 1 < j
    BY <1>4
  <2>3. ASSUME NEW j \in 2..Len(wire), wire[j].kind = "payload"
        PROVE  readNonce < readNonce \/ readNonce < wire[j].frame.nonce
    BY Zenon, <2>1, <2>2, <2>3 DEF Ahead, Ordered
  <2>4. ~ (readNonce < readNonce)
    BY <1>4
  <2>5. \A j \in 2..Len(wire) : wire[j].kind = "payload" => readNonce < wire[j].frame.nonce
    BY Zenon, <2>3, <2>4
  <2> QED BY Zenon, <2>5
<1>10. Ahead'
  <2>1. /\ Len(Tail(wire)) = Len(wire) - 1 /\ DOMAIN Tail(wire) = 1..(Len(wire) - 1)
        /\ \A i \in 1..(Len(wire) - 1) : Tail(wire)[i] = wire[i + 1] /\ i + 1 \in 2..Len(wire)
    BY <1>1, <1>4
  <2>2. ASSUME NEW p \in Range(wire'), p.kind = "payload" PROVE p.frame.nonce >= readNonce'
    <3>1. PICK i \in 1..(Len(wire) - 1) : p = wire[i + 1] /\ i + 1 \in 2..Len(wire)
      BY Zenon, <1>3, <2>1 DEF Range
    <3>2. p.frame.nonce > readNonce
      BY Zenon, <1>9, <2>2, <3>1
    <3>3. p \in Pieces /\ \A g \in Frames \cup {NoFrame} : g.nonce \in Nat
      BY <1>4, <3>1 DEF Frames, NoFrame
    <3>4. p.frame.nonce \in Nat
      BY Zenon, <3>3 DEF Pieces
    <3> QED BY <1>3, <1>4, <3>2, <3>4
  <2>3. Ordered(wire', readNonce')
    <3>1. ASSUME NEW i \in 1..Len(wire'), NEW j \in 1..Len(wire'), i < j,
                 wire'[i].kind = "payload", wire'[j].kind = "payload"
          PROVE  wire'[i].frame.nonce < wire'[j].frame.nonce
      <4>1. /\ i + 1 \in 2..Len(wire) /\ j + 1 \in 2..Len(wire) /\ i + 1 < j + 1
            /\ i + 1 \in 1..Len(wire) /\ j + 1 \in 1..Len(wire)
            /\ wire'[i] = wire[i + 1] /\ wire'[j] = wire[j + 1]
        BY <1>3, <1>4, <2>1, <3>1
      <4>2. wire[i + 1].frame.nonce > readNonce
        BY Zenon, <1>9, <3>1, <4>1
      <4>3. \/ wire[i + 1].frame.nonce < readNonce
            \/ wire[i + 1].frame.nonce < wire[j + 1].frame.nonce
        BY Zenon, <3>1, <4>1 DEF Ahead, Ordered
      <4>4. wire[i + 1] \in Pieces /\ \A g \in Frames \cup {NoFrame} : g.nonce \in Nat
        BY <1>4, <4>1 DEF Frames, NoFrame
      <4>5. wire[i + 1].frame.nonce \in Nat
        BY Zenon, <4>4 DEF Pieces
      <4> QED BY <1>4, <4>1, <4>2, <4>3, <4>5
    <3> QED BY Zenon, <3>1 DEF Ordered
  <2>4. ASSUME NEW k \in (Len(delivered') + 1)..Len(written')
        PROVE  Piece("payload", written'[k]) \in Range(wire')
    <3> DEFINE x == Piece("payload", written[k])
    <3>1. k \in (Len(delivered) + 1)..Len(written) /\ k \in 1..Len(written) /\ k # n
      BY <1>3, <1>4, <1>5
    <3>2. written[k].nonce = k - 1 /\ f.nonce = n - 1
      BY Zenon, <1>2, <3>1 DEF Dense, Calm, f
    <3>3. k - 1 # n - 1
      BY <1>4, <3>1
    <3>4. x # Head(wire) /\ x \in Range(wire)
      <4>1. x.frame = written[k]
        BY Zenon DEF Piece
      <4>2. x \in Range(wire)
        BY Zenon, <3>1 DEF Ahead
      <4> QED BY Zenon, <1>2, <3>2, <3>3, <4>1, <4>2
    <3> HIDE DEF x
    <3>5. x \in Range(Tail(wire))
      BY Zenon, <1>1, <1>4, <3>4, RangeRest
    <3> QED BY Zenon, <1>3, <3>5 DEF x
  <2>5. Ordered(wire, readNonce)'
    BY Zenon, <2>3 DEF Ordered
  <2> QED BY Zenon, <2>2, <2>4, <2>5 DEF Ahead
<1> QED BY Zenon, <1>6, <1>7, <1>8, <1>10

\* A step that moves no piece.
LEMMA CalmKept ==
  ASSUME Given, Holds(replayOrder, delivered), Ahead, Aligned',
         UNCHANGED <<readNonce, delivered, replaySeen, replayOrder, written, wire>>
  PROVE  Given' /\ Holds(replayOrder, delivered)' /\ Aligned' /\ Ahead'
<1>1. Given'
  BY Zenon DEF Given
<1>2. Holds(replayOrder, delivered)'
  BY Zenon DEF Holds
<1>3. Ahead'
  BY Zenon DEF Ahead, Ordered
<1> QED BY Zenon, <1>1, <1>2, <1>3

\* A header is read, or a ciphertext of the window is refused.
LEMMA FirstLeaves ==
  ASSUME FramesInv, WindowCoherent, Paired(wire), Latest, Dense, Calm, Given,
         Holds(replayOrder, delivered), Aligned, Ahead,
         ReadHeader \/ (ReadPayload /\ Head(wire) \in replaySeen)
  PROVE  Given' /\ Holds(replayOrder, delivered)' /\ Aligned' /\ Ahead'
<1>0. TypeOK /\ Structure /\ OnWire /\ WentOut /\ Reading
  BY Zenon, InvParts
<1>1. /\ wire # <<>> /\ wire' = Tail(wire)
      /\ UNCHANGED <<readNonce, delivered, written, replaySeen, replayOrder, conn, wpc>>
  BY Zenon DEF ReadHeader, ReadPayload, sender
<1>2. Head(wire).kind # "payload" \/ Head(wire).frame.nonce < readNonce
  BY Zenon, <1>0, SeenBefore DEF ReadHeader
<1>3. Given' /\ Ahead'
  BY Zenon, <1>0, <1>1, <1>2, AheadTail DEF Given
<1>4. Holds(replayOrder, delivered)'
  BY Zenon, <1>1 DEF Holds
<1>5. Aligned'
  <2> SUFFICES ASSUME rpc' = "payload" PROVE Aligned'
    BY Zenon DEF Aligned
  <2>1. Head(wire).kind = "header"
    BY Zenon DEF ReadHeader, ReadPayload, AfterError
  <2>2. /\ wire \in Seq(Pieces) /\ Len(wire) \in Nat \ {0} /\ Head(wire) = wire[1]
        /\ Len(Tail(wire)) = Len(wire) - 1
    BY <1>0, <1>1 DEF TypeOK
  <2>3. CASE Tail(wire) = <<>>
    <3>0. Len(<<>>) = 0
      BY Zenon
    <3>a. Len(Tail(wire)) = 0
      BY <2>3, <3>0, Zenon
    <3>1. Len(wire) = 1
      BY <2>2, <3>a
    <3>2. ~ Shut(wire)
      BY <2>1, <2>2, <3>1 DEF Shut
    <3>3. conn' = "up" => \E w \in Writers : wpc'[w] = "payload"
      BY Zenon, <1>1, <3>2 DEF Latest
    <3> QED BY Zenon, <1>1, <2>3, <3>3 DEF Aligned
  <2>4. CASE Tail(wire) # <<>>
    <3>1. 1 \in 1..(Len(wire) - 1) /\ Tail(wire)[1] = wire[1 + 1]
      BY <2>2, <2>4
    <3>2. wire[1 + 1].kind = "payload"
      BY Zenon, <2>1, <2>2, <3>1 DEF Paired
    <3> QED BY Zenon, <1>1, <2>4, <3>1, <3>2 DEF Aligned
  <2> QED BY Zenon, <2>3, <2>4
<1> QED BY Zenon, <1>3, <1>4, <1>5

\* What is appended leaves the first element where it is.
LEMMA FirstStays ==
  ASSUME NEW S, NEW s \in Seq(S), NEW x \in S, s # <<>>
  PROVE  Append(s, x)[1] = s[1] /\ Append(s, x) # <<>>
OBVIOUS

\* A piece is written.
LEMMA PieceWritten ==
  ASSUME FramesInv, Dense, Calm, Given, Holds(replayOrder, delivered), Aligned, Ahead,
         NEW w \in Writers, WriteHeader(w) \/ WritePayload(w)
  PROVE  Given' /\ Holds(replayOrder, delivered)' /\ Aligned' /\ Ahead'
<1>0. TypeOK /\ Structure /\ OnWire /\ WentOut /\ Reading
  BY Zenon, InvParts
<1>a. /\ wire \in Seq(Pieces) /\ Len(wire) \in Nat /\ DOMAIN wire = 1..Len(wire)
      /\ delivered \in Seq(Frames) /\ Len(delivered) \in Nat
      /\ written \in Seq(Frames) /\ Len(written) \in Nat /\ DOMAIN written = 1..Len(written)
      /\ cur[w] \in Frames /\ readNonce \in Nat
  BY <1>0 DEF TypeOK, Structure, WriteHeader, WritePayload
<1>b. UNCHANGED <<readNonce, delivered, replaySeen, replayOrder, rpc, conn>> /\ conn = "up"
  BY Zenon DEF WriteHeader, WritePayload, receiver
<1>c. Holds(replayOrder, delivered)'
  BY Zenon, <1>b DEF Holds
<1>d. Ordered(wire, readNonce)
  BY Zenon DEF Ahead
<1>1. CASE WriteHeader(w)
  <2> DEFINE x == Piece("header", cur[w])
  <2>1. wire' = Append(wire, x) /\ written' = written /\ wpc[w] = "header"
    BY Zenon, <1>1 DEF WriteHeader
  <2>2. x \in Pieces /\ x.kind = "header"
    BY Zenon, <1>a DEF Piece, Pieces
  <2> HIDE DEF x
  <2>3. Range(wire') = Range(wire) \cup {x}
    BY <1>a, <2>1, <2>2, RangeAppend
  <2>4. Ordered(wire', readNonce)
    BY <1>a, <1>d, <2>1, <2>2, OrderedAppend, Zenon
  <2>5. Ahead'
    BY Zenon, <1>b, <2>1, <2>2, <2>3, <2>4 DEF Ahead
  <2>6. Aligned'
    <3> SUFFICES ASSUME rpc = "payload" PROVE Aligned'
      BY Zenon, <1>b DEF Aligned
    <3>1. wire # <<>>
      BY Zenon, <1>0, <1>b, <2>1 DEF Aligned, Structure
    <3>2. wire'[1] = wire[1] /\ wire' # <<>>
      BY <1>a, <2>1, <2>2, <3>1, FirstStays, Zenon
    <3> QED BY Zenon, <3>1, <3>2 DEF Aligned
  <2> QED BY Zenon, <1>b, <1>c, <2>1, <2>5, <2>6 DEF Given
<1>2. CASE WritePayload(w)
  <2> DEFINE f == cur[w]
             x == Piece("payload", f)
  <2>1. wire' = Append(wire, x) /\ written' = Append(written, f) /\ wpc[w] = "payload"
    BY Zenon, <1>2 DEF WritePayload
  <2>2. x \in Pieces /\ x.kind = "payload" /\ x.frame = f
    BY Zenon, <1>a DEF Piece, Pieces
  <2>3. f.nonce = Len(written)
    <3>1. writeMu = w /\ w # NoWriter /\ writeNonce \in Nat
      BY Zenon, <1>0, <2>1, FramesAssumption DEF Structure, TypeOK
    <3> QED BY <1>a, <1>b, <2>1, <3>1 DEF Dense, Calm
  <2> HIDE DEF f, x
  <2>4. /\ Len(written') = Len(written) + 1 /\ written'[Len(written) + 1] = f
        /\ \A i \in 1..Len(written) : written'[i] = written[i]
    BY <1>a, <2>1 DEF f
  <2>5. Range(wire') = Range(wire) \cup {x}
    BY <1>a, <2>1, <2>2, RangeAppend
  <2>6. \A i \in 1..Len(wire) : wire[i].kind = "payload" => wire[i].frame.nonce < x.frame.nonce
    <3> SUFFICES ASSUME NEW i \in 1..Len(wire), wire[i].kind = "payload"
                 PROVE  wire[i].frame.nonce < x.frame.nonce
      BY Zenon
    <3>1. wire[i].frame \in Range(written)
      BY Zenon, <1>0, <1>a DEF OnWire, Range
    <3>2. PICK m \in 1..Len(written) : wire[i].frame = written[m]
      BY Zenon, <1>a, <3>1 DEF Range
    <3>3. written[m].nonce = m - 1
      BY Zenon DEF Dense, Calm
    <3> QED BY <1>a, <2>2, <2>3, <3>2, <3>3
  <2>7. Ordered(wire', readNonce)
    BY <1>a, <1>d, <2>1, <2>2, <2>6, OrderedAppend, Zenon
  <2>8. x.frame.nonce >= readNonce
    BY Zenon, <1>a, <2>2, <2>3 DEF Given
  <2>9. ASSUME NEW n \in (Len(delivered) + 1)..Len(written')
        PROVE  Piece("payload", written'[n]) \in Range(wire')
    <3>1. CASE n = Len(written) + 1
      BY Zenon, <2>4, <2>5, <3>1 DEF x
    <3>2. CASE n \in (Len(delivered) + 1)..Len(written)
      <4>1. written'[n] = written[n]
        BY <1>a, <2>4, <3>2
      <4> QED BY Zenon, <2>5, <3>2, <4>1 DEF Ahead
    <3> QED BY <1>a, <2>4, <3>1, <3>2
  <2>10. Ahead'
    BY Zenon, <1>b, <2>5, <2>7, <2>8, <2>9 DEF Ahead
  <2>11. Aligned'
    <3>1. CASE wire = <<>>
      <4>1. wire' = <<x>> /\ wire'[1] = x
        BY <2>1, <2>2, <3>1
      <4> QED BY Zenon, <2>2, <4>1 DEF Aligned
    <3>2. CASE wire # <<>>
      <4>1. wire'[1] = wire[1] /\ wire' # <<>>
        BY <1>a, <2>1, <2>2, <3>2, FirstStays, Zenon
      <4> QED BY Zenon, <1>b, <3>2, <4>1 DEF Aligned
    <3> QED BY Zenon, <3>1, <3>2
  <2>12. Given'
    BY <1>a, <1>b, <2>4 DEF Given
  <2> QED BY Zenon, <1>c, <2>10, <2>11, <2>12
<1> QED BY Zenon, <1>1, <1>2

\* The only fault of a calm session.
LEMMA CalmFault ==
  ASSUME Repeat \/ Displace \/ Lose \/ InsertEmpty, ~ disordered'
  PROVE  /\ 0 \in Boundaries /\ ~ disordered
         /\ \E n \in 1..Len(delivered) :
              n + Window > Len(delivered) /\ wire' = Spliced(0, Whole(delivered[n]))
BY ZenonT(60) DEF Repeat, Displace, Lose, InsertEmpty, Fault

\* A frame of the window comes once more.
LEMMA Repeated ==
  ASSUME FramesInv, WindowCoherent, Dense, Calm, Given, Holds(replayOrder, delivered),
         Aligned, Ahead, 0 \in Boundaries, UNCHANGED <<sender, conn, receiver>>,
         NEW n \in 1..Len(delivered), n + Window > Len(delivered),
         wire' = Spliced(0, Whole(delivered[n]))
  PROVE  Given' /\ Holds(replayOrder, delivered)' /\ Aligned' /\ Ahead'
<1>0. TypeOK /\ Structure /\ OnWire /\ WentOut /\ Reading
  BY Zenon, InvParts
<1>a. /\ wire \in Seq(Pieces) /\ Len(wire) \in Nat /\ DOMAIN wire = 1..Len(wire)
      /\ delivered \in Seq(Frames) /\ Len(delivered) \in Nat
      /\ written \in Seq(Frames) /\ Len(written) \in Nat
      /\ replayOrder \in Seq(Pieces) /\ DOMAIN replayOrder = 1..Len(replayOrder)
      /\ Len(replayOrder) \in Nat /\ Window \in Nat \ {0}
  BY <1>0, FramesAssumption DEF TypeOK
<1>b. UNCHANGED <<readNonce, replaySeen, replayOrder, rpc, delivered, written>>
  BY Zenon DEF sender, receiver
<1> DEFINE f == delivered[n]
           h == Piece("header", f)
           x == Piece("payload", f)
<1>1. f \in Frames /\ h \in Pieces /\ x \in Pieces
  BY <1>a DEF Piece, Pieces
<1>2. h.kind = "header" /\ x.kind = "payload" /\ x.frame = f
  BY Zenon DEF Piece
<1>3. x \in replaySeen
  <2> DEFINE k == n - (Len(delivered) - Len(replayOrder))
  <2>a. Len(replayOrder) = IF Len(delivered) < Window THEN Len(delivered) ELSE Window
    BY Zenon DEF Holds
  <2>1. k \in 1..Len(replayOrder) /\ Len(delivered) - Len(replayOrder) + k = n
    <3>1. CASE Len(delivered) < Window
      BY <1>a, <2>a, <3>1
    <3>2. CASE ~ (Len(delivered) < Window)
      BY <1>a, <2>a, <3>2
    <3> QED BY Zenon, <3>1, <3>2
  <2> HIDE DEF k
  <2>2. replayOrder[k] = x
    BY Zenon, <2>1 DEF Holds
  <2> QED BY Zenon, <1>a, <2>1, <2>2 DEF WindowCoherent, Range
<1>4. f.nonce < readNonce
  BY Zenon, <1>0, <1>2, <1>3, SeenBefore
<1>5. wire' = <<h, x>> \o wire
  <2>1. SubSeq(wire, 1, 0) = <<>> /\ SubSeq(wire, 0 + 1, Len(wire)) = wire
    BY <1>a
  <2>2. Whole(f) = <<h, x>>
    BY Zenon DEF Whole
  <2> HIDE DEF h, x
  <2>3. <<h, x>> \in Seq(Pieces) /\ <<>> \o <<h, x>> = <<h, x>>
    BY <1>1
  <2> QED BY Zenon, <2>1, <2>2, <2>3 DEF Spliced
<1> HIDE DEF h, x, f
<1>6. /\ Len(wire') = Len(wire) + 2 /\ wire'[1] = h /\ wire'[2] = x /\ wire' # <<>>
      /\ \A i \in 3..Len(wire') : wire'[i] = wire[i - 2] /\ i - 2 \in 1..Len(wire)
  BY <1>a, <1>1, <1>5
<1>7. Range(wire') = {h, x} \cup Range(wire)
  <2>1. <<h, x>> \in Seq(Pieces) /\ Range(<<h, x>>) = {h, x}
    <3>1. <<h, x>> \in Seq(Pieces) /\ DOMAIN <<h, x>> = {1, 2}
      BY <1>1
    <3> QED BY <1>1, <3>1 DEF Range
  <2> DEFINE a == <<h, x>>
  <2> HIDE DEF a
  <2>2. a \in Seq(Pieces) /\ Range(a) = {h, x} /\ wire' = a \o wire
    BY Zenon, <1>5, <2>1 DEF a
  <2>3. Range(a \o wire) = Range(a) \cup Range(wire)
    BY <1>a, <2>2, RangeConcat
  <2> QED BY Zenon, <2>2, <2>3
<1>8. Ordered(wire', readNonce)
  <2> SUFFICES ASSUME NEW i \in 1..Len(wire'), NEW j \in 1..Len(wire'), i < j,
                      wire'[i].kind = "payload", wire'[j].kind = "payload"
               PROVE  \/ wire'[i].frame.nonce < readNonce
                      \/ wire'[i].frame.nonce < wire'[j].frame.nonce
    BY Zenon DEF Ordered
  <2>0. Len(wire') \in Nat
    BY <1>a, <1>6
  <2>1. i # 1
    BY Zenon, <1>2, <1>6
  <2>2. CASE i = 2
    BY Zenon, <1>2, <1>4, <1>6, <2>2
  <2>3. CASE i > 2
    <3>1. i \in 3..Len(wire') /\ j \in 3..Len(wire') /\ i - 2 < j - 2
      BY <2>0, <2>3
    <3>2. /\ wire'[i] = wire[i - 2] /\ i - 2 \in 1..Len(wire)
          /\ wire'[j] = wire[j - 2] /\ j - 2 \in 1..Len(wire)
      BY Zenon, <1>6, <3>1
    <3> QED BY Zenon, <3>1, <3>2 DEF Ahead, Ordered
  <2> QED BY <2>0, <2>1, <2>2, <2>3
<1>9. Ahead'
  <2>1. Ordered(wire, readNonce)'
    BY Zenon, <1>b, <1>8 DEF Ordered
  <2> QED BY Zenon, <1>b, <1>2, <1>3, <1>7, <2>1 DEF Ahead
<1>10. rpc' # "payload"
  BY Zenon, <1>b DEF Boundaries
<1>11. Aligned' /\ Given'
  BY Zenon, <1>b, <1>10 DEF Aligned, Given
<1>12. Holds(replayOrder, delivered)'
  BY Zenon, <1>b DEF Holds
<1> QED BY Zenon, <1>9, <1>11, <1>12

\* Every step keeps what holds without disorder and without an oversized frame.
LEMMA CalmStep ==
  ASSUME FramesInv, WindowCoherent, Paired(wire), Latest, Dense, CalmInv, [Next]_vars
  PROVE  CalmInv'
<1>0. TypeOK /\ Structure /\ OnWire /\ WentOut /\ Reading
  BY Zenon, InvParts
<1> SUFFICES ASSUME Calm'
             PROVE  Given' /\ Holds(replayOrder, delivered)' /\ Aligned' /\ Ahead'
  BY Zenon DEF CalmInv
<1> DEFINE Then == Given' /\ Holds(replayOrder, delivered)' /\ Aligned' /\ Ahead'
<1>1. Calm
  <2>1. CASE Repeat \/ Displace \/ Lose \/ InsertEmpty
    BY <1>0, <2>1, CalmFault, FaultStep DEF Calm, sender
  <2>2. ASSUME disordered' = disordered, tooLarge' = tooLarge \/ tooLarge' = TRUE PROVE Calm
    <3>1. ~ disordered' /\ ~ tooLarge'
      BY Zenon DEF Calm
    <3>2. tooLarge' # TRUE
      BY <3>1, Zenon
    <3>3. ~ disordered
      BY <2>2, <3>1, Zenon
    <3>4. ~ tooLarge
      BY <2>2, <3>1, <3>2, Zenon
    <3> QED BY Zenon, <3>3, <3>4 DEF Calm
  <2>3. ASSUME NEW w \in Writers, WriteFrame(w) \/ Writing(w) PROVE Calm
    BY Zenon, <2>2, <2>3 DEF WriteFrame, Writing, WriteHeader, WritePayload, WriteFails, faultVars
  <2>4. CASE ReadFrame \/ ConnEnds \/ UNCHANGED vars
    BY Zenon, <2>2, <2>4 DEF ReadFrame, ReadHeader, ReadPayload, ReadEnd, ConnEnds, vars, sender,
                     faultVars
  <2> QED BY Zenon, <2>1, <2>3, <2>4 DEF Next
<1>2. Given /\ Holds(replayOrder, delivered) /\ Aligned /\ Ahead
  BY Zenon, <1>1 DEF CalmInv
<1>3. CASE ReadHeader
  BY Zenon, <1>1, <1>2, <1>3, FirstLeaves
<1>4. CASE ReadPayload
  BY Zenon, <1>1, <1>2, <1>4, FirstLeaves, FreshRead
<1>5. CASE ReadEnd \/ ConnEnds \/ UNCHANGED vars
  <2>1. /\ UNCHANGED <<readNonce, delivered, replaySeen, replayOrder, written, wire, wpc>>
        /\ rpc' = rpc \/ rpc' # "payload"
        /\ conn' = conn \/ conn' # "up"
    BY Zenon, <1>5 DEF ReadEnd, ConnEnds, vars, sender, receiver
  <2>2. Aligned'
    BY Zenon, <1>2, <2>1 DEF Aligned
  <2> QED BY Zenon, <1>2, <2>1, <2>2, CalmKept
<1>6. CASE Repeat \/ Displace \/ Lose \/ InsertEmpty
  BY Zenon, <1>0, <1>1, <1>2, <1>6, CalmFault, FaultStep, Repeated DEF Calm
<1>7. ASSUME NEW w \in Writers, WriteFrame(w) PROVE Then
  <2>1. /\ UNCHANGED <<readNonce, delivered, replaySeen, replayOrder, written, wire, rpc, conn>>
        /\ wpc[w] = "idle" /\ (wpc' = wpc \/ wpc' = [wpc EXCEPT ![w] = "header"])
    BY Zenon, <1>7 DEF WriteFrame, receiver
  <2>2. \A v \in Writers : wpc[v] = "payload" => wpc'[v] = "payload"
    BY Zenon, <1>0, <2>1 DEF TypeOK
  <2>3. Aligned'
    BY Zenon, <1>2, <2>1, <2>2 DEF Aligned
  <2> QED BY Zenon, <1>2, <2>1, <2>3, CalmKept
<1>8. ASSUME NEW w \in Writers, WriteFails(w) PROVE Then
  <2>1. /\ UNCHANGED <<readNonce, delivered, replaySeen, replayOrder, written, wire, rpc, conn>>
        /\ conn # "up"
    BY Zenon, <1>8 DEF WriteFails, receiver
  <2>2. Aligned'
    BY Zenon, <1>2, <2>1 DEF Aligned
  <2> QED BY Zenon, <1>2, <2>1, <2>2, CalmKept
<1>9. ASSUME NEW w \in Writers, WriteHeader(w) \/ WritePayload(w) PROVE Then
  BY Zenon, <1>1, <1>2, <1>9, PieceWritten
<1> QED BY Zenon, <1>3, <1>4, <1>5, <1>6, <1>7, <1>8, <1>9 DEF Next, Writing, ReadFrame

\* The end of the connection is the end of the session.
LEMMA EndingStep ==
  ASSUME FramesInv, Ending, [Next]_vars
  PROVE  Ending'
<1>0. TypeOK /\ Structure /\ OnWire /\ WentOut /\ Reading
  BY Zenon, InvParts
<1>1. CASE Repeat \/ Displace \/ Lose \/ InsertEmpty
  <2>1. rpc \in {"header", "payload"}
    BY <1>1, ZenonT(60) DEF Repeat, Displace, Lose, InsertEmpty, Fault
  <2>2. rpc' = rpc
    BY Zenon, <1>0, <1>1, FaultStep DEF receiver
  <2> QED BY Zenon, <2>1, <2>2 DEF Ending
<1>2. ASSUME NEW w \in Writers, WriteFrame(w) \/ WriteFails(w) PROVE Ending'
  BY Zenon, <1>2 DEF WriteFrame, WriteFails, Ending, receiver
<1>3. ASSUME NEW w \in Writers, WriteHeader(w) \/ WritePayload(w) PROVE Ending'
  BY Zenon, <1>3 DEF WriteHeader, WritePayload, Ending, receiver
<1>4. CASE ReadHeader \/ ReadPayload
  BY Zenon, <1>4 DEF ReadHeader, ReadPayload, AfterError, Ending
<1>5. CASE ReadEnd \/ ConnEnds \/ UNCHANGED vars
  BY Zenon, <1>5 DEF ReadEnd, ConnEnds, vars, receiver, Ending
<1> QED BY Zenon, <1>1, <1>2, <1>3, <1>4, <1>5 DEF Next, Writing, ReadFrame

\* What a session without disorder and refusals keeps.
THEOREM CalmInvariant == Spec => [](Dense /\ CalmInv /\ Ending)
<1>1. Init => Dense /\ CalmInv /\ Ending
  <2> SUFFICES ASSUME Init PROVE Dense /\ CalmInv /\ Ending
    BY Zenon
  <2>1. /\ Len(written) = 0 /\ Len(delivered) = 0 /\ Len(wire) = 0 /\ Len(replayOrder) = 0
        /\ readNonce = 0 /\ writeNonce = 0 /\ Window \in Nat \ {0} /\ rpc = "header"
        /\ writeMu = NoWriter /\ \A w \in Writers : wpc[w] = "idle"
    BY Zenon, FramesAssumption DEF Init
  <2>2. Dense /\ Ending
    BY <2>1 DEF Dense, Ending
  <2>3. Given /\ Holds(replayOrder, delivered) /\ Aligned
    BY <2>1 DEF Given, Holds, Aligned
  <2>4. Range(wire) = {}
    BY DEF Init, Range
  <2>5. Ahead
    BY <2>1, <2>4 DEF Ahead, Ordered
  <2> QED BY Zenon, <2>2, <2>3, <2>5 DEF CalmInv
<1>2. /\ FramesInv /\ WindowCoherent /\ Paired(wire) /\ Latest
      /\ Dense /\ CalmInv /\ Ending /\ [Next]_vars
      => (Dense /\ CalmInv /\ Ending)'
  BY Zenon, DenseStep, CalmStep, EndingStep
<1> QED BY <1>1, <1>2, FramesInvariant, WindowKept, WireInvariant, PTL DEF Spec

\* Repetitions of frames still in the replay window cost the reader nothing,
\* whether it goes on after an error or not (RepeatsHarmless).
THEOREM RepeatsCostNothing == Spec => []RepeatsHarmless
<1>1. CalmInv => RepeatsHarmless
  BY Zenon DEF CalmInv, Calm, Given, RepeatsHarmless
<1> QED BY <1>1, CalmInvariant, PTL

\* io.EOF at the reader means that it was given every frame that went out whole
\* (EofComplete).
THEOREM EofMeansAll == Spec => []EofComplete
<1>1. TypeOK /\ CalmInv /\ Ending => EofComplete
  <2> SUFFICES ASSUME TypeOK, Given, Ahead, wire = <<>> PROVE delivered = written
    BY Zenon DEF CalmInv, Calm, Ending, EofComplete
  <2>1. /\ delivered \in Seq(Frames) /\ Len(delivered) \in Nat
        /\ written \in Seq(Frames) /\ Len(written) \in Nat
    BY DEF TypeOK
  <2>2. Range(wire) = {}
    BY DEF Range
  <2>3. ~ (Len(delivered) < Len(written))
    <3>1. \A n \in (Len(delivered) + 1)..Len(written) : FALSE
      BY Zenon, <2>2 DEF Ahead
    <3>2. Len(delivered) < Len(written) => Len(written) \in (Len(delivered) + 1)..Len(written)
      BY <2>1
    <3> QED BY Zenon, <3>1, <3>2
  <2>4. Len(delivered) = Len(written)
    BY <2>1, <2>3 DEF Given
  <2> QED BY <2>1, <2>4 DEF Given
<1>2. FramesInv => TypeOK
  BY Zenon DEF FramesInv
<1> QED BY <1>1, <1>2, CalmInvariant, FramesInvariant, PTL
=============================================================================
