------------------------------- MODULE Stream -------------------------------
(***************************************************************************)
(* What a one-way byte stream promises its two ends, whatever carries it:  *)
(* the receiver sees a prefix of what was sent, in order, without gaps and *)
(* without repetitions, and it is told of the end of the stream only when  *)
(* it has seen everything.  A stream may break; then nothing more comes.   *)
(***************************************************************************)
EXTENDS Naturals, Sequences

CONSTANT Items

VARIABLES
  sent,      \* the items accepted from the senders, in order
  received,  \* the items handed to the receiver, in order
  mode,      \* "open", "closed" by the senders' side, or "broken"
  eof        \* the receiver has been told that the stream has ended

streamVars == <<sent, received, mode, eof>>

Init ==
  /\ sent = <<>>
  /\ received = <<>>
  /\ mode = "open"
  /\ eof = FALSE

\* A run of items is accepted as one.
Send ==
  /\ mode = "open"
  /\ sent' \in Seq(Items)
  /\ \E n \in 0..Len(sent') : sent = SubSeq(sent', 1, n)
  /\ UNCHANGED <<received, mode, eof>>

\* The receiver gets some of what it has not seen yet.
Receive ==
  /\ mode # "broken"
  /\ \E n \in Len(received)..Len(sent) : received' = SubSeq(sent, 1, n)
  /\ UNCHANGED <<sent, mode, eof>>

Close ==
  /\ mode = "open"
  /\ mode' = "closed"
  /\ UNCHANGED <<sent, received, eof>>

Break ==
  /\ mode' = "broken"
  /\ UNCHANGED <<sent, received, eof>>

End ==
  /\ mode = "closed"
  /\ received = sent
  /\ eof' = TRUE
  /\ UNCHANGED <<sent, received, mode>>

Next == Send \/ Receive \/ Close \/ Break \/ End

Spec == Init /\ [][Next]_streamVars
=============================================================================
