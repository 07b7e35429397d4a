-------------------------- MODULE MCReflexSession --------------------------
(***************************************************************************)
(* ReflexSession with a profile of one packet size and no delay.  A        *)
(* Duration has 16 values and a millisecond three units: of the delays the *)
(* client asks for, 1 is a delay and 3 overflows to a negative one, which  *)
(* is ignored.                                                             *)
(***************************************************************************)
EXTENDS ReflexSession
=============================================================================
