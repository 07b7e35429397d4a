-------------------------- MODULE MCActivityTimer --------------------------
(***************************************************************************)
(* ActivityTimer with the two calls of SetTimeout that a relay makes.      *)
(***************************************************************************)
EXTENDS ActivityTimer
=============================================================================
