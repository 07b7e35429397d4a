------------------------------- MODULE MCPipe -------------------------------
(***************************************************************************)
(* Pipe with two writers, so that wake-ups can be taken by the other one.  *)
(***************************************************************************)
EXTENDS Pipe
=============================================================================
