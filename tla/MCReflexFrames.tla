--------------------------- MODULE MCReflexFrames ---------------------------
(***************************************************************************)
(* ReflexFrames with two writers: the goroutine that forwards upstream     *)
(* data and the handler that sends the CLOSE frame.                        *)
(***************************************************************************)
EXTENDS ReflexFrames
=============================================================================
