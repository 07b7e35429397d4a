-------------------------- MODULE MCFallbackRelay --------------------------
(***************************************************************************)
(* FallbackRelay with up to two chunks from each peer.                     *)
(***************************************************************************)
EXTENDS FallbackRelay
=============================================================================
