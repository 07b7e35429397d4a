-------------------------- MODULE MCOutboundRelay --------------------------
(***************************************************************************)
(* OutboundRelay with up to two chunks in each direction.                  *)
(***************************************************************************)
EXTENDS OutboundRelay
=============================================================================
