------------------------------- MODULE MCKcp -------------------------------
EXTENDS Kcp

Load(wa, wb, closes, readers, bytes, timers, slow, loose, eager, f) ==
  [writes |-> [e \in Ends |-> IF e = A THEN wa ELSE wb], closes |-> closes,
   readers |-> readers, bytes |-> bytes, timers |-> timers,
   slow |-> slow, loose |-> loose, eager |-> eager, faults |-> f]

Ending == {"Terminating", "PeerTerminating"}

\* In this order: data over a faulty network; reading by bytes; A closes with two
\* segments under way, and with both updaters and a late Write; with the steps of
\* B's reader and input interleaved, and timers; reading by bytes, with all timers
\* of a closing; B closes while A writes; timers that run out while Close is under
\* way; both ends close, or are quiet for too long.
MCLoads ==
  { Load(3, 0, {}, {B}, {}, {}, FALSE, {}, FALSE, 1),
    Load(2, 0, {}, {B}, {B}, {}, FALSE, {}, FALSE, 0),
    Load(2, 0, {A}, {B}, {}, {}, FALSE, {<<A, "data">>, <<A, "write">>}, TRUE, 0),
    Load(1, 0, {A}, {B}, {}, {}, FALSE, {<<A, "data">>, <<A, "ping">>, <<A, "write">>}, TRUE, 0),
    Load(1, 0, {A}, {B}, {}, Ending, FALSE, {<<B, "read">>, <<B, "input">>}, TRUE, 0),
    Load(1, 0, {A}, {B}, {B}, Ending \cup {"ReadyToClose"}, FALSE, {}, FALSE, 0),
    Load(1, 0, {B}, {B}, {}, Ending, FALSE, {<<A, "input">>, <<A, "write">>}, TRUE, 0),
    Load(1, 0, {A}, {B}, {}, {"ReadyToClose"}, TRUE, {<<A, "ping">>, <<A, "close">>}, TRUE, 0),
    Load(0, 0, {A, B}, {A}, {}, Ending \cup {"Active"}, FALSE, {<<A, "input">>, <<B, "input">>, <<A, "close">>}, FALSE, 0) }
=============================================================================
