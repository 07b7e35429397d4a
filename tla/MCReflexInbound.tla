-------------------------- MODULE MCReflexInbound --------------------------
(***************************************************************************)
(* ReflexInbound with two connections that take every path through the     *)
(* handler: copies of one message, another message with the same nonce,    *)
(* and one with a nonce of its own.  Two skews and the delay are exactly   *)
(* the lifetime of a nonce.                                                *)
(***************************************************************************)
EXTENDS ReflexInbound

CONSTANTS n1, n2  \* nonces

HS(n, ts) == [nonce |-> n, timestamp |-> ts, userID |-> "alice", keyOk |-> TRUE]

Sends(kind, total, need, ok, message) ==
  [kind |-> kind, total |-> total, need |-> need, ok |-> ok,
   hs |-> message]

\* Paths: each form of request, complete, malformed at each place, with an
\* unknown user, an unusable key, a stale timestamp, and no Reflex at all.
PathScripts ==
  { Sends("magic", 3, 2, TRUE, HS(n1, 1)),
    Sends("magic", 2, 2, FALSE, HS(n1, 1)),
    Sends("magic", 2, 2, TRUE, [HS(n1, 1) EXCEPT !.userID = "nobody"]),
    Sends("post", 2, 2, TRUE, HS(n1, 1)),
    Sends("post", 2, 2, FALSE, HS(n1, 1)),
    Sends("post", 1, 1, TRUE, HS(n1, 2)),
    Sends("post", 1, 1, TRUE, [HS(n2, 1) EXCEPT !.keyOk = FALSE]),
    Sends("magic", 2, 2, TRUE, HS(n2, -3)),
    Sends("other", 2, 1, FALSE, HS(n1, 1)),
    Sends("short", 1, 1, FALSE, HS(n1, 1)) }

PathHandshakes == {s.hs : s \in PathScripts}
=============================================================================
