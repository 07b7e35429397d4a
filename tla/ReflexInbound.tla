--------------------------- MODULE ReflexInbound ---------------------------
(***************************************************************************)
(* The Reflex inbound handler (proxy/reflex/inbound/inbound.go and         *)
(* handshake.go): many connections served by one Handler.  Every           *)
(* connection is peeked at, recognised as the magic form, the HTTP POST    *)
(* form or something else, parsed, passed through the two checks of        *)
(* HandshakeAdmission, authenticated, answered, and handed over either to  *)
(* handleSession or to handleFallback.                                     *)
(*                                                                         *)
(* What a client sends is a sequence of chunks, of which only the number   *)
(* and the verdict of the parser matter.  A script has                     *)
(*   kind   what the first bytes look like: "magic" (REFX), "post"         *)
(*          ("POST "), "other" (five bytes or more of anything else) or    *)
(*          "short" (fewer than four bytes, then nothing);                 *)
(*   total  the number of chunks the client has to send; chunk 1 is what   *)
(*          detection looks at;                                            *)
(*   need   the chunks the parser consumes before it has a verdict;        *)
(*   ok     the verdict: TRUE when the parse yields the handshake;         *)
(*   hs     that handshake; its keyOk says whether the public key is one   *)
(*          a shared key can be derived from.                              *)
(* The chunks after need are the frames of the session.                    *)
(***************************************************************************)
EXTENDS HandshakeAdmission

CONSTANTS
  Scripts,         \* what a client may send
  Clients,         \* the user ids of h.clients
  FallbackDest     \* h.fallback.Dest; 0 when no fallback is configured

Kinds == {"magic", "post", "other", "short"}

\* A parser consumes no more than it needs, and the messages are Handshakes.
ASSUME ScriptAssumption ==
  \A s \in Scripts :
    /\ s.kind \in Kinds
    /\ s.total \in Nat /\ s.need \in 1..s.total /\ s.ok \in BOOLEAN
    /\ s.hs \in Handshakes

VARIABLES
  script,       \* script[c]: what the client of c has to send
  sent,         \* sent[c]: the chunks of it that have arrived
  end,          \* end[c]: how the client's side of c stands
  pc,           \* pc[c]: where Process is for c
  used,         \* used[c]: the chunks consumed from the bufio.Reader
  out           \* out[c]: the HTTP status the handler wrote to c, or 0

connVars == <<script, sent, end>>
vars == <<admissionVars, connVars, pc, used, out>>

PCs == {"peek", "magic", "http", "validate", "nonce", "keys",
        "session", "fallback", "done"}

\* Process has ended, or its last call is running.
Decided == {"session", "fallback", "done"}

Init ==
  /\ AdmissionInit
  /\ script \in [Conns -> Scripts]
  /\ hs = [c \in Conns |-> script[c].hs]
  /\ sent = [c \in Conns |-> 0]
  /\ end = [c \in Conns |-> "open"]
  /\ pc = [c \in Conns |-> "peek"]
  /\ used = [c \in Conns |-> 0]
  /\ out = [c \in Conns |-> 0]

-----------------------------------------------------------------------------
(* The environment: the clock and the clients.                             *)

ClockTick == Tick /\ UNCHANGED <<connVars, pc, used, out>>

\* The next chunk of the client of c arrives.
ClientSend(c) ==
  /\ end[c] = "open"
  /\ sent[c] < script[c].total
  /\ sent' = [sent EXCEPT ![c] = @ + 1]
  /\ UNCHANGED <<admissionVars, script, end, pc, used, out>>

\* The client of c ends its stream, or its connection breaks.
ClientEnd(c) ==
  /\ end[c] = "open"
  /\ \E e \in {"eof", "reset"} : end' = [end EXCEPT ![c] = e]
  /\ UNCHANGED <<admissionVars, script, sent, pc, used, out>>

-----------------------------------------------------------------------------
(* Process: detection.                                                     *)

Goto(c, l) == pc' = [pc EXCEPT ![c] = l]

\* handleFallback fails at once when no destination is configured; otherwise
\* the connection is relayed (module FallbackRelay).
handleFallback(c) == Goto(c, IF FallbackDest = 0 THEN "done" ELSE "fallback")

\* reader.Peek(5) has its five bytes: a magic chunk is four bytes long.
PeekFilled(c) ==
  IF script[c].kind \in {"magic", "short"} THEN sent[c] >= 2 ELSE sent[c] >= 1

Peeked_NoShortStream(c) == PeekFilled(c)

\* peekForDetection returns the first bytes, or at the end of the stream the
\* bytes there are.
Peeked(c) == PeekFilled(c) \/ (end[c] = "eof" /\ sent[c] > 0)

isReflexMagic(c) == script[c].kind = "magic"

isHTTPPostLike_AnyText(c) == script[c].kind \in {"post", "other"}

isHTTPPostLike(c) == script[c].kind = "post"

\* Process: nothing is consumed.  A reset is an error, an empty stream is not.
Process(c) ==
  /\ pc[c] = "peek"
  /\ \/ /\ end[c] = "reset" \/ (end[c] = "eof" /\ sent[c] = 0)
        /\ Goto(c, "done")
     \/ /\ Peeked(c)
        /\ isReflexMagic(c)
        /\ Goto(c, "magic")
     \/ /\ Peeked(c)
        /\ isHTTPPostLike(c)
        /\ Goto(c, "http")
     \/ /\ Peeked(c)
        /\ ~ isReflexMagic(c) /\ ~ isHTTPPostLike(c)
        /\ handleFallback(c)
  /\ UNCHANGED <<admissionVars, connVars, used, out>>

-----------------------------------------------------------------------------
(* Parsing: the bytes are consumed whatever the verdict.                   *)

\* All the parser needs has arrived: a well-formed handshake is processed, a
\* malformed one goes to the fallback.
ParseVerdict(c) ==
  /\ sent[c] >= script[c].need
  /\ used' = [used EXCEPT ![c] = script[c].need]
  /\ IF script[c].ok THEN Goto(c, "validate") ELSE handleFallback(c)

\* The stream ends inside the handshake: what was there has been read.
ParseTruncated(c) ==
  /\ sent[c] < script[c].need
  /\ end[c] # "open"
  /\ used' = [used EXCEPT ![c] = sent[c]]
  /\ handleFallback(c)

\* The four magic bytes, the fixed head and the policy of policyLen bytes.
handleReflexMagic(c) ==
  /\ pc[c] = "magic"
  /\ ParseVerdict(c) \/ ParseTruncated(c)
  /\ UNCHANGED <<admissionVars, connVars, out>>

\* The request head and its body: JSON around base64 around the same fields.
handleReflexHTTP(c) ==
  /\ pc[c] = "http"
  /\ ParseVerdict(c) \/ ParseTruncated(c)
  /\ UNCHANGED <<admissionVars, connVars, out>>

-----------------------------------------------------------------------------
(* processHandshake.                                                       *)

\* writeHTTPError or writeHandshakeResponse: a failed error reply is ignored.
Reply(c, status) == out' = [out EXCEPT ![c] = status]

Refuse(c) == Reply(c, 403) /\ handleFallback(c)

\* The timestamp: go on to the nonce, or refuse.
CheckTimestamp(c) ==
  /\ pc[c] = "validate"
  /\ validateHandshakeTimestamp(c)
  /\ IF stage'[c] = "validated" THEN Goto(c, "nonce") /\ UNCHANGED out
                                ELSE Refuse(c)
  /\ UNCHANGED <<connVars, used>>

CheckNonce_NotStored(c) ==
  /\ pc[c] = "nonce"
  /\ Reached(c, "admitted") /\ Goto(c, "keys")
  /\ checkedAt' = [checkedAt EXCEPT ![c] = clock]
  /\ UNCHANGED <<clock, seenNonces, hs, validatedAt, connVars, used, out>>

\* The nonce: go on to the keys, or refuse.
CheckNonce(c) ==
  /\ pc[c] = "nonce"
  /\ checkAndStoreNonce(c)
  /\ IF stage'[c] = "admitted" THEN Goto(c, "keys") /\ UNCHANGED out
                               ELSE Refuse(c)
  /\ UNCHANGED <<connVars, used>>

authenticateUser_AnyUser(userID) == TRUE

authenticateUser(userID) == userID \in Clients

\* The rest of processHandshake touches nothing another connection sees: key
\* pair, shared key, session key, user, policy grant, reply.  Generating keys,
\* deriving the session key and sealing the grant may fail (500); writing the
\* reply fails only on a broken connection.
EstablishSession(c) ==
  /\ pc[c] = "keys"
  /\ \/ /\ Reply(c, 500)
        /\ Goto(c, "done")
     \/ /\ ~ hs[c].keyOk \/ ~ authenticateUser(hs[c].userID)
        /\ Refuse(c)
     \/ /\ hs[c].keyOk /\ authenticateUser(hs[c].userID)
        /\ Reply(c, 200)
        /\ Goto(c, "session")
     \/ /\ hs[c].keyOk /\ authenticateUser(hs[c].userID)
        /\ end[c] = "reset"
        /\ Goto(c, "done")
        /\ UNCHANGED out
  /\ UNCHANGED <<admissionVars, connVars, used>>

-----------------------------------------------------------------------------

Handler(c) ==
  \/ Process(c)
  \/ handleReflexMagic(c)
  \/ handleReflexHTTP(c)
  \/ CheckTimestamp(c)
  \/ CheckNonce(c)
  \/ EstablishSession(c)

Next ==
  \/ ClockTick
  \/ \E c \in Conns : ClientSend(c) \/ ClientEnd(c) \/ Handler(c)

Spec == Init /\ [][Next]_vars

\* The goroutine of a connection is scheduled; clients and clock owe nothing.
FairSpec == Spec /\ \A c \in Conns : WF_vars(Handler(c))

-----------------------------------------------------------------------------
(* Properties.                                                             *)

\* Type correctness of the handler's state; in particular no more is consumed
\* from a connection than has arrived on it.
TypeOK ==
  /\ AdmissionTypeOK
  /\ script \in [Conns -> Scripts]
  /\ sent \in [Conns -> Nat]
  /\ end \in [Conns -> {"open", "eof", "reset"}]
  /\ pc \in [Conns -> PCs]
  /\ used \in [Conns -> Nat]
  /\ out \in [Conns -> {0, 200, 403, 500}]
  /\ \A c \in Conns : used[c] <= sent[c] /\ sent[c] <= script[c].total

\* A connection runs handleSession only for a known user with an admitted
\* nonce that was answered 200, and exactly the handshake has been consumed:
\* the next bytes of the reader are the first frame.
SessionAdmission ==
  \A c \in Conns : pc[c] = "session" =>
    /\ script[c].ok /\ script[c].kind \in {"magic", "post"}
    /\ stage[c] = "admitted"
    /\ hs[c].userID \in Clients /\ hs[c].keyOk
    /\ used[c] = script[c].need
    /\ out[c] = 200

\* A client that does not look like Reflex reaches the fallback with every
\* byte it sent and without a byte from the handler, and nothing of it is
\* stored.
NonReflexUntouched ==
  \A c \in Conns : script[c].kind \in {"other", "short"} =>
    /\ used[c] = 0
    /\ out[c] = 0
    /\ stage[c] = "new"
    /\ pc[c] \in {"peek", "fallback", "done"}

\* The checklist of docs/step4-fallback.md: the peeked bytes reach the web
\* server.  handleReflexMagic and handleReflexHTTP hand the reader over after
\* they have consumed from it.
FallbackSeesWholeStream ==
  \A c \in Conns : pc[c] = "fallback" => used[c] = 0

\* A connection whose handshake has arrived, or whose client has stopped
\* sending, is decided: peek, parse, the two checks and the reply do not wait
\* for anything else.
EventuallyDecided ==
  \A c \in Conns :
    (sent[c] = script[c].total /\ PeekFilled(c)) \/ end[c] # "open"
      ~> pc[c] \in Decided

\* What the place of a connection in processHandshake says about it; with
\* SessionAdmission and NonReflexUntouched this is inductive.
HandlerInv ==
  \A c \in Conns :
    /\ pc[c] = "magic" => isReflexMagic(c)
    /\ pc[c] = "http" => isHTTPPostLike(c)
    /\ pc[c] \in {"peek", "magic", "http"} => used[c] = 0
    /\ pc[c] \in {"validate", "nonce", "keys"} =>
         /\ script[c].ok /\ script[c].kind \in {"magic", "post"}
         /\ used[c] = script[c].need
    /\ pc[c] \in {"peek", "magic", "http", "validate"} => stage[c] = "new"
    /\ pc[c] = "nonce" => stage[c] = "validated"
    /\ pc[c] = "keys" => stage[c] = "admitted"
    /\ pc[c] \notin Decided => out[c] = 0
=============================================================================
