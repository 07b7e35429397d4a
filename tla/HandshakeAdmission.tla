------------------------- MODULE HandshakeAdmission -------------------------
(***************************************************************************)
(* The two checks of processHandshake that decide whether a handshake is   *)
(* new (proxy/reflex/inbound/handshake.go): validateHandshakeTimestamp     *)
(* against the clock, then checkAndStoreNonce against the nonce store that *)
(* all connections of a Handler share.  Connections interleave between the *)
(* two; the nonce check itself runs under nonceMu and is one step.         *)
(*                                                                         *)
(* Time is counted in ticks, TicksPerSecond of them to a second: the skew  *)
(* check compares full-resolution times, the nonce store whole seconds.    *)
(***************************************************************************)
EXTENDS Integers

CONSTANTS
  Conns,           \* the connections
  Nonces,          \* the handshake nonces clients use
  Handshakes,      \* the handshake messages clients send
  Skew,            \* handshakeSkew, in seconds
  Lifetime,        \* h.nonceLifetime, in seconds
  TicksPerSecond,
  MaxDelay,        \* bound, in ticks, on the time between the two checks
  MaxClock         \* bound on the clock

\* A second has some ticks.
ASSUME ClockAssumption ==
  /\ Skew \in Nat
  /\ Lifetime \in Nat
  /\ TicksPerSecond \in Nat \ {0}
  /\ MaxDelay \in Nat
  /\ MaxClock \in Nat

\* A nonce outlives the messages it comes with: handshake.go:32,33 sets two
\* times 5 minutes against 15 minutes, which leaves 5 minutes to MaxDelay.
ASSUME LifetimeAssumption ==
  2 * Skew * TicksPerSecond + MaxDelay <= Lifetime * TicksPerSecond

\* A timestamp is an int64 that the client chose.
ASSUME HandshakeAssumption ==
  \A h \in Handshakes : h.nonce \in Nonces /\ h.timestamp \in Int

VARIABLES
  clock,        \* the wall clock, in ticks
  seenNonces,   \* h.seenNonces: the second a nonce was stored at, or NotSeen
  hs,           \* hs[c]: the ClientHandshake of connection c
  stage,        \* stage[c]: how far c has come in the two checks
  validatedAt,  \* history: when the timestamp of c was accepted
  checkedAt     \* history: when the nonce of c was looked up

admissionVars == <<clock, seenNonces, hs, stage, validatedAt, checkedAt>>

NotSeen == -1
Never == -1

Stages == {"new", "stale", "validated", "replayed", "admitted"}

\* time.Now().Unix(): a time in whole seconds, rounded down.
Unix(t) == t \div TicksPerSecond

\* time.Unix(ts, 0): the instant at which second ts begins.
UnixTime(ts) == ts * TicksPerSecond

AdmissionInit ==
  /\ clock = 0
  /\ seenNonces = [n \in Nonces |-> NotSeen]
  /\ hs \in [Conns -> Handshakes]
  /\ stage = [c \in Conns |-> "new"]
  /\ validatedAt = [c \in Conns |-> Never]
  /\ checkedAt = [c \in Conns |-> Never]

\* Time passes; no connection stays longer than MaxDelay between the check of
\* its timestamp and the check of its nonce.
Tick ==
  /\ clock < MaxClock
  /\ \A c \in Conns : stage[c] = "validated" => clock < validatedAt[c] + MaxDelay
  /\ clock' = clock + 1
  /\ UNCHANGED <<seenNonces, hs, stage, validatedAt, checkedAt>>

Reached(c, s) == stage' = [stage EXCEPT ![c] = s]

\* The timestamp is within the skew of the clock, both ends included.
InSkew(ts) ==
  /\ UnixTime(ts) >= clock - Skew * TicksPerSecond
  /\ UnixTime(ts) <= clock + Skew * TicksPerSecond

\* First check: the timestamp.
validateHandshakeTimestamp(c) ==
  /\ stage[c] = "new"
  /\ \/ /\ InSkew(hs[c].timestamp)
        /\ Reached(c, "validated")
        /\ validatedAt' = [validatedAt EXCEPT ![c] = clock]
     \/ /\ ~ InSkew(hs[c].timestamp)
        /\ Reached(c, "stale")
        /\ UNCHANGED validatedAt
  /\ UNCHANGED <<clock, seenNonces, hs, checkedAt>>

cleanupExpiredNonces_AtLifetime(now) ==
  [n \in Nonces |->
    IF seenNonces[n] # NotSeen /\ now - seenNonces[n] >= Lifetime
    THEN NotSeen ELSE seenNonces[n]]

cleanupExpiredNonces_Skipped(now) == seenNonces

\* The store without the nonces that are older than the lifetime.
cleanupExpiredNonces(now) ==
  [n \in Nonces |->
    IF seenNonces[n] # NotSeen /\ now - seenNonces[n] > Lifetime
    THEN NotSeen ELSE seenNonces[n]]

\* Second check, under nonceMu: clean up, look the nonce up, store it.
checkAndStoreNonce(c) ==
  LET nonce == hs[c].nonce
      live == cleanupExpiredNonces(Unix(clock))
  IN  /\ stage[c] = "validated"
      /\ \/ /\ live[nonce] # NotSeen
            /\ seenNonces' = live
            /\ Reached(c, "replayed")
         \/ /\ live[nonce] = NotSeen
            /\ seenNonces' = [live EXCEPT ![nonce] = Unix(clock)]
            /\ Reached(c, "admitted")
      /\ checkedAt' = [checkedAt EXCEPT ![c] = clock]
      /\ UNCHANGED <<clock, hs, validatedAt>>

AdmissionNext ==
  \/ Tick
  \/ \E c \in Conns : validateHandshakeTimestamp(c) \/ checkAndStoreNonce(c)

AdmissionSpec == AdmissionInit /\ [][AdmissionNext]_admissionVars

-----------------------------------------------------------------------------

\* Type correctness of the clock, the nonce store and the checks' progress.
AdmissionTypeOK ==
  /\ clock \in Nat
  /\ seenNonces \in [Nonces -> Nat \cup {NotSeen}]
  /\ hs \in [Conns -> Handshakes]
  /\ stage \in [Conns -> Stages]
  /\ validatedAt \in [Conns -> Nat \cup {Never}]
  /\ checkedAt \in [Conns -> Nat \cup {Never}]

SameMessage(c, d) ==
  hs[c].nonce = hs[d].nonce /\ hs[c].timestamp = hs[d].timestamp

\* One handshake message gets past checkAndStoreNonce on one connection only,
\* however its copies are delayed and interleaved: the store forgets a nonce
\* only when the timestamp that came with it is no longer acceptable.
NoReplay ==
  \A c, d \in Conns :
    stage[c] = "admitted" /\ stage[d] = "admitted" /\ SameMessage(c, d) => c = d

\* checkAndStoreNonce refuses a connection only if another one was admitted
\* with the same nonce at most the nonce lifetime (in whole seconds) before: a
\* client with a fresh nonce is never turned away as a replay.
RefusalJustified ==
  \A c \in Conns : stage[c] = "replayed" =>
    \E d \in Conns \ {c} :
      /\ stage[d] = "admitted"
      /\ hs[d].nonce = hs[c].nonce
      /\ checkedAt[d] <= checkedAt[c]
      /\ Unix(checkedAt[c]) - Unix(checkedAt[d]) <= Lifetime

\* A connection between the two checks still has the time it was given.
Timely(c) == validatedAt[c] <= clock /\ clock <= validatedAt[c] + MaxDelay

\* The timestamp of c was within the skew when it was validated.
ValidatedInSkew(c) ==
  /\ validatedAt[c] \in Nat
  /\ UnixTime(hs[c].timestamp) >= validatedAt[c] - Skew * TicksPerSecond
  /\ UnixTime(hs[c].timestamp) <= validatedAt[c] + Skew * TicksPerSecond

\* The nonce of an admitted connection is still stored, with the second of its
\* admission or a later one, or its lifetime is over.
Remembered(c) ==
  \/ seenNonces[hs[c].nonce] >= Unix(checkedAt[c])
  \/ clock - checkedAt[c] > Lifetime * TicksPerSecond

\* The inductive invariant behind NoReplay: what the stages of a connection
\* say about the times it passed them, and what the store still knows.
AdmissionInv ==
  /\ AdmissionTypeOK
  /\ \A c \in Conns : stage[c] = "validated" => Timely(c) /\ ValidatedInSkew(c)
  /\ \A c \in Conns : stage[c] = "admitted" =>
       /\ ValidatedInSkew(c)
       /\ checkedAt[c] \in Nat
       /\ validatedAt[c] <= checkedAt[c] /\ checkedAt[c] <= clock
       /\ Remembered(c)
  /\ NoReplay

\* Every stored nonce is that of a connection admitted in the stored second;
\* this, with RefusalJustified, is inductive.
StoreExplained ==
  \A n \in Nonces : seenNonces[n] # NotSeen =>
    \E d \in Conns :
      /\ stage[d] = "admitted"
      /\ hs[d].nonce = n
      /\ checkedAt[d] <= clock
      /\ seenNonces[n] = Unix(checkedAt[d])
=============================================================================
