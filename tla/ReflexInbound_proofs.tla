------------------------ MODULE ReflexInbound_proofs ------------------------
(***************************************************************************)
(* NoReplay for any number of connections, any skew, lifetime and clock    *)
(* resolution that satisfy LifetimeAssumption; then the whole handler      *)
(* implements HandshakeAdmission, so that what is proved of the two checks *)
(* holds of it; and who reaches handleSession, and who is left untouched,  *)
(* for every set of connections and scripts.                               *)
(***************************************************************************)
EXTENDS ReflexInbound, TLAPS

-----------------------------------------------------------------------------
(* The two checks.                                                         *)

\* What time.Now().Unix() does to a time: rounding down to a whole second
\* loses less than one second.
LEMMA UnixBounds ==
  ASSUME NEW t \in Nat
  PROVE  /\ Unix(t) \in Nat
         /\ TicksPerSecond * Unix(t) <= t
         /\ t < TicksPerSecond * Unix(t) + TicksPerSecond
BY ClockAssumption DEF Unix

\* cleanupExpiredNonces compares whole seconds, and yet what it finds expired
\* is older than the lifetime at full resolution.
LEMMA ExpiredIsOld ==
  ASSUME NEW now \in Nat, NEW t \in Nat, Unix(now) - Unix(t) > Lifetime
  PROVE  now - t > Lifetime * TicksPerSecond
<1> DEFINE T == TicksPerSecond
           q == Unix(now)
           p == Unix(t)
<1>1. /\ T \in Nat /\ T > 0 /\ Lifetime \in Nat
      /\ q \in Nat /\ p \in Nat
      /\ T * q <= now /\ t < T * p + T
  BY ClockAssumption, UnixBounds
<1>2. q >= p + 1 + Lifetime
  BY <1>1
<1> HIDE DEF T, q, p
<1>3. T * q >= T * (p + 1 + Lifetime)
  BY <1>1, <1>2
<1>4. T * (p + 1 + Lifetime) = T * p + T + Lifetime * T
  BY <1>1
<1> QED
  BY <1>1, <1>3, <1>4 DEF T

-----------------------------------------------------------------------------
(* Type correctness.                                                       *)

\* A store without its expired nonces is a store.
LEMMA CleanupType ==
  ASSUME AdmissionTypeOK, NEW now \in Nat
  PROVE  cleanupExpiredNonces(now) \in [Nonces -> Nat \cup {NotSeen}]
BY Zenon DEF cleanupExpiredNonces, AdmissionTypeOK

\* Every step of the two checks and of the clock keeps the state well typed.
LEMMA TypeStep == AdmissionTypeOK /\ [AdmissionNext]_admissionVars => AdmissionTypeOK'
<1> SUFFICES ASSUME AdmissionTypeOK, [AdmissionNext]_admissionVars
             PROVE  AdmissionTypeOK'
  BY Zenon
<1> USE DEF AdmissionTypeOK
<1>1. CASE Tick
  BY <1>1 DEF Tick
<1>2. ASSUME NEW c \in Conns, validateHandshakeTimestamp(c)
      PROVE  AdmissionTypeOK'
  BY Zenon, <1>2 DEF validateHandshakeTimestamp, Reached, Stages
<1>3. ASSUME NEW c \in Conns, checkAndStoreNonce(c)
      PROVE  AdmissionTypeOK'
  <2>1. Unix(clock) \in Nat
    BY Zenon, UnixBounds
  <2>2. cleanupExpiredNonces(Unix(clock)) \in [Nonces -> Nat \cup {NotSeen}]
    BY Zenon, <2>1, CleanupType
  <2>3. seenNonces' \in [Nonces -> Nat \cup {NotSeen}]
    BY Zenon, <1>3, <2>1, <2>2 DEF checkAndStoreNonce
  <2> QED
    BY Zenon, <1>3, <2>3 DEF checkAndStoreNonce, Reached, Stages
<1>4. CASE UNCHANGED admissionVars
  BY Zenon, <1>4 DEF admissionVars
<1> QED
  BY Zenon, <1>1, <1>2, <1>3, <1>4 DEF AdmissionNext

\* The clock, the nonce store and the stages are always well typed.
THEOREM AdmissionTypeCorrect == AdmissionSpec => []AdmissionTypeOK
<1>1. AdmissionInit => AdmissionTypeOK
  BY DEF AdmissionInit, AdmissionTypeOK, Stages
<1> QED
  BY <1>1, TypeStep, PTL DEF AdmissionSpec

-----------------------------------------------------------------------------
(* The inductive invariant.                                                *)

\* The step that matters: when checkAndStoreNonce finds the nonce of c absent,
\* no connection has been admitted with the same message, because by the time
\* a nonce is forgotten a copy of its message would have failed the skew check.
LEMMA AdmittedIsNew ==
  ASSUME AdmissionInv,
         NEW c \in Conns, stage[c] = "validated",
         cleanupExpiredNonces(Unix(clock))[hs[c].nonce] = NotSeen,
         NEW d \in Conns, stage[d] = "admitted"
  PROVE  ~ SameMessage(c, d)
<1> SUFFICES ASSUME SameMessage(c, d) PROVE FALSE
  BY Zenon
<1> DEFINE W == Skew * TicksPerSecond
           L == Lifetime * TicksPerSecond
           ts == UnixTime(hs[c].timestamp)
           nonce == hs[c].nonce
<1>1. W \in Nat /\ L \in Nat /\ 2 * W + MaxDelay <= L /\ MaxDelay \in Nat
  BY ClockAssumption, LifetimeAssumption
<1>2. clock \in Nat /\ hs[c] \in Handshakes /\ nonce \in Nonces /\ ts \in Int
  BY HandshakeAssumption, ClockAssumption DEF AdmissionInv, AdmissionTypeOK, UnixTime
<1>3. /\ validatedAt[c] \in Nat /\ clock <= validatedAt[c] + MaxDelay
      /\ validatedAt[c] - W <= ts
      /\ validatedAt[c] <= ts + W
  BY <1>1, <1>2 DEF AdmissionInv, Timely, ValidatedInSkew
<1>4. /\ validatedAt[d] \in Nat /\ checkedAt[d] \in Nat
      /\ validatedAt[d] <= checkedAt[d]
      /\ ts <= validatedAt[d] + W
      /\ hs[d].nonce = nonce
  BY Zenon DEF AdmissionInv, ValidatedInSkew, SameMessage, UnixTime
<1>5. clock - checkedAt[d] <= L
  <2> HIDE DEF W, L, ts
  <2> QED
    BY <1>1, <1>2, <1>3, <1>4
<1>6. seenNonces[nonce] >= Unix(checkedAt[d])
  BY <1>1, <1>2, <1>4, <1>5 DEF AdmissionInv, Remembered
<1>7. Unix(checkedAt[d]) \in Nat /\ Unix(clock) \in Nat /\ seenNonces[nonce] \in Nat
  BY <1>2, <1>4, <1>6, UnixBounds DEF AdmissionInv, AdmissionTypeOK, NotSeen
<1>8. Unix(clock) - seenNonces[nonce] > Lifetime
  BY <1>2, <1>7 DEF cleanupExpiredNonces, NotSeen
<1>9. Unix(clock) - Unix(checkedAt[d]) > Lifetime
  BY <1>6, <1>7, <1>8, ClockAssumption
<1> QED
  BY <1>1, <1>2, <1>4, <1>5, <1>9, ExpiredIsOld

\* What the store forgets at the check of some connection has outlived its
\* lifetime: an admitted connection stays remembered.
LEMMA CheckKeepsMemory ==
  ASSUME AdmissionInv, NEW c \in Conns, checkAndStoreNonce(c),
         NEW d \in Conns, stage[d] = "admitted"
  PROVE  Remembered(d)'
<1> DEFINE n == hs[d].nonce
           now == Unix(clock)
           live == cleanupExpiredNonces(now)
<1>1. /\ clock \in Nat /\ clock' = clock /\ hs' = hs
      /\ checkedAt[d] \in Nat /\ checkedAt[d] <= clock
      /\ n \in Nonces
      /\ checkedAt'[d] = checkedAt[d]
  BY Zenon, HandshakeAssumption DEF AdmissionInv, AdmissionTypeOK, checkAndStoreNonce
<1>2. now \in Nat /\ Unix(checkedAt[d]) \in Nat
  BY Zenon, <1>1, UnixBounds
<1>3. Unix(checkedAt[d]) <= now
  <2>1. /\ TicksPerSecond * Unix(checkedAt[d]) <= checkedAt[d]
        /\ clock < TicksPerSecond * now + TicksPerSecond
    BY Zenon, <1>1, UnixBounds
  <2>2. TicksPerSecond * Unix(checkedAt[d]) < TicksPerSecond * (now + 1)
    BY <1>1, <1>2, <2>1, ClockAssumption
  <2> HIDE DEF now
  <2> QED
    BY <1>2, <2>2, ClockAssumption
<1>4. CASE clock - checkedAt[d] > Lifetime * TicksPerSecond
  BY Zenon, <1>1, <1>4 DEF Remembered
<1>5. CASE ~ (clock - checkedAt[d] > Lifetime * TicksPerSecond)
  <2>1. seenNonces[n] >= Unix(checkedAt[d])
    BY Zenon, <1>5 DEF AdmissionInv, Remembered
  <2>2. seenNonces[n] \in Nat
    BY <1>1, <1>2, <2>1 DEF AdmissionInv, AdmissionTypeOK, NotSeen
  <2>3. ~ (now - seenNonces[n] > Lifetime)
    <3> SUFFICES ASSUME now - seenNonces[n] > Lifetime PROVE FALSE
      BY Zenon
    <3>1. now - Unix(checkedAt[d]) > Lifetime
      BY <1>2, <2>1, <2>2, ClockAssumption
    <3> QED
      BY Zenon, <1>1, <1>5, <3>1, ExpiredIsOld
  <2>4. live[n] = seenNonces[n]
    BY Zenon, <1>1, <2>3 DEF cleanupExpiredNonces
  <2>5. live \in [Nonces -> Nat \cup {NotSeen}]
    BY Zenon, <1>2, CleanupType DEF AdmissionInv
  <2>6. seenNonces'[n] \in {seenNonces[n], now}
    <3> HIDE DEF live
    <3> QED BY Zenon, <1>1, <2>4, <2>5 DEF checkAndStoreNonce, live, now
  <2>7. seenNonces'[n] >= Unix(checkedAt[d])
    BY Zenon, <1>2, <1>3, <2>1, <2>2, <2>6
  <2> QED
    BY Zenon, <1>1, <2>7 DEF Remembered, Unix
<1> QED
  BY Zenon, <1>4, <1>5

\* Every step preserves the invariant.
LEMMA AdmissionInvStep ==
  AdmissionInv /\ [AdmissionNext]_admissionVars => AdmissionInv'
<1> SUFFICES ASSUME AdmissionInv, [AdmissionNext]_admissionVars
             PROVE  AdmissionInv'
  BY Zenon
<1>T. AdmissionTypeOK /\ AdmissionTypeOK'
  BY Zenon, TypeStep DEF AdmissionInv
<1>1. CASE Tick
  <2>1. ASSUME NEW c \in Conns, stage'[c] = "validated"
        PROVE  Timely(c)' /\ ValidatedInSkew(c)'
    BY <1>1, <2>1, <1>T, ClockAssumption
    DEF Tick, AdmissionInv, AdmissionTypeOK, Timely, ValidatedInSkew, UnixTime
  <2>2. ASSUME NEW c \in Conns, stage'[c] = "admitted"
        PROVE  /\ ValidatedInSkew(c)'
               /\ checkedAt'[c] \in Nat
               /\ validatedAt'[c] <= checkedAt'[c] /\ checkedAt'[c] <= clock'
               /\ Remembered(c)'
    <3>1. /\ stage[c] = "admitted" /\ clock \in Nat /\ clock' = clock + 1
          /\ Lifetime * TicksPerSecond \in Nat
      BY <1>1, <2>2, <1>T, ClockAssumption DEF Tick, AdmissionTypeOK
    <3>2. ValidatedInSkew(c)'
      BY Zenon, <1>1, <3>1 DEF Tick, AdmissionInv, ValidatedInSkew, UnixTime
    <3>3. /\ checkedAt'[c] \in Nat
          /\ validatedAt'[c] <= checkedAt'[c] /\ checkedAt'[c] <= clock'
      BY <1>1, <3>1 DEF Tick, AdmissionInv, ValidatedInSkew
    <3>4. Remembered(c)'
      BY <1>1, <3>1, <3>3 DEF Tick, AdmissionInv, Remembered, Unix
    <3> QED
      BY Zenon, <3>2, <3>3, <3>4
  <2>3. NoReplay'
    BY Zenon, <1>1 DEF Tick, AdmissionInv, NoReplay, SameMessage
  <2> QED
    BY Zenon, <1>T, <2>1, <2>2, <2>3 DEF AdmissionInv
<1>2. ASSUME NEW c \in Conns, validateHandshakeTimestamp(c)
      PROVE  AdmissionInv'
  <2> USE <1>2, <1>T
  <2>0. \A d \in Conns : d # c =>
          /\ stage'[d] = stage[d] /\ validatedAt'[d] = validatedAt[d]
          /\ checkedAt'[d] = checkedAt[d]
    BY Zenon DEF validateHandshakeTimestamp, Reached, AdmissionTypeOK
  <2>1. /\ stage'[c] \in {"validated", "stale"}
        /\ clock' = clock /\ hs' = hs /\ seenNonces' = seenNonces
    BY Zenon DEF validateHandshakeTimestamp, Reached, AdmissionTypeOK
  <2>2. stage'[c] = "validated" => Timely(c)' /\ ValidatedInSkew(c)'
    BY ClockAssumption
    DEF validateHandshakeTimestamp, Reached, AdmissionTypeOK, InSkew,
        Timely, ValidatedInSkew, UnixTime
  <2>3. ASSUME NEW d \in Conns, stage'[d] = "validated"
        PROVE  Timely(d)' /\ ValidatedInSkew(d)'
    BY Zenon, <2>0, <2>1, <2>2, <2>3
    DEF AdmissionInv, Timely, ValidatedInSkew, UnixTime
  <2>4. ASSUME NEW d \in Conns, stage'[d] = "admitted"
        PROVE  /\ ValidatedInSkew(d)'
               /\ checkedAt'[d] \in Nat
               /\ validatedAt'[d] <= checkedAt'[d] /\ checkedAt'[d] <= clock'
               /\ Remembered(d)'
    BY Zenon, <2>0, <2>1, <2>4
    DEF AdmissionInv, ValidatedInSkew, Remembered, UnixTime, Unix
  <2>5. NoReplay'
    BY <2>0, <2>1 DEF AdmissionInv, NoReplay, SameMessage
  <2> QED
    BY Zenon, <2>3, <2>4, <2>5 DEF AdmissionInv
<1>3. ASSUME NEW c \in Conns, checkAndStoreNonce(c)
      PROVE  AdmissionInv'
  <2> USE <1>3, <1>T
  <2>0. \A d \in Conns : d # c =>
          stage'[d] = stage[d] /\ checkedAt'[d] = checkedAt[d]
    BY Zenon DEF checkAndStoreNonce, Reached, AdmissionTypeOK
  <2>1. /\ stage[c] = "validated" /\ stage'[c] \in {"admitted", "replayed"}
        /\ clock' = clock /\ hs' = hs /\ validatedAt' = validatedAt
        /\ checkedAt'[c] = clock /\ clock \in Nat
    BY Zenon DEF checkAndStoreNonce, Reached, AdmissionTypeOK
  <2>2. ASSUME NEW d \in Conns, stage'[d] = "validated"
        PROVE  Timely(d)' /\ ValidatedInSkew(d)'
    BY Zenon, <2>0, <2>1, <2>2
    DEF AdmissionInv, Timely, ValidatedInSkew, UnixTime
  <2>3. stage'[c] = "admitted" => Remembered(c)'
    <3> SUFFICES ASSUME stage'[c] = "admitted" PROVE Remembered(c)'
      BY Zenon
    <3>1. hs[c].nonce \in Nonces /\ Unix(clock) \in Nat
      BY Zenon, <2>1, HandshakeAssumption, UnixBounds DEF AdmissionTypeOK
    <3>2. cleanupExpiredNonces(Unix(clock)) \in [Nonces -> Nat \cup {NotSeen}]
      BY Zenon, <3>1, CleanupType
    <3>3. seenNonces'[hs[c].nonce] = Unix(clock)
      BY Zenon, <3>1, <3>2 DEF checkAndStoreNonce, Reached, AdmissionTypeOK
    <3> QED
      BY <2>1, <3>1, <3>3 DEF Remembered, Unix
  <2>4. ASSUME NEW d \in Conns, stage'[d] = "admitted"
        PROVE  /\ ValidatedInSkew(d)'
               /\ checkedAt'[d] \in Nat
               /\ validatedAt'[d] <= checkedAt'[d] /\ checkedAt'[d] <= clock'
               /\ Remembered(d)'
    <3>1. CASE d = c
      BY <2>1, <2>3, <2>4, <3>1
      DEF AdmissionInv, Timely, ValidatedInSkew, UnixTime
    <3>2. CASE d # c
      <4>1. stage[d] = "admitted"
        BY Zenon, <2>0, <2>4, <3>2
      <4>2. Remembered(d)'
        BY Zenon, <4>1, CheckKeepsMemory
      <4> QED
        BY Zenon, <2>0, <2>1, <3>2, <4>1, <4>2 DEF AdmissionInv, ValidatedInSkew, UnixTime
    <3> QED
      BY Zenon, <3>1, <3>2
  <2>5. ASSUME NEW d \in Conns, d # c, stage'[c] = "admitted", stage'[d] = "admitted"
        PROVE  ~ SameMessage(c, d)
    <3>1. stage[d] = "admitted"
      BY Zenon, <2>0, <2>5
    <3>2. cleanupExpiredNonces(Unix(clock))[hs[c].nonce] = NotSeen
      BY Zenon, <2>5 DEF checkAndStoreNonce, Reached, AdmissionTypeOK
    <3> QED
      BY Zenon, <2>1, <3>1, <3>2, AdmittedIsNew
  <2>6. NoReplay'
    BY <2>0, <2>1, <2>5 DEF AdmissionInv, NoReplay, SameMessage
  <2> QED
    BY Zenon, <2>2, <2>4, <2>6 DEF AdmissionInv
<1>4. CASE UNCHANGED admissionVars
  BY Zenon, <1>4 DEF admissionVars, AdmissionInv, AdmissionTypeOK, Timely,
     ValidatedInSkew, Remembered, NoReplay, SameMessage, Unix, UnixTime
<1> QED
  BY Zenon, <1>1, <1>2, <1>3, <1>4 DEF AdmissionNext

\* The invariant behind NoReplay holds in every reachable state.
THEOREM AdmissionInvariant == AdmissionSpec => []AdmissionInv
<1>1. AdmissionInit => AdmissionInv
  BY DEF AdmissionInit, AdmissionInv, AdmissionTypeOK, NoReplay, Stages
<1> QED
  BY <1>1, AdmissionInvStep, PTL DEF AdmissionSpec

\* A handshake message is admitted by checkAndStoreNonce on at most one
\* connection of the handler, for every skew, lifetime and clock resolution
\* with two skews and the delay between the checks within the lifetime.
THEOREM AtMostOnce == AdmissionSpec => []NoReplay
<1>1. AdmissionInv => NoReplay
  BY Zenon DEF AdmissionInv
<1> QED
  BY <1>1, AdmissionInvariant, PTL

-----------------------------------------------------------------------------
(* Refusals.                                                               *)

\* A step that is not a nonce check leaves stored nonces and refusals
\* explained.
LEMMA OtherStepsExplained ==
  ASSUME AdmissionTypeOK, StoreExplained, RefusalJustified,
         \/ Tick
         \/ \E c \in Conns : validateHandshakeTimestamp(c)
         \/ UNCHANGED admissionVars
  PROVE  StoreExplained' /\ RefusalJustified'
<1>1. /\ seenNonces' = seenNonces /\ hs' = hs /\ checkedAt' = checkedAt
      /\ clock \in Nat /\ clock' \in {clock, clock + 1}
      /\ checkedAt \in [Conns -> Nat \cup {Never}]
  BY Zenon DEF Tick, validateHandshakeTimestamp, admissionVars, AdmissionTypeOK
<1>2. \A d \in Conns :
        /\ stage[d] = "admitted" <=> stage'[d] = "admitted"
        /\ stage[d] = "replayed" <=> stage'[d] = "replayed"
  BY Zenon DEF Tick, validateHandshakeTimestamp, Reached, admissionVars, AdmissionTypeOK
<1>3. StoreExplained'
  BY <1>1, <1>2 DEF StoreExplained, Unix, Never
<1>4. RefusalJustified'
  BY Zenon, <1>1, <1>2 DEF RefusalJustified, Unix
<1> QED
  BY Zenon, <1>3, <1>4

\* A nonce check stores its own connection's nonce, or refuses it because of a
\* nonce that is stored and has not expired.
LEMMA CheckExplained ==
  ASSUME AdmissionTypeOK, StoreExplained, RefusalJustified,
         NEW c \in Conns, checkAndStoreNonce(c)
  PROVE  StoreExplained' /\ RefusalJustified'
<1> DEFINE nonce == hs[c].nonce
           now == Unix(clock)
           live == cleanupExpiredNonces(now)
<1>1. /\ stage[c] = "validated" /\ clock \in Nat /\ clock' = clock /\ hs' = hs
      /\ checkedAt'[c] = clock /\ nonce \in Nonces
      /\ stage'[c] \in {"admitted", "replayed"}
      /\ \A d \in Conns : d # c =>
           stage'[d] = stage[d] /\ checkedAt'[d] = checkedAt[d]
  BY Zenon, HandshakeAssumption DEF checkAndStoreNonce, Reached, AdmissionTypeOK
<1>2. now \in Nat /\ live \in [Nonces -> Nat \cup {NotSeen}]
  BY Zenon, <1>1, UnixBounds, CleanupType
<1>3. \A n \in Nonces : live[n] # NotSeen =>
        seenNonces[n] = live[n] /\ now - live[n] <= Lifetime
  BY <1>2, ClockAssumption DEF cleanupExpiredNonces, AdmissionTypeOK, NotSeen
<1>4. CASE stage'[c] = "replayed"
  <2>1. live[nonce] # NotSeen /\ seenNonces' = live
    BY Zenon, <1>1, <1>4 DEF checkAndStoreNonce, Reached, AdmissionTypeOK
  <2>2. StoreExplained'
    BY <1>1, <1>3, <2>1 DEF StoreExplained, Unix
  <2>3. PICK d \in Conns : /\ stage[d] = "admitted" /\ hs[d].nonce = nonce
                           /\ checkedAt[d] <= clock
                           /\ seenNonces[nonce] = Unix(checkedAt[d])
    BY Zenon, <1>1, <1>3, <2>1 DEF StoreExplained
  <2>4. d # c /\ now - Unix(checkedAt[d]) <= Lifetime
    BY Zenon, <1>1, <1>3, <2>1, <2>3
  <2>5. RefusalJustified'
    BY <1>1, <2>3, <2>4 DEF RefusalJustified, Unix
  <2> QED
    BY Zenon, <2>2, <2>5
<1>5. CASE stage'[c] = "admitted"
  <2>1. seenNonces' = [live EXCEPT ![nonce] = now]
    BY Zenon, <1>1, <1>5 DEF checkAndStoreNonce, Reached, AdmissionTypeOK
  <2>2. seenNonces'[nonce] = now /\ \A n \in Nonces \ {nonce} : seenNonces'[n] = live[n]
    <3> HIDE DEF live, now
    <3> QED BY Zenon, <1>1, <1>2, <2>1
  <2>3. ASSUME NEW n \in Nonces, seenNonces'[n] # NotSeen
        PROVE  \E d \in Conns : /\ stage'[d] = "admitted" /\ hs'[d].nonce = n
                                /\ checkedAt'[d] <= clock'
                                /\ seenNonces'[n] = Unix(checkedAt'[d])
    <3>1. CASE n = nonce
      BY <1>1, <1>5, <2>2, <3>1
    <3>2. CASE n # nonce
      <4>1. PICK d \in Conns : /\ stage[d] = "admitted" /\ hs[d].nonce = n
                               /\ checkedAt[d] <= clock
                               /\ seenNonces[n] = Unix(checkedAt[d])
        BY Zenon, <1>3, <2>2, <2>3, <3>2 DEF StoreExplained
      <4> QED
        BY <1>1, <1>3, <2>2, <2>3, <3>2, <4>1
    <3> QED
      BY Zenon, <3>1, <3>2
  <2>4. StoreExplained'
    BY Zenon, <2>3 DEF StoreExplained, Unix, NotSeen
  <2>5. RefusalJustified'
    BY Zenon, <1>1, <1>5 DEF RefusalJustified, Unix
  <2> QED
    BY Zenon, <2>4, <2>5
<1> QED
  BY Zenon, <1>1, <1>4, <1>5

\* checkAndStoreNonce turns a connection away only for a nonce that another
\* connection brought within the lifetime, whatever the constants.
THEOREM RefusalsJustified == AdmissionSpec => []RefusalJustified
<1>1. AdmissionInit => StoreExplained /\ RefusalJustified
  BY Zenon DEF AdmissionInit, StoreExplained, RefusalJustified
<1>2. /\ AdmissionTypeOK /\ StoreExplained /\ RefusalJustified
      /\ [AdmissionNext]_admissionVars
      => StoreExplained' /\ RefusalJustified'
  BY Zenon, OtherStepsExplained, CheckExplained DEF AdmissionNext
<1> QED
  BY <1>1, <1>2, AdmissionTypeCorrect, PTL DEF AdmissionSpec

-----------------------------------------------------------------------------
(* The handler.                                                            *)

\* Every step of the handler, of its clients and of the clock is a step of the
\* two checks or leaves their state alone.
LEMMA AdmissionStep == [Next]_vars => [AdmissionNext]_admissionVars
<1> SUFFICES ASSUME [Next]_vars PROVE [AdmissionNext]_admissionVars
  BY Zenon
<1>1. CASE ClockTick
  BY Zenon, <1>1 DEF ClockTick, AdmissionNext
<1>2. ASSUME NEW c \in Conns, ClientSend(c) \/ ClientEnd(c)
      PROVE  UNCHANGED admissionVars
  BY Zenon, <1>2 DEF ClientSend, ClientEnd
<1>3. ASSUME NEW c \in Conns, Handler(c)
      PROVE  [AdmissionNext]_admissionVars
  BY Zenon, <1>3 DEF Handler, Process, handleReflexMagic, handleReflexHTTP,
     CheckTimestamp, CheckNonce, EstablishSession, AdmissionNext
<1>4. CASE UNCHANGED vars
  BY Zenon, <1>4 DEF vars
<1> QED
  BY Zenon, <1>1, <1>2, <1>3, <1>4 DEF Next

\* The handler implements the specification of the two checks.
THEOREM HandlerImplementsAdmission == Spec => AdmissionSpec
<1>1. Init => AdmissionInit
  BY Zenon DEF Init
<1> QED
  BY <1>1, AdmissionStep, PTL DEF Spec, AdmissionSpec

\* A handshake message gets past the nonce check on at most one connection of
\* the whole handler, whatever its clients send and however they interleave.
THEOREM HandlerNoReplay == Spec => []NoReplay
BY HandlerImplementsAdmission, AtMostOnce, PTL

-----------------------------------------------------------------------------

\* Type correctness is preserved by every step of the handler.
LEMMA HandlerTypeStep == TypeOK /\ [Next]_vars => TypeOK'
<1> SUFFICES ASSUME TypeOK, [Next]_vars PROVE TypeOK'
  BY Zenon
<1>0. AdmissionTypeOK'
  BY Zenon, AdmissionStep, TypeStep DEF TypeOK
<1> USE <1>0, ScriptAssumption DEF TypeOK
<1>1. CASE ClockTick
  BY Zenon, <1>1 DEF ClockTick, connVars
<1>2. ASSUME NEW c \in Conns, ClientSend(c)
      PROVE  TypeOK'
  BY <1>2 DEF ClientSend
<1>3. ASSUME NEW c \in Conns, ClientEnd(c)
      PROVE  TypeOK'
  BY <1>3 DEF ClientEnd
<1>4. ASSUME NEW c \in Conns, Process(c)
      PROVE  TypeOK'
  BY <1>4 DEF Process, Goto, handleFallback, PCs, connVars
<1>5. ASSUME NEW c \in Conns, handleReflexMagic(c) \/ handleReflexHTTP(c)
      PROVE  TypeOK'
  BY SMTT(60), <1>5 DEF handleReflexMagic, handleReflexHTTP, ParseVerdict, ParseTruncated,
     Goto, handleFallback, PCs, connVars
<1>6. ASSUME NEW c \in Conns, CheckTimestamp(c) \/ CheckNonce(c)
      PROVE  TypeOK'
  BY <1>6 DEF CheckTimestamp, CheckNonce, Refuse, Reply, Goto, handleFallback,
     PCs, connVars
<1>7. ASSUME NEW c \in Conns, EstablishSession(c)
      PROVE  TypeOK'
  BY <1>7 DEF EstablishSession, Refuse, Reply, Goto, handleFallback, PCs, connVars
<1>8. CASE UNCHANGED vars
  BY Zenon, <1>8 DEF vars, connVars
<1> QED
  BY Zenon, <1>1, <1>2, <1>3, <1>4, <1>5, <1>6, <1>7, <1>8 DEF Next, Handler

\* The state of the handler is always well typed, and no more is consumed from
\* a connection than has arrived on it.
THEOREM HandlerTypeCorrect == Spec => []TypeOK
<1>1. Init => TypeOK
  BY SMTT(60), ScriptAssumption DEF Init, AdmissionInit, TypeOK, AdmissionTypeOK, Stages, PCs
<1> QED
  BY <1>1, HandlerTypeStep, PTL DEF Spec

-----------------------------------------------------------------------------

HandlerSafe == HandlerInv /\ SessionAdmission /\ NonReflexUntouched

\* The environment's steps leave what HandlerSafe speaks of alone.
LEMMA EnvironmentKeepsSafe ==
  ASSUME TypeOK, HandlerSafe,
         \/ ClockTick
         \/ \E c \in Conns : ClientSend(c) \/ ClientEnd(c)
         \/ UNCHANGED vars
  PROVE  HandlerSafe'
<1>1. /\ stage' = stage /\ hs' = hs /\ script' = script
      /\ pc' = pc /\ used' = used /\ out' = out
  BY SMTT(60) DEF ClockTick, Tick, ClientSend, ClientEnd, vars, connVars, admissionVars
<1> QED
  BY <1>1 DEF HandlerSafe, HandlerInv, SessionAdmission, NonReflexUntouched,
     isReflexMagic, isHTTPPostLike

\* A step of one connection's handler leaves the other connections alone and
\* moves its own from one place of Process to the next.
LEMMA HandlerKeepsSafe ==
  ASSUME TypeOK, HandlerSafe, NEW c \in Conns, Handler(c)
  PROVE  HandlerSafe'
<1> USE DEF TypeOK, AdmissionTypeOK
<1>0. /\ script' = script /\ hs' = hs
      /\ \A d \in Conns \ {c} : /\ stage'[d] = stage[d] /\ pc'[d] = pc[d]
                                /\ used'[d] = used[d] /\ out'[d] = out[d]
  BY DEF Handler, Process, handleReflexMagic, handleReflexHTTP, ParseVerdict,
     ParseTruncated, CheckTimestamp, CheckNonce, EstablishSession,
     validateHandshakeTimestamp, checkAndStoreNonce, Reached, Refuse, Reply,
     Goto, handleFallback, connVars, admissionVars
<1> DEFINE
     Inv(d) ==
       /\ pc[d] = "magic" => isReflexMagic(d)
       /\ pc[d] = "http" => isHTTPPostLike(d)
       /\ pc[d] \in {"peek", "magic", "http"} => used[d] = 0
       /\ pc[d] \in {"validate", "nonce", "keys"} =>
            /\ script[d].ok /\ script[d].kind \in {"magic", "post"}
            /\ used[d] = script[d].need
       /\ pc[d] \in {"peek", "magic", "http", "validate"} => stage[d] = "new"
       /\ pc[d] = "nonce" => stage[d] = "validated"
       /\ pc[d] = "keys" => stage[d] = "admitted"
       /\ pc[d] \notin Decided => out[d] = 0
     Admitted(d) ==
       pc[d] = "session" =>
         /\ script[d].ok /\ script[d].kind \in {"magic", "post"}
         /\ stage[d] = "admitted"
         /\ hs[d].userID \in Clients /\ hs[d].keyOk
         /\ used[d] = script[d].need
         /\ out[d] = 200
     Untouched(d) ==
       script[d].kind \in {"other", "short"} =>
         /\ used[d] = 0
         /\ out[d] = 0
         /\ stage[d] = "new"
         /\ pc[d] \in {"peek", "fallback", "done"}
     Safe(d) == Inv(d) /\ Admitted(d) /\ Untouched(d)
<1>1. \A d \in Conns : Safe(d)
  BY SMTT(60) DEF HandlerSafe, HandlerInv, SessionAdmission, NonReflexUntouched
<1>2. ASSUME NEW d \in Conns \ {c}
      PROVE  Safe(d)'
  BY SMTT(60), <1>0, <1>1 DEF isReflexMagic, isHTTPPostLike
<1>3. Safe(c)'
  <2> USE <1>1 DEF Decided, isReflexMagic, isHTTPPostLike, Goto, handleFallback
  <2>1. CASE Process(c)
    BY SMTT(60), <2>1, ScriptAssumption DEF Process, connVars, admissionVars, Kinds
  <2>2. CASE handleReflexMagic(c) \/ handleReflexHTTP(c)
    BY SMTT(60), <2>2 DEF handleReflexMagic, handleReflexHTTP, ParseVerdict, ParseTruncated,
       connVars, admissionVars
  <2>3. CASE CheckTimestamp(c)
    BY SMTT(60), <2>3 DEF CheckTimestamp, validateHandshakeTimestamp, Reached, Refuse, Reply,
       connVars
  <2>4. CASE CheckNonce(c)
    BY SMTT(60), <2>4 DEF CheckNonce, checkAndStoreNonce, Reached, Refuse, Reply, connVars
  <2>5. CASE EstablishSession(c)
    BY SMTT(60), <2>5 DEF EstablishSession, Refuse, Reply, authenticateUser, connVars,
       admissionVars
  <2> QED
    BY ZenonT(60), <2>1, <2>2, <2>3, <2>4, <2>5 DEF Handler
<1>4. \A d \in Conns : Safe(d)'
  BY <1>2, <1>3
<1> QED
  BY SMTT(60), <1>4 DEF HandlerSafe, HandlerInv, SessionAdmission, NonReflexUntouched

\* handleSession runs only for a known user whose nonce was admitted, with
\* exactly the handshake consumed; and a client that does not look like Reflex
\* gets to the fallback untouched.
THEOREM HandlerPaths == Spec => [](SessionAdmission /\ NonReflexUntouched)
<1>1. Init => HandlerSafe
  BY DEF Init, AdmissionInit, HandlerSafe, HandlerInv, SessionAdmission,
     NonReflexUntouched, Decided
<1>2. TypeOK /\ HandlerSafe /\ [Next]_vars => HandlerSafe'
  BY Zenon, EnvironmentKeepsSafe, HandlerKeepsSafe DEF Next
<1>3. HandlerSafe => SessionAdmission /\ NonReflexUntouched
  BY Zenon DEF HandlerSafe
<1> QED
  BY <1>1, <1>2, <1>3, HandlerTypeCorrect, PTL DEF Spec

\* What does not look like a Reflex handshake reaches the web server with its
\* first byte: the detection only peeks.
THEOREM OthersUntouched == Spec => []NonReflexUntouched
BY HandlerPaths, PTL
=============================================================================
