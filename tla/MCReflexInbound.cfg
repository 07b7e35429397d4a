SPECIFICATION FairSpec
CONSTANTS
  n1 = n1
  n2 = n2
  Conns = {c1, c2}
  Nonces = {n1, n2}
  Scripts <- PathScripts
  Handshakes <- PathHandshakes
  Clients = {"alice"}
  FallbackDest = 80
  Skew = 1
  Lifetime = 3
  TicksPerSecond = 1
  MaxDelay = 1
  MaxClock = 4
INVARIANTS NoReplay RefusalJustified SessionAdmission NonReflexUntouched
PROPERTIES EventuallyDecided AdmissionSpec
CHECK_DEADLOCK FALSE
