SPECIFICATION Spec
CONSTANTS
  n1 = n1
  n2 = n2
  Conns = {c1}
  Nonces = {n1, n2}
  Scripts <- PathScripts
  Handshakes <- PathHandshakes
  Clients = {"alice"}
  FallbackDest = 80
  Skew = 1
  Lifetime = 3
  TicksPerSecond = 1
  MaxDelay = 1
  MaxClock = 1
INVARIANT FallbackSeesWholeStream
CHECK_DEADLOCK FALSE
