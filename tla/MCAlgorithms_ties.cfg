SPECIFICATION Spec
CONSTANTS
  Values = {1, 2}
  MaxSample = 2
  Observable = {0}
  MaxObservations = 0
INVARIANT IsStatistic
CHECK_DEADLOCK FALSE
