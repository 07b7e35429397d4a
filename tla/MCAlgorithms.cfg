SPECIFICATION Spec
CONSTANTS
  Values = {1, 2, 3, 4}
  MaxSample = 3
  Observable = {0, 1, 2, 3}
  MaxObservations = 5
INVARIANTS StatisticWithoutTies DrawsMatchObservations
CHECK_DEADLOCK FALSE
