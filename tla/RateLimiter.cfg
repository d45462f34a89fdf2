\* A burst of two commands, one drained every three ticks.
CONSTANTS
  Unit = 3
  Burst = 2
  MaxTime = 9
SPECIFICATION Spec
INVARIANTS
  LimiterBounded
  DropsOnlyExcess
