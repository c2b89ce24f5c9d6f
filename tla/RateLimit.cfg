\* Two calls at a time, a bucket that is emptied, refilled and dropped.
SPECIFICATION Spec
CONSTANTS
  Calls = {q1, q2}
  Capacity = 6
  Rate = 2
  Costs = {3, 7}
  Grain = 2
  Second = 2
  TTL = 4
  Delay = 1
  MaxClock = 8
SYMMETRY Symmetry
INVARIANTS
  GrantedBounded
  RetryAfterSuffices
CHECK_DEADLOCK FALSE
