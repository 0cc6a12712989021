SPECIFICATION Spec
CONSTANTS
  NumCores = 2
  MaxForks = 1
  Wrap = 65536
  Argcs = {7}
  Microtasks <- DynamicOnly
CHECK_DEADLOCK FALSE
INVARIANT WorkHandedOutOnce
