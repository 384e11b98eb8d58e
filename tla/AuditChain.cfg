CONSTANTS
  r1 = r1  r2 = r2
  Records = {r1, r2}
SPECIFICATION Spec
INVARIANT Verifies
CHECK_DEADLOCK FALSE
