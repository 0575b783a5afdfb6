SPECIFICATION Spec
CONSTANTS
  Replicas = {r1, r2}
  Jobs = {j1}
  Slots = {1}
  MaxAttempts = 2
  Faults = {"error"}
  MaxFaults = 1
  MaxHands = 0
INVARIANT NoSecondCopy
CHECK_DEADLOCK FALSE
