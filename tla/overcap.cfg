SPECIFICATION Spec
CONSTANTS
  Workers = {w1, w2}
  Emails = {e1, e2}
  Purposes = {"reply"}
  Practices = {FALSE}
  Cap = 1
  MaxAttempts = 2
  MaxChanges = 0
  Faults = {"lost", "error", "db", "crash", "slow", "blank"}
  MaxFaults = 1
INVARIANT NoFourth
CHECK_DEADLOCK FALSE
