SPECIFICATION MCSpec
CONSTANTS
  Workers = {w1, w2}
  First = e1
  Second = e2
  Emails = {e1, e2}
  Purposes = {"first", "reply", "practice"}
  Practices = {FALSE, TRUE}
  Cap = 1
  MaxAttempts = 2
  MaxChanges = 1
  Faults = {"lost", "error", "db", "crash", "slow", "blank"}
  MaxFaults = 2
INVARIANTS TypeOK SentOnce CapHolds AnswerHeld
PROPERTIES StopHolds RowForward EmailSettles
CHECK_DEADLOCK FALSE
