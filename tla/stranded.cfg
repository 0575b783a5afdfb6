SPECIFICATION Spec
CONSTANTS
  Replicas = {r1}
  Handlers = {h1}
  RepChoices = {"sale"}
  MaxAttempts = 2
  MaxRequests = 1
  Faults = {"crash"}
  MaxFaults = 1
INVARIANT NotStranded
CHECK_DEADLOCK FALSE
