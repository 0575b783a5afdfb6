SPECIFICATION MCSpec
CONSTANTS
  Replicas = {"r1", "r2"}
  Jobs = {"j1"}
  Slots = {1, 2}
  MaxAttempts = 2
  Faults = {"lost", "db", "error", "reconnect", "crash"}
  MaxFaults = 2
  MaxHands = 1
  Together = {{"rollover"}, {"calls"}, {"text"}, {"batch"}}
  LogReplicas = {"r1"}
  Handlers = {"h1"}
  RepChoices = {"sale"}
  LogAttempts = 2
  MaxRequests = 2
  LogFaults = {"lost", "patch", "error", "auth", "crash"}
  MaxLogFaults = 1
  TextReplicas = {"r1", "r2"}
  Texts = {"t1"}
  BatchReplicas = {"r1"}
  Batch = {"t1", "t2"}
  MaxTries = 2
  TextFaults = {"lost", "error", "auth", "crash", "overrun"}
  MaxTextFaults = 2
INVARIANTS WorkersTypeOK CoveredByCopy NoSecondCopyAlone MovedWhole
  LoggedOnce DispositionReaches DigestOnce TextToldOnce NothingSilent
PROPERTIES JobStaysSettled QueuesDrain LinkReaches
CHECK_DEADLOCK FALSE
