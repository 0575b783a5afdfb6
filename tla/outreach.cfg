SPECIFICATION MCSpec
CONSTANTS
  Ticks = {"k1", "k2"}
  Events = {"e1", "e2"}
  TheReply = "m1"
  Replies = {"m1"}
  Names <- OneReply
  Batch = 2
  MaxAttempts = 2
  MaxChanges = 1
  Faults = {"unreadable", "gone", "db", "crash", "overrun"}
  MaxFaults = 1
  Together = {{"reply"}, {"people"}, {"outcomes"}}
  Pacers = {"p1"}
  Handlers = {"h1", "h2"}
  Touches = {"t1", "t2"}
  CallAttempts = 2
  MaxKeys = 2
  CallFaults = {"lost", "crash", "db", "twilio"}
  MaxCallFaults = 1
  FewRefusals = {"later"}
  ManyDecisions = 4
  ManyRefusals = {"system", "later", "final", "park", "research", "stop", "exit"}
  FewDecisions = 1
INVARIANTS OutreachTypeOK HandledOnce OptOutHonoured DoneMeansHandled
  OneCallPerKey NoBlindCall OwnCall
PROPERTIES KeepsKeys OutreachSettles
CHECK_DEADLOCK FALSE
