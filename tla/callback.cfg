SPECIFICATION Spec
CONSTANTS
  Workers = {w1, w2}
  N = 2
  MaxRows = 6
  Passes = {1, 2}
  Sizes = {2}
  Ops = {"callback", "resume", "stop"}
  MaxPresses = 2
  Faults = {"crash", "fail"}
  MaxFaults = 1
  MaxRefusals = 2
  Gated = {}
  Humans = {1}
  Machines = {}
  LateCallbacks = TRUE
SYMMETRY Symmetry
INVARIANTS
  DialedOnce
  NoExtraDial
PROPERTIES
  FirstPassTotalFixed
  KeepsLedger
\* A run ends: stopped or done, with every call over and delivered.
CHECK_DEADLOCK FALSE
