SPECIFICATION Spec
CONSTANTS
  Workers = {w1, w2}
  N = 2
  MaxRows = 5
  Passes = {1, 2}
  Sizes = {2}
  Ops = {"next", "skip", "redial", "end"}
  MaxPresses = 2
  Faults = {"redeliver", "history", "refuse"}
  MaxFaults = 1
  MaxRefusals = 1
  Gated = {2}
  Humans = {1}
  Machines = {}
  LateCallbacks = TRUE
SYMMETRY Symmetry
INVARIANTS
  OneCallPerRun
  NoStuckDial
PROPERTIES
  RolloverEarned
  SettledStays
\* A run ends: stopped or done, with every call over and delivered.
CHECK_DEADLOCK FALSE
