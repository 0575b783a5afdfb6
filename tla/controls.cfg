SPECIFICATION Spec
CONSTANTS
  Workers = {w1, w2}
  N = 2
  MaxRows = 5
  Passes = {1, 2}
  Sizes = {1, 2}
  Ops = {"stop", "pause", "resume", "idle", "legLost", "start"}
  MaxPresses = 2
  Faults = {"noNumbers", "fail", "refuse"}
  MaxFaults = 1
  MaxRefusals = 2
  Gated = {2}
  Humans = {1}
  Machines = {2}
  LateCallbacks = TRUE
SYMMETRY Symmetry
INVARIANTS
  TypeOK
  Ownership
\* A run ends: stopped or done, with every call over and delivered.
CHECK_DEADLOCK FALSE
