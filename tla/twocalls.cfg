SPECIFICATION Spec
CONSTANTS
  Workers = {w1, w2}
  N = 2
  MaxRows = 6
  Passes = {2}
  Sizes = {2}
  Ops = {"callback", "resume"}
  MaxPresses = 2
  Faults = {}
  MaxFaults = 0
  MaxRefusals = 2
  Gated = {}
  Humans = {}
  Machines = {}
  LateCallbacks = TRUE
SYMMETRY Symmetry
INVARIANTS
  OneCallPerRun
\* A run ends: stopped or done, with every call over and delivered.
CHECK_DEADLOCK FALSE
