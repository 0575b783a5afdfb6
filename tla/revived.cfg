SPECIFICATION Spec
CONSTANTS
  Workers = {w1, w2}
  N = 2
  MaxRows = 5
  Passes = {2}
  Sizes = {2}
  Ops = {"stop", "pause", "resume"}
  MaxPresses = 3
  Faults = {}
  MaxFaults = 0
  MaxRefusals = 2
  Gated = {}
  Humans = {}
  Machines = {}
  LateCallbacks = TRUE
SYMMETRY Symmetry
PROPERTIES
  StopStays
\* A run ends: stopped or done, with every call over and delivered.
CHECK_DEADLOCK FALSE
