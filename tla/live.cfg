SPECIFICATION FairSpec
CONSTANTS
  Workers = {w1, w2}
  N = 2
  MaxRows = 4
  Passes = {2}
  Sizes = {2}
  Ops = {"skip"}
  MaxPresses = 1
  Faults = {"refuse"}
  MaxFaults = 1
  MaxRefusals = 2
  Gated = {}
  Humans = {1}
  Machines = {}
  LateCallbacks = TRUE
PROPERTIES
  NeverStalls
  DialSettles
\* A run ends: stopped or done, with every call over and delivered.
CHECK_DEADLOCK FALSE
