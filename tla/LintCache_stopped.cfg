CONSTANTS
  Run = {r1, r2}
  Pid = {1, 2}
  Lint = {a, b}
SPECIFICATION Spec
SYMMETRY Symmetric
INVARIANT StoppedRunLeavesNoPart
