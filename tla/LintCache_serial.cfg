CONSTANTS
  Run = {r1, r2, r3}
  Pid = {1}
  Lint = {a, b}
SPECIFICATION SerialSpec
SYMMETRY Symmetric
INVARIANT AcceptedIsWhole LoadsEveryLint
