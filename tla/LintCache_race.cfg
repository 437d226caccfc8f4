\* No symmetry: RunsEnd is a liveness property.
CONSTANTS
  Run = {r1, r2}
  Pid = {1, 2}
  Lint = {a, b}
SPECIFICATION FairSpec
PROPERTY PublishedWhole WarmStaysWarm RunsEnd
