\* Trees of up to four nodes are the smallest in which a node has both a child
\* and a later sibling below a common parent; two providers
\* may disagree in either order.
CONSTANTS
  r1 = r1
  r2 = r2
  Rule = {r1, r2}
  MaxNodes = 4
  Node = {1, 2, 3, 4}
  Key = {"type"}
  Layout = {"a", "b"}
  MaxEntries = 2
  MaxMerged = 1
  Language <- Languages
  LintLists <- Lints
  Providers = 2
  Attached <- TwoNodes
  MaxFound = 2
SPECIFICATION Spec
INVARIANT WalkInTextOrder DiagnosticsAreDeclared PassesSeeEveryDecoration UncoveredIsUnanimous
\* The pipeline is done with a file when it returns.
CHECK_DEADLOCK FALSE
