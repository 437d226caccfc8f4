CONSTANTS
  MaxFile = 3
  Rule = {on, off}
  Admitted = {on}
  Grammar <- MCGrammar
  GrammarOf <- MCGrammarOf
  Gap = {excluded}
  Severity = {2, 3, 4}
  MaxFound = 2
SPECIFICATION Spec
INVARIANT SuccessIsEarned ReportMatchesExit WalkStopsWhereItShould
PROPERTY KeepsPromise
