\* Three neighbouring nodes, so that a slice has entries before and after it;
\* three entries, so that the search halves lists of odd and even length.
CONSTANTS
  Node = {1, 2, 3}
  Key = {k1, k2}
  Layout = {t1, t2}
  MaxEntries = 3
  MaxMerged = 2
SPECIFICATION MapSpec
INVARIANT SealIsFresh LookupIsExact
PROPERTY FirstWins
