SPECIFICATION Spec
CONSTANTS
    N = 3
    Weights <- MCWeights
    Counted = 2
    MaxThieves = 1
INVARIANTS
    CheckedByItsOwner
    NeverTwice
    ThievesWithinLimit
    PlacesAreInUse
PROPERTIES
    PassEnds
