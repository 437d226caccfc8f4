SPECIFICATION Spec
CONSTANTS
    N = 3
    Statements <- MCStatements
    Splittable = {1, 2}
    Owned <- MCOwned
    Diag <- MergedDiag
    Located <- MergedLocated
    Finders <- MergedFinders
    MaxLength = 3
INVARIANTS
    PiecesPartition
    EachPieceOnce
    SplitMissesOnlyMerged
    ShadowDiffersOnlyOnMerged
PROPERTIES
    PassEnds
