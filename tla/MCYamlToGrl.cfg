SPECIFICATION Spec
CONSTANTS
    Atoms <- MCAtoms
    Ignored <- MCIgnored
    Docs <- MCDocs
    Base = 1000
    Cap = 150
    I32 = 4000
    MaxDepth = 3
    MaxTokens = 40
INVARIANTS
    GuardsMean
    OnlyBadRulesAreLost
    PriorityOrder
CHECK_DEADLOCK FALSE
