SPECIFICATION Spec
CONSTANTS
    Names <- MCNames
    Paths <- MCPaths
    NoPath = NoPath
    RuleSets <- MCRuleSets
    Facts <- MCFacts
    MaxCycles = 3
    U64 = 256
    MaxRules = 4
INVARIANTS
    TypeOK
    FiresAtMostOnce
    Quiescent
    CapIsHarmless
PROPERTIES
    DecisionIsFinal
    ImplementsAgenda
    Terminates
CHECK_DEADLOCK FALSE
