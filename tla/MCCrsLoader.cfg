SPECIFICATION Spec
CONSTANTS
    Tags <- MCTags
    Dirs <- MCDirs
    MaxLines = 4
INVARIANTS
    CrsTypeOK
    ChainsAreWhole
    LastDefinitionWins
    AllOrNothing
    ReportedTagsFired
CHECK_DEADLOCK FALSE
