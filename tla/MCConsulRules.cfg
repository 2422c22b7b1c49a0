CONSTANTS
    Seeders = {"s1", "s2"}
    Watchers = {"w"}
    Unified = "rules.yaml"
    Absent = Absent
    OldKeys <- MCOldKeys
    OtherKeys = {"global.yaml"}
    Releases <- MCReleases
    Edits <- MCEdits
    InitialKVs <- MCInitialKVs
    BootRules <- MCBootRules
    Times = {0}
    MaxIndex = 4
    MaxFaults = 1
    MaxSeeds = 1
SPECIFICATION Spec
INVARIANTS
    ConsulTypeOK
    CaughtUp
    SeededIsLoadable
PROPERTIES
    SeedKeepsCustom
    WatchersConverge
CHECK_DEADLOCK FALSE
