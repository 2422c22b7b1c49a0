SPECIFICATION Spec
CONSTANTS
    Trims <- MCTrims
    Uppers <- MCUppers
    Lowers <- MCLowers
    Ips = {"192.0.2.1", "192.0.2.2", "0.0.0.0"}
    Db <- MCDb
    Files = {"a.yaml", "b.grl"}
    Yaml = {"a.yaml"}
    Configs <- MCConfigs
    BlacklistFile = {"192.0.2.1"}
    Headers <- MCHeaders
    ClientIps = {"192.0.2.1", "-"}
    Asked <- MCAsked
    MaxEdits = 1
    MaxFaults = 1
INVARIANTS
    GeoBlocksBlocked
CHECK_DEADLOCK FALSE
