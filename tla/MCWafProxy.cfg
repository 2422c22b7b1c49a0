SPECIFICATION ProxySpec
CONSTANTS
    Files = {"guard.yaml", "white.grl", "audit.grl"}
    Yaml = {"guard.yaml"}
    Plugins = {"blacklist"}
    ChannelCap = 1
    MaxEdits = 2
    MaxFaults = 0
    Requests = {r1}
    Verdict <- MCVerdict
    Salience <- MCSalience
    MaxCycles = 1
    Needs <- MCNeeds
    Backend <- MCBackend
    Priority <- MCPriority
    OnPath <- MCOnPath
    Backends <- MCBackends
    Default = "http://127.0.0.1:3000"
INVARIANTS
    ProxyTypeOK
    NoWindow
    RoutedNotBeforeJudged
CHECK_DEADLOCK FALSE
