CONSTANTS
    None = None
    Err = Err
    LowerOf <- MCLowerOf
    IpOf <- MCIpOf
    PrefixOf <- MCPrefixOf
    Width <- MCWidth
    ClassOf <- MCClassOf
    FileNames <- MCFileNames
    ConfigKey <- MCConfigKey
    DebugName <- MCDebugName
    ExtraFile = "custom.yaml"
    Contents <- MCContents
    Contexts <- MCContexts
    Skips <- MCSkips
    Samples <- MCSamples
SPECIFICATION Spec
INVARIANTS
    RuleTypeOK
    CacheIsTransparent
    HighestPrecedence
    EnginesAgree
    GlobsMean
    CidrMeans
CHECK_DEADLOCK FALSE
