SPECIFICATION ReloadSpec
CONSTANTS
    Files = {"a.yaml", "b.grl"}
    Yaml = {"a.yaml"}
    Plugins = {"blacklist", "geo"}
    ChannelCap = 2
    MaxEdits = 3
    MaxFaults = 1
INVARIANT
    PluginsSurviveReload
CHECK_DEADLOCK FALSE
