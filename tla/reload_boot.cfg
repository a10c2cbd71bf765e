\* An edit between the load at boot and the first snapshot.
SPECIFICATION FairReloadSpec
CONSTANTS
    ConfigFile = config
    RegistryFiles = {f1}
    Absent = Absent
    Defaults = Defaults
    MaxEdits = 1
PROPERTIES
    HotReloadable
CHECK_DEADLOCK FALSE
