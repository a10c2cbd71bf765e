\* Two registry files and the configuration, edited and deleted at any moment.
SPECIFICATION FairReloadSpec
CONSTANTS
    ConfigFile = config
    RegistryFiles = {f1, f2}
    Absent = Absent
    Defaults = Defaults
    MaxEdits = 2
INVARIANTS
    ReloadTypeOK
    NoticedMeansLoaded
    UntouchedStays
PROPERTIES
    EditsArrive
CHECK_DEADLOCK FALSE
