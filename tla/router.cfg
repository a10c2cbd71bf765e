\* Every configuration and registry of the instance.
SPECIFICATION RouterSpec
CONSTANTS
    Configs <- MCConfigs
    Registries <- MCRegistries
    ModelNames <- MCNames
    NoLimit = NoLimit
INVARIANTS
    RouterTypeOK
    RankedAndComplete
    OverridesApply
    ListedIffServed
    DoctorFindsBadKeys
    ShownIsServed
