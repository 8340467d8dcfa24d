CONSTANTS
    Configs <- MCConfigs
    MaxBuilds = 2
    MaxDropped = 1
    MaxLives = 2
SPECIFICATION Spec
INVARIANTS
    TypeOK
    BundleIsCurrent
    ServesOnlyReady
    StopReleases
PROPERTIES
    AcceptedServed
    LoadsAhead
    StartupEnds
