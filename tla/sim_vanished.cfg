SPECIFICATION Spec
CONSTANTS
    Conns <- MCConns
    Versions <- MCVersions
    NoVersion <- MCNoVersion
    FactoryVersion <- MCFactory
    BootBootloader = FALSE
    MaxEvents = 1
INVARIANTS
    VanishedClientReleases
