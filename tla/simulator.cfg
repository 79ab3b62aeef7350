SPECIFICATION Spec
CONSTANTS
    Conns <- MCConns
    Versions <- MCVersions
    NoVersion <- MCNoVersion
    FactoryVersion <- MCFactory
    BootBootloader = TRUE
    MaxEvents = 2
INVARIANTS
    TypeOK
    ExclusiveAttach
    FreshFirmware
PROPERTIES
    SubscriberDropped
    AskedIsReplaced
