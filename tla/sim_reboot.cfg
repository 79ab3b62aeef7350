SPECIFICATION Spec
CONSTANTS
    Conns <- MCConns
    Versions <- MCVersions
    NoVersion <- MCNoVersion
    FactoryVersion <- MCFactory
    BootBootloader = TRUE
    MaxEvents = 1
PROPERTIES
    RebootDropsConnection
