SPECIFICATION Spec
CONSTANTS
    InEps <- MCInEps
    OutEps <- MCOutEps
    ReadyEps <- MCReadyEps
    MaxSeq = 3
    MaxUnlinks = 1
INVARIANTS
    TypeOK
    OneVerdict
    EndpointOrder
    NoUrbStranded
    CleanReturn
PROPERTIES
    ImplementsService
    Answered
    Detaches
