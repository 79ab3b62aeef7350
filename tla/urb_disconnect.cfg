SPECIFICATION Spec
CONSTANTS
    InEps <- MCInEps
    OutEps <- MCOutEps
    ReadyEps <- MCReadyEps
    MaxSeq = 2
    MaxUnlinks = 0
PROPERTIES
    DisconnectCancels
