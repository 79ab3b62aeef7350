SPECIFICATION Spec
CONSTANTS
    MaxReads = 2
    MaxPolls = 2
    MaxUnlinks = 1
INVARIANTS
    TypeOK
    NoLostLine
    AnswerIsLogged
    PoliteHostPairs
    CausalOrder
CHECK_DEADLOCK FALSE
