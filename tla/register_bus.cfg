CONSTANTS
    MaxRate = 2
    PageSize = 2
    Word <- MCWord
    Served <- MCServed
    Unmapped <- MCUnmapped
    Magic1 = 8
    Magic2 = 9
    MaxConns = 2
    Plans <- MCPlans
SPECIFICATION Spec
INVARIANTS TypeOK StaleFirst CleanSession
PROPERTIES ImplementsPort PollServed
CHECK_DEADLOCK FALSE
