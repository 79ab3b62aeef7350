CONSTANTS
    BlockUnits = {3}
    MaxBlocks = 2
    MaxWrites = 3
    MaxConns = 2
SPECIFICATION Spec
INVARIANTS TypeOK I2sPaced FramesLogged
CHECK_DEADLOCK FALSE
