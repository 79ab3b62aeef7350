CONSTANTS
    Rates = {1}
    SlowTicks = 2
    N = 2
    Latency = 1
    CapFactor = 2
    Grace = 1
    MaxConns = 2
    MaxBlocks = 2
    MaxFed = 3
SPECIFICATION Spec
PROPERTY AdcAnswered
