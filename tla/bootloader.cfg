CONSTANTS
    Sizes = {0, 3}
    MaxSize = 3
    Chunk = 2
    SigAt = 2
    Paced = TRUE
    MaxCommands = 2
    MaxQueued = 2
SPECIFICATION Spec
INVARIANTS TypeOK OneVerdict WholeImage
PROPERTIES HostLearnsOutcome ImplementsPersona
