CONSTANTS
    BufferSize = 2
    PingTicks = 1
    MaxFailures = 2

SPECIFICATION Spec

INVARIANTS
    DisconnectIsNoticed
    OutputIsFlagged
    OutputFits

PROPERTIES
    Recovers
    OutputLeaves
