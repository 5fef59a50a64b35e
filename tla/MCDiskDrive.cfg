CONSTANTS
    Drives <- MCDrives
    SECTOR_SIZE = 2
    SECTORS_PER_TRACK = 2
    UINT8_VALUES = 8
    TRACK_VALUES = 2
    FileSectors <- MCFileSectors
    Builds <- MCBuilds
    Controls <- MCControls
    MaxWrites = 2
    MaxCalls = 13

SPECIFICATION Spec

INVARIANTS
    StaysInBuffer
    FlushedWhereWritten
    CompleteWritesSurvive
    ReadsSectorUnderHead
    Track0IsTrack0

CHECK_DEADLOCK FALSE
