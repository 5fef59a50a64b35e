CONSTANTS
    RB_ALIGNMENT = 2
    SIZE_FIELD = 1
    MSG_HEADER = 1
    PAYLOAD = 1
    RB_MAX_PAYLOAD_LEN = 1
    RECV_BUFFER = 1
    CAPACITY = 10
    Unused = Unused
    Drives <- MCDrives
    Sectors <- MCSectors
    BLOCKS_PER_DRIVE = 3
    Contents <- MCContents
    Zeros <- MCZeros
    Torn <- MCTorn
    Image <- MCImage
    FORMAT_DRIVE = 1
    OPEN_TRIES = 2
    IDLE_TRIES = 2
    OP_TRIES = 2
    NUM_WRITE_RETRIES = 1
    None = None
    Unknown = Unknown
    EmulatorSectors <- MCEmulatorSectors
    MaxStarts <- MCMaxStarts
    MaxRequests <- MCMaxRequests

SPECIFICATION Spec

INVARIANTS
    RingsHoldMessages
    AnswersAreRight
    VerifiedMeansWritten
    RequestIsHeard

PROPERTY
    AnsweredUnlessMissed

CHECK_DEADLOCK FALSE
