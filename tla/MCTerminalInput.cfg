CONSTANTS
    a = a
    b = b
    nul = nul
    cr = cr
    lf = lf
    NUL = nul
    CR = cr
    LF = lf
    Printable <- MCPrintable
    Messages <- MCMessages
    MaxMessages = 3
    MaxSteps = 1

SPECIFICATION FairSpec

INVARIANTS
    TypeOK
    LinesArrive
    CrAfterLine
    ImageArrives
    ReadsOwnedMemory

PROPERTY LineIsRead

CONSTRAINT UntilRaced

CHECK_DEADLOCK FALSE
