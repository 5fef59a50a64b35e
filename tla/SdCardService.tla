--------------------------- MODULE SdCardService ---------------------------
(***************************************************************************)
(* The SD card service of the M4 core (AltairRT_sd_card_service) and the   *)
(* two applications of the A7 core that use it: the emulator built with    *)
(* SD_CARD_ENABLED (disk_read and writeSector of 88dcdd.c) and the         *)
(* formatters that copy a disk image to the card and verify it             *)
(* (AltairHL_sd_card_format_drive_a and _b).                               *)
(*                                                                         *)
(* Three things run concurrently: the main loop of the M4 core, its        *)
(* interrupt handlers, and the A7 application, which may stop and be       *)
(* started again at any time.  A request and its answer are the same       *)
(* message, sent through the rings of IntercoreSocket.                     *)
(***************************************************************************)
EXTENDS IntercoreSocket, SdCard

CONSTANTS
    Drives, Sectors,    \* drive and sector numbers
    BLOCKS_PER_DRIVE,   \* 3000
    Contents,           \* what the emulator writes: sequences of numbers
    Zeros,              \* a sector of zeros
    Image,              \* of each sector, the content in the file the formatter copies
    FORMAT_DRIVE,       \* the drive the formatter writes, 0 or 1
    OPEN_TRIES,         \* 5, 5 and 256: retries of SD_Open, SD_GoIdleState
    IDLE_TRIES,         \*   and SD_SendOpCond
    OP_TRIES,
    NUM_WRITE_RETRIES,  \* 3
    None, Unknown,      \* no message; a content that nothing was promised about
    MaxStarts,          \* bounds of each program: its starts
    MaxRequests,        \*   and its requests
    EmulatorSectors     \* bound: <<drive, sector>> that the emulator asks for

SectorData == Contents \cup {Zeros, Torn} \cup {Image[s] : s \in DOMAIN Image}

\* INTERCORE_DISK_DATA_BLOCK_T
Messages == [type : {"READ", "WRITE"}, drive : Drives, sector : Sectors,
             success : BOOLEAN, data : SectorData]

ASSUME SdAssumption ==
    /\ Drives \cup Sectors \subseteq Nat
    /\ BLOCKS_PER_DRIVE \in Nat
    /\ FORMAT_DRIVE \in Drives
    /\ DOMAIN Image \subseteq Sectors
    /\ \A s \in DOMAIN Image : 0 .. s \subseteq DOMAIN Image
    /\ EmulatorSectors \subseteq Drives \X Sectors
    /\ None \notin Messages
    /\ Unknown \notin SectorData

VARIABLES
    \* ---- memory both cores see
    toM4, toA7,         \* the rings
    descriptors,        \* the FIFO holds the descriptors of new rings
    attached,           \* the M4 core uses the rings of the running application
    stale,              \* unread requests in the rings it uses instead
    irq,                \* interrupts triggered and not yet taken
    \* ---- the M4 core
    m4,                 \* where its main loop is
    rx,                 \* none, setup: interrupts but no rx_cb yet, open
    enqueued,           \* the callback node
    callbacks,          \* the list holds it
    recvBuffer,         \* None when its message has been answered
    timer,              \* the timeout of the last transfer is still running
    opened,             \* card is not NULL
    selected,           \* chip select
    attempts, polls,    \* loop counters of the card's initialization
    num_retries,
    blocks,             \* what the card holds
    \* ---- the A7 application
    program,            \* emulator or formatter
    client,             \* off, idle, waiting in dx_intercorePublishThenRead
    request, answer,    \* the last request and its answer
    format,             \* the formatter: phase, sector_number, success, checked
    \* ---- for the properties and the bounds
    qM4, qA7,           \* the messages sent and not read, as sequences
    slipped,            \* the application gave up on an answer that may still come
    kept,               \* what each sector should hold
    starts, sent

shared == <<toM4, toA7, qM4, qA7, irq>>
link   == <<descriptors, attached, stale>>
card   == <<opened, selected, attempts, polls, num_retries, blocks>>
loop   == <<m4, rx, enqueued, callbacks, recvBuffer>>
a7     == <<program, client, request, answer, format, slipped, kept, starts, sent>>
vars   == <<shared, link, card, loop, timer, a7>>

\* Mutant: one drive for all.
BlockOfSector(drive, sector) == sector

BlockOf(drive, sector) == sector + drive * BLOCKS_PER_DRIVE

Blocks == {BlockOf(d, s) : d \in Drives, s \in Sectors}

CalCrc(content) == content[1] + content[2]

MSG_SENT == 0
MSG_RECV == 1

Init ==
    /\ toM4 = EmptyRing /\ qM4 = << >>
    /\ toA7 = EmptyRing /\ qA7 = << >>
    /\ descriptors = FALSE /\ attached = FALSE /\ stale = << >>
    /\ irq = {}
    /\ m4 = "burst" /\ rx = "none"
    /\ enqueued = FALSE /\ callbacks = FALSE
    /\ recvBuffer = None
    /\ timer = FALSE
    /\ opened = FALSE /\ selected = TRUE
    /\ attempts = 0 /\ polls = 0
    /\ num_retries = NUM_WRITE_RETRIES
    /\ blocks = [b \in Blocks |-> Zeros]
    /\ program \in {"emulator", "formatter"}
    /\ client = "off"
    /\ request = None /\ answer = None
    /\ format = [phase |-> "ready", sector |-> 0, success |-> TRUE, checked |-> FALSE]
    /\ slipped = FALSE
    /\ kept = [t \in Drives \X Sectors |-> Zeros]
    /\ starts = 0 /\ sent = 0

-----------------------------------------------------------------------------
(***************************************************************************)
(* SD_Open: up to OPEN_TRIES calls of SD_Initialize, a command at a time.  *)
(* Without a card the service goes on, and fails every request.            *)
(***************************************************************************)
Booting == UNCHANGED <<shared, link, opened, num_retries, blocks, rx, enqueued, callbacks,
                       recvBuffer, timer, a7>>

Proceed(place) == m4' = place /\ polls' = 0 /\ UNCHANGED attempts

StartOver ==
    /\ polls' = 0
    /\ IF attempts + 1 < OPEN_TRIES
       THEN attempts' = attempts + 1 /\ m4' = "burst"
       ELSE attempts' = 0 /\ m4' = "negotiate"

\* Another turn of a loop of SD_Initialize, if it has one left.
Poll(limit) ==
    IF polls + 1 < limit THEN polls' = polls + 1 /\ UNCHANGED <<m4, attempts>> ELSE StartOver

InitialBurst ==
    /\ m4 = "burst"
    /\ \E b \in ClockBurst(selected, FALSE) :
          /\ selected' = b.selected
          /\ IF b.ok THEN Proceed("goIdle") ELSE StartOver
    /\ Booting

GoIdleState ==
    /\ m4 = "goIdle"
    /\ \E c \in Command(selected) :
          /\ selected' = c.selected
          /\ CASE ~c.ok                      -> StartOver
               [] c.ok /\ c.r1 = "idle"      -> Proceed("ifCond")
               [] OTHER                      -> Poll(IDLE_TRIES)
    /\ Booting

\* A card of version 2 answers idle and echoes the argument.
SendIfCond ==
    /\ m4 = "ifCond"
    /\ \E c \in Command(selected), echoes \in BOOLEAN :
          /\ selected' = c.selected
          /\ IF c.ok /\ (c.r1 = "illegal" \/ (c.r1 = "idle" /\ echoes))
             THEN Proceed("appCmd") ELSE StartOver
    /\ Booting

SendOpCond ==
    /\ \/ /\ m4 = "appCmd"
          /\ \E c \in Command(selected) :
                /\ selected' = c.selected
                /\ CASE c.ok /\ c.r1 = "idle"    -> Proceed("appOpCond")
                     [] c.ok /\ c.r1 = "illegal" -> Proceed("opCond")
                     [] c.ok /\ c.r1 = "ready"   -> Proceed("csd")
                     [] OTHER                    -> StartOver
       \/ /\ m4 = "appOpCond"
          /\ \E c1 \in Command(selected) : \E c2 \in Command(c1.selected) :
                /\ polls = 0 => c1 = [ok |-> TRUE, r1 |-> "idle", selected |-> selected]
                /\ selected' = IF c1.ok THEN c2.selected ELSE c1.selected
                /\ CASE ~c1.ok \/ ~c2.ok      -> StartOver
                     [] c1.ok /\ c2.ok /\ c2.r1 = "ready" -> Proceed("csd")
                     [] c1.ok /\ c2.ok /\ c2.r1 = "idle"  -> Poll(OP_TRIES)
                     [] OTHER                 -> StartOver
       \/ /\ m4 = "opCond"
          /\ \E c \in Command(selected) :
                /\ selected' = c.selected
                /\ CASE c.ok /\ c.r1 = "idle"  -> UNCHANGED <<m4, attempts, polls>>
                     [] c.ok /\ c.r1 = "ready" -> Proceed("csd")
                     [] OTHER                  -> StartOver
    /\ Booting

\* The card is there whether or not its CSD could be read.
OpenCard ==
    /\ m4 = "csd"
    /\ m4' = "negotiate" /\ opened' = TRUE /\ attempts' = 0
    /\ \E r \in ReadCSD(selected) : selected' = r.selected
    /\ timer' \in BOOLEAN
    /\ UNCHANGED <<shared, link, polls, num_retries, blocks, rx, enqueued,
                   callbacks, recvBuffer, a7>>

-----------------------------------------------------------------------------
(***************************************************************************)
(* Socket_Open.  It waits for the descriptors; if it fails, nothing will   *)
(* ever call the handler.  Interrupts come on before rx_cb is set.         *)
(***************************************************************************)
Negotiate ==
    /\ m4 = "negotiate" /\ descriptors
    /\ descriptors' = FALSE
    /\ \/ attached' = TRUE /\ m4' = "setup"
       \/ UNCHANGED attached /\ m4' = "sleep"
    /\ UNCHANGED <<shared, stale, card, rx, enqueued, callbacks, recvBuffer, timer, a7>>

SetupInterrupts ==
    /\ m4 = "setup"
    /\ \/ rx' = "setup" /\ m4' = "setCallback"
       \/ UNCHANGED rx /\ m4' = "sleep"
    /\ UNCHANGED <<shared, link, card, enqueued, callbacks, recvBuffer, timer, a7>>

SetCallback ==
    /\ m4 = "setCallback"
    /\ rx' = "open" /\ m4' = "sleep"
    /\ UNCHANGED <<shared, link, card, enqueued, callbacks, recvBuffer, timer, a7>>

\* Socket__Msg_Available, between any two steps of the main loop; every
\* interrupt ends the wfi.  Without rx_cb the call goes to address 0.
MsgAvailable(port) ==
    /\ port \in irq /\ rx # "none" /\ m4 # "faulted"
    /\ irq' = irq \ {port}
    /\ IF port = MSG_RECV /\ rx = "setup"
       THEN m4' = "faulted"
       ELSE m4' = IF m4 = "wfi" THEN "invoke" ELSE m4
    /\ IF port = MSG_RECV /\ rx = "open" /\ ~enqueued      \* EnqueueCallback
       THEN enqueued' = TRUE /\ callbacks' = TRUE
       ELSE UNCHANGED <<enqueued, callbacks>>
    /\ UNCHANGED <<toM4, toA7, qM4, qA7, link, card, rx, recvBuffer, timer, a7>>

TimerExpires ==
    /\ timer
    /\ timer' = FALSE
    /\ m4' = IF m4 = "wfi" THEN "invoke" ELSE m4
    /\ UNCHANGED <<shared, link, card, rx, enqueued, callbacks, recvBuffer, a7>>

\* The main loop finds no callback and sleeps, in two steps.
Wfi ==
    /\ m4 = "sleep"
    /\ m4' = "wfi"
    /\ UNCHANGED <<shared, link, card, rx, enqueued, callbacks, recvBuffer, timer, a7>>

\* Mutant: the node keeps its flag.
InvokeCallbacksStaysEnqueued ==
    /\ m4 = "invoke"
    /\ callbacks' = FALSE
    /\ m4' = IF callbacks THEN "handle" ELSE "sleep"
    /\ UNCHANGED <<shared, link, card, rx, enqueued, recvBuffer, timer, a7>>

InvokeCallbacks ==
    /\ m4 = "invoke"
    /\ enqueued' = (IF callbacks THEN FALSE ELSE enqueued)
    /\ callbacks' = FALSE
    /\ m4' = IF callbacks THEN "handle" ELSE "sleep"
    /\ UNCHANGED <<shared, link, card, rx, recvBuffer, timer, a7>>

-----------------------------------------------------------------------------
(***************************************************************************)
(* handleRecvMsg: one message a call.                                      *)
(***************************************************************************)
CheckNegotiation ==
    /\ m4 = "handle"
    /\ descriptors' = FALSE
    /\ \/ ~descriptors /\ m4' = "receive" /\ UNCHANGED <<attached, stale>>
       \/ descriptors /\ m4' = "receive" /\ attached' = TRUE /\ stale' = << >>
       \/ descriptors /\ m4' = "invoke" /\ UNCHANGED <<attached, stale>>
    /\ UNCHANGED <<shared, card, rx, enqueued, callbacks, recvBuffer, timer, a7>>

Receive ==
    /\ m4 = "receive"
    /\ \/ /\ attached /\ CanRead(toM4)
          /\ recvBuffer' = Head(qM4)
          /\ toM4' = SocketRead(toM4) /\ qM4' = Tail(qM4)
          /\ UNCHANGED stale
       \/ /\ ~attached /\ stale # << >>
          /\ recvBuffer' = Head(stale) /\ stale' = Tail(stale)
          /\ UNCHANGED <<toM4, qM4>>
    /\ m4' = recvBuffer'.type
    /\ UNCHANGED <<toA7, qA7, irq, descriptors, attached, card, rx, enqueued, callbacks,
                   timer, a7>>

NothingToReceive ==
    /\ m4 = "receive"
    /\ IF attached THEN ~CanRead(toM4) ELSE stale = << >>
    /\ m4' = "invoke"
    /\ UNCHANGED <<shared, link, card, rx, enqueued, callbacks, recvBuffer, timer, a7>>

Block == BlockOf(recvBuffer.drive, recvBuffer.sector)

HandleRead ==
    /\ m4 = "READ"
    /\ IF ~opened
       THEN /\ recvBuffer' = [recvBuffer EXCEPT !.success = FALSE, !.data = Zeros]
            /\ UNCHANGED <<selected, timer>>
       ELSE \E r \in ReadBlock(selected, blocks[Block]) :
               /\ selected' = r.selected
               /\ recvBuffer' = [recvBuffer EXCEPT !.success = r.ok,
                                                   !.data = IF r.ok THEN r.data ELSE Zeros]
               /\ timer' \in IF r.ok THEN {TRUE} ELSE BOOLEAN
    /\ m4' = "reply"
    /\ UNCHANGED <<shared, link, opened, attempts, polls, num_retries, blocks, rx, enqueued,
                   callbacks, a7>>

\* The counter of retries is static, and only a success sets it back.
HandleWrite ==
    /\ m4 = "WRITE"
    /\ IF ~opened
       THEN /\ recvBuffer' = [recvBuffer EXCEPT !.success = FALSE]
            /\ m4' = "reply"
            /\ UNCHANGED <<selected, timer, blocks, num_retries>>
       ELSE \E w \in WriteBlock(selected, blocks[Block], recvBuffer.data) :
               LET retries == w.again /\ num_retries > 0
               IN /\ selected' = w.selected
                  /\ blocks' = [blocks EXCEPT ![Block] = w.content]
                  /\ num_retries' = IF w.ok THEN NUM_WRITE_RETRIES
                                    ELSE IF retries THEN num_retries - 1 ELSE num_retries
                  /\ m4' = IF retries THEN "WRITE" ELSE "reply"
                  /\ recvBuffer' = [recvBuffer EXCEPT !.success = IF retries THEN @ ELSE w.ok]
                  /\ timer' \in IF w.ok THEN {TRUE} ELSE BOOLEAN
    /\ UNCHANGED <<shared, link, opened, attempts, polls, rx, enqueued, callbacks, a7>>

\* WriteDataToA7; a message that does not fit, or goes to the rings of an
\* application that is gone, is lost.
Reply ==
    /\ m4 = "reply"
    /\ IF attached /\ CanWrite(toA7)
       THEN toA7' = SocketWrite(toA7, recvBuffer) /\ qA7' = Append(qA7, recvBuffer)
       ELSE UNCHANGED <<toA7, qA7>>
    /\ m4' = "invoke" /\ recvBuffer' = None
    /\ UNCHANGED <<toM4, qM4, irq, link, card, rx, enqueued, callbacks, timer, a7>>

-----------------------------------------------------------------------------
(***************************************************************************)
(* The A7 application.  The kernel gives it new rings when it starts.      *)
(* Bounds: it is not started again before the descriptors of these rings   *)
(* are read, and not before the card is open, which takes no notice of it. *)
(***************************************************************************)
A7Starts ==
    /\ client = "off" /\ ~descriptors /\ starts < MaxStarts[program]
    /\ m4 \notin {"burst", "goIdle", "ifCond", "appCmd", "appOpCond", "opCond", "csd"}
    /\ starts' = starts + 1
    /\ toM4' = EmptyRing /\ qM4' = << >>
    /\ toA7' = EmptyRing /\ qA7' = << >>
    /\ descriptors' = TRUE /\ attached' = FALSE
    /\ stale' = IF attached THEN qM4 ELSE stale
    /\ client' = "idle" /\ slipped' = FALSE
    /\ request' = None /\ answer' = None
    /\ format' = [phase |-> "ready", sector |-> 0, success |-> TRUE, checked |-> FALSE]
    /\ UNCHANGED <<irq, card, loop, timer, program, kept, sent>>

Target(m) == <<m.drive, m.sector>>

\* What was promised about the sectors when m is given up.
WithoutPromise(m) ==
    IF m.type = "WRITE" THEN [kept EXCEPT ![Target(m)] = Unknown] ELSE kept

A7Stops ==
    /\ client \in {"idle", "waiting"}
    /\ client' = "off"
    /\ kept' = IF client = "waiting" THEN WithoutPromise(request) ELSE kept
    /\ answer' = None
    /\ UNCHANGED <<shared, link, card, loop, timer, program, request, format, slipped,
                   starts, sent>>

\* dx_intercorePublishThenRead returns with message m, or without one.
FormatterSees(m) ==
    format' =
        [format EXCEPT
            !.sector  = @ + 1,
            !.success = @ /\ ~( /\ format.phase = "verify" /\ m # None /\ m.success
                                /\ CalCrc(m.data) # CalCrc(Image[format.sector])),
            !.checked = @ /\ (format.phase = "verify" => m # None /\ m.success)]

Returned(m) == IF program = "formatter" THEN FormatterSees(m) ELSE UNCHANGED format

\* It sends a request, or finds the ring full and does not wait for an answer.
Publish(m) ==
    /\ client = "idle" /\ sent < MaxRequests[program]
    /\ sent' = sent + 1
    /\ request' = m /\ answer' = None
    /\ IF CanWrite(toM4)
       THEN /\ toM4' = SocketWrite(toM4, m) /\ qM4' = Append(qM4, m)
            /\ irq' = irq \cup {MSG_RECV}
            /\ client' = "waiting"
            /\ UNCHANGED <<kept, format>>
       ELSE /\ Returned(None)
            /\ UNCHANGED <<toM4, qM4, irq, client, kept>>
    /\ UNCHANGED <<toA7, qA7, link, card, loop, timer, program, slipped, starts>>

\* disk_read and writeSector.
ReadSector(drive, sector) ==
    /\ program = "emulator"
    /\ Publish([type |-> "READ", drive |-> drive, sector |-> sector,
                success |-> FALSE, data |-> Zeros])

WriteSector(drive, sector, content) ==
    /\ program = "emulator"
    /\ Publish([type |-> "WRITE", drive |-> drive, sector |-> sector,
                success |-> FALSE, data |-> content])

TakeAnswer ==
    /\ client = "waiting" /\ CanRead(toA7)
    /\ client' = "idle"
    /\ answer' = Head(qA7)
    /\ toA7' = SocketRead(toA7) /\ qA7' = Tail(qA7)
    /\ irq' = irq \cup {MSG_SENT}
    /\ kept' = IF request.type = "WRITE"
               THEN [kept EXCEPT ![Target(request)] =
                        IF answer'.success /\ ~slipped THEN request.data ELSE Unknown]
               ELSE kept
    /\ Returned(answer')
    /\ UNCHANGED <<toM4, qM4, link, card, loop, timer, program, request, slipped, starts, sent>>

\* The 10 s are over.
TimeOut ==
    /\ client = "waiting" /\ ~CanRead(toA7)
    /\ client' = "idle" /\ slipped' = TRUE
    /\ kept' = WithoutPromise(request)
    /\ Returned(None)
    /\ UNCHANGED <<shared, link, card, loop, timer, program, request, answer, starts, sent>>

-----------------------------------------------------------------------------
(***************************************************************************)
(* write_drive, at the button.  A file that cannot be opened passes.       *)
(***************************************************************************)
ButtonA ==
    /\ program = "formatter" /\ client = "idle"
    /\ format.phase \in {"ready", "passed", "failed"} /\ sent < MaxRequests[program]
    /\ \/ format' = [phase |-> "write", sector |-> 0, success |-> TRUE, checked |-> TRUE]
       \/ format' = [phase |-> "passed", sector |-> 0, success |-> TRUE, checked |-> FALSE]
    /\ UNCHANGED <<shared, link, card, loop, timer, program, client, request, answer,
                   slipped, kept, starts, sent>>

FormatSector ==
    /\ program = "formatter" /\ format.sector \in DOMAIN Image
    /\ \/ /\ format.phase = "write"
          /\ Publish([type |-> "WRITE", drive |-> FORMAT_DRIVE, sector |-> format.sector,
                      success |-> FALSE, data |-> Image[format.sector]])
       \/ /\ format.phase = "verify"
          /\ Publish([type |-> "READ", drive |-> FORMAT_DRIVE, sector |-> format.sector,
                      success |-> FALSE, data |-> Zeros])

\* Mutant: the verification starts where the writing stopped.
EndOfImageGoesOn ==
    /\ program = "formatter" /\ client = "idle" /\ format.sector \notin DOMAIN Image
    /\ \/ /\ format.phase = "write"
          /\ format' = [format EXCEPT !.phase = "verify"]
       \/ /\ format.phase = "verify"
          /\ format' = [format EXCEPT !.phase = IF format.success THEN "passed" ELSE "failed"]
    /\ UNCHANGED <<shared, link, card, loop, timer, program, client, request, answer,
                   slipped, kept, starts, sent>>

\* pread finds nothing after the last sector.
EndOfImage ==
    /\ program = "formatter" /\ client = "idle" /\ format.sector \notin DOMAIN Image
    /\ \/ /\ format.phase = "write"
          /\ format' = [format EXCEPT !.phase = "verify", !.sector = 0]
       \/ /\ format.phase = "verify"
          /\ format' = [format EXCEPT !.phase = IF format.success THEN "passed" ELSE "failed"]
    /\ UNCHANGED <<shared, link, card, loop, timer, program, client, request, answer,
                   slipped, kept, starts, sent>>

-----------------------------------------------------------------------------
M4Step ==
    \/ InitialBurst \/ GoIdleState \/ SendIfCond \/ SendOpCond \/ OpenCard
    \/ Negotiate \/ SetupInterrupts \/ SetCallback
    \/ Wfi \/ InvokeCallbacks
    \/ CheckNegotiation \/ Receive \/ NothingToReceive
    \/ HandleRead \/ HandleWrite \/ Reply

Next ==
    \/ M4Step
    \/ \E port \in {MSG_SENT, MSG_RECV} : MsgAvailable(port)
    \/ TimerExpires
    \/ A7Starts \/ A7Stops
    \/ \E t \in EmulatorSectors : ReadSector(t[1], t[2])
    \/ \E t \in EmulatorSectors, c \in Contents : WriteSector(t[1], t[2], c)
    \/ TakeAnswer \/ TimeOut
    \/ ButtonA \/ FormatSector \/ EndOfImage

Spec ==
    /\ Init /\ [][Next]_vars
    /\ WF_vars(M4Step)
    /\ \A port \in {MSG_SENT, MSG_RECV} : WF_vars(MsgAvailable(port))
    /\ WF_vars(TimerExpires)
    /\ WF_vars(TakeAnswer)

-----------------------------------------------------------------------------
(***************************************************************************)
(* Each ring is the queue of the messages sent and not read: no byte of    *)
(* one is overwritten before it is read, whatever the two indices are and  *)
(* wherever the messages wrap around (Socket_Write and Socket_Read).       *)
(***************************************************************************)
RingsHoldMessages == RingHolds(toM4, qM4) /\ RingHolds(toA7, qA7)

(***************************************************************************)
(* Until the application has given up on an answer, the answer it gets is  *)
(* to the request it has just made, across restarts of the application     *)
(* too; and a sector that is read is what was last written for that drive  *)
(* and sector, or what was there before, unless a write of it failed or    *)
(* was not answered.                                                       *)
(***************************************************************************)
AnswersAreRight ==
    answer # None /\ ~slipped =>
        /\ answer.type = request.type
        /\ Target(answer) = Target(request)
        /\ answer.type = "READ" /\ answer.success =>
               kept[Target(request)] \in {Unknown, answer.data}

(***************************************************************************)
(* A request is answered unless the application gives up first, and then   *)
(* only one of three things kept the answer away: the signal came before   *)
(* the handler was set; it came after the main loop had looked at the      *)
(* list and before it slept, and no timer was left to wake it; or new      *)
(* rings could not be negotiated.                                          *)
(***************************************************************************)
Missed ==
    \/ m4 = "faulted"
    \/ m4 = "wfi" /\ irq = {} /\ ~timer /\ (callbacks \/ ~attached)

AnsweredUnlessMissed ==
    client = "waiting" /\ ~slipped /\ rx = "open"
        ~> client # "waiting" \/ slipped \/ Missed

(***************************************************************************)
(* So, while the application waits for an answer from a service that uses  *)
(* its rings, or has their descriptors still to read, the request is on    *)
(* its way: its signal is latched, or has put the callback on the list, or *)
(* the handler runs with it, or its answer is in the ring.  No signal is   *)
(* lost to a callback that is on the list already, to one that is being    *)
(* run, or to a restart of the application.                                *)
(***************************************************************************)
RequestIsHeard ==
    client = "waiting" /\ ~slipped /\ (attached \/ descriptors) =>
        \/ MSG_RECV \in irq \/ callbacks \/ m4 \in {"handle", "faulted"}
        \/ attached /\ (m4 = "receive" \/ recvBuffer # None \/ qA7 # << >>)

(***************************************************************************)
(* When the formatter says that the verification passed, and it got an     *)
(* answer with data for every sector it asked for, the card holds for      *)
(* every sector a content with the checksum of the image's.                *)
(***************************************************************************)
VerifiedMeansWritten ==
    format.phase = "passed" /\ format.checked /\ ~slipped =>
        \A s \in DOMAIN Image :
            CalCrc(blocks[BlockOf(FORMAT_DRIVE, s)]) = CalCrc(Image[s])
=============================================================================
