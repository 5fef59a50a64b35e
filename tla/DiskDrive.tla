----------------------------- MODULE DiskDrive -----------------------------
(***************************************************************************)
(* The 88-DCDD floppy controller of the emulator (AltairHL_emulator/       *)
(* Altair8800/88dcdd.c): head position, one sector buffer per drive, and   *)
(* when a written buffer is flushed.  The guest reaches it through five    *)
(* ports, all on the CPU thread; every handler is one action.              *)
(*                                                                         *)
(* A position is a sector number, track * SECTORS_PER_TRACK + sector: the  *)
(* code's byte offset is 137 times that.  There are two builds:            *)
(* without SD_CARD_ENABLED drive 0 is a read-only file and every other     *)
(* drive is the virtual disk; with it each drive is an image on the card.  *)
(* What the media do with a sector is VirtualDisk's business; here a read  *)
(* may fail and a write may be lost.                                       *)
(* Images are apart: on the card that is so for guests that stay on the    *)
(* disk's 77 tracks, since 3000 blocks on another drive's image begins.    *)
(*                                                                         *)
(* The guest is a program that keeps to the controller's protocol: it      *)
(* transfers bytes only after it has asked for the sector number, enables  *)
(* writing right after that, writes only while the status shows ENWD, and  *)
(* reads no further than the sector.  It may stop anywhere in between.     *)
(***************************************************************************)
EXTENDS Integers

CONSTANTS
    Drives,             \* drive numbers the guest selects
    SECTOR_SIZE,        \* 137 bytes
    SECTORS_PER_TRACK,  \* 32
    UINT8_VALUES,       \* 256; sectorPointer and write_status are uint8
    TRACK_VALUES,       \* 256; so is the track counter
    FileSectors,        \* sectors of the file behind drive 0
    Builds,             \* values of SD_CARD_ENABLED
    Controls,           \* control bytes the guest sends, each a set of bits
    MaxWrites,          \* bound: sectors the guest begins to write
    MaxCalls            \* bound: handler calls the guest makes

ASSUME DriveAssumption ==
    /\ Drives \subseteq 0 .. 15
    /\ 0 \in Drives
    /\ SECTOR_SIZE \in Nat \ {0}
    /\ SECTORS_PER_TRACK \in Nat \ {0}
    /\ UINT8_VALUES \in Nat /\ UINT8_VALUES > SECTOR_SIZE + 2
    /\ TRACK_VALUES \in Nat \ {0}
    /\ Builds \subseteq BOOLEAN
    /\ MaxWrites \in Nat
    /\ MaxCalls \in Nat

VARIABLES
    SD_CARD_ENABLED,    \* fixed when the emulator is built
    currentDisk,        \* the selected drive; -1 before the first selection
    \* ---- one disk_t for drive 0, one for drive 1, one for all others
    track, sector,
    status,             \* the bits asserted; they are active low in the code
    write_status,
    diskPointer,
    sectorPointer,
    sectorData,
    sectorDirty,
    haveSectorData,
    \* ---- the media
    fileOffset,         \* of drive 0's file descriptor
    image,              \* contents of the file, the virtual disk, the cards
    \* ---- ghosts
    phase,              \* where the guest is in the protocol, per disk_t
    served,             \* the buffer was filled from the medium
    writtenAt,          \* drive and position the dirty buffer was written for
    promised,           \* the last complete sector the guest wrote
    writes,             \* sectors the guest began to write
    calls               \* handler calls so far

headVars == <<track, sector, status, write_status, diskPointer, sectorPointer,
              sectorData, sectorDirty, haveSectorData>>
ghostVars == <<phase, served, writtenAt, promised, writes>>
vars == <<SD_CARD_ENABLED, currentDisk, headVars, fileOffset, image, ghostVars,
          calls>>

\* disk_drive.disk1, disk2 and nodisk.
Disks == {"disk1", "disk2", "nodisk"}

DiskOf(drive) ==
    CASE drive = 0 -> "disk1" [] drive = 1 -> "disk2" [] OTHER -> "nodisk"

\* The disk_t the handlers work on.
current == DiskOf(currentDisk)

Tracks == 0 .. TRACK_VALUES - 1
Positions == 0 .. TRACK_VALUES * SECTORS_PER_TRACK

\* sectorData is two bytes longer than a sector.
BufferIndex == 0 .. SECTOR_SIZE + 1
SectorBytes(buffer) == [k \in 0 .. SECTOR_SIZE - 1 |-> buffer[k]]

\* A byte is the number of the write it stems from, or minus the number of the
\* sector it was on from the beginning.
Bytes == -TRACK_VALUES * SECTORS_PER_TRACK - 1 .. MaxWrites

\* The medium behind a drive: drive 0's file, the virtual disk, or a card.
FileImage == -1
VirtualImage == -2

ImageOf(drive) ==
    IF SD_CARD_ENABLED THEN drive
    ELSE IF drive = 0 THEN FileImage ELSE VirtualImage

Images == {FileImage, VirtualImage} \cup Drives

Original(s) == [k \in 0 .. SECTOR_SIZE - 1 |-> -s - 1]
NoPromise == [k \in 0 .. SECTOR_SIZE - 1 |-> 0]

Init ==
    /\ SD_CARD_ENABLED \in Builds
    /\ currentDisk = -1
    /\ track = [d \in Disks |-> 0]
    /\ sector = [d \in Disks |-> 0]
    /\ status = [d \in Disks |-> {"ENWD", "HEAD", "TRACK_0", "NRDA"}]
    /\ write_status = [d \in Disks |-> 0]
    /\ diskPointer = [d \in Disks |-> 0]
    /\ sectorPointer = [d \in Disks |-> 0]
    /\ sectorData = [d \in Disks |-> [k \in BufferIndex |-> 0]]
    /\ sectorDirty = [d \in Disks |-> FALSE]
    /\ haveSectorData = [d \in Disks |-> FALSE]
    /\ fileOffset = 0
    /\ image = [i \in Images |-> [s \in Positions |-> Original(s)]]
    /\ phase = [d \in Disks |-> "moved"]
    /\ served = [d \in Disks |-> FALSE]
    /\ writtenAt = [d \in Disks |-> <<-1, 0>>]
    /\ promised = [i \in Images |-> [s \in Positions |-> NoPromise]]
    /\ writes = 0
    /\ calls = 0

-----------------------------------------------------------------------------
(***************************************************************************)
(* Moving the head, which the handlers below share: a dirty buffer is      *)
(* flushed to where the head was (writeSector), then diskPointer moves and *)
(* the buffer is forgotten.  A flush that fails is not noticed.            *)
(***************************************************************************)
\* Mutant: drive 0 is never flushed, whatever the build.
MustFlushOthers ==
    /\ sectorDirty[current]
    /\ currentDisk # 0

MustFlush ==
    /\ sectorDirty[current]
    /\ SD_CARD_ENABLED \/ currentDisk # 0

\* Mutant: the buffer goes to the head's new position.
WriteSectorAt(position) ==
    IF MustFlush
    THEN LET i == ImageOf(currentDisk)
             s == position
         IN \/ /\ image' = [image EXCEPT ![i][s] = SectorBytes(sectorData[current])]
               /\ UNCHANGED promised
            \/ /\ promised' = [promised EXCEPT ![i][s] = NoPromise]
               /\ UNCHANGED image
    ELSE UNCHANGED <<image, promised>>

writeSector(position) ==
    IF MustFlush
    THEN LET i == ImageOf(currentDisk)
             s == diskPointer[current]
         IN \/ /\ image' = [image EXCEPT ![i][s] = SectorBytes(sectorData[current])]
               /\ UNCHANGED promised
            \/ /\ promised' = [promised EXCEPT ![i][s] = NoPromise]
               /\ UNCHANGED image
    ELSE UNCHANGED <<image, promised>>

\* Mutant: the file descriptor of drive 0 stays where it is.
MoveHeadOnly(position) ==
    /\ writeSector(position)
    /\ sectorDirty' = [sectorDirty EXCEPT ![current] = @ /\ ~MustFlush]
    /\ UNCHANGED fileOffset
    /\ diskPointer' = [diskPointer EXCEPT ![current] = position]
    /\ haveSectorData' = [haveSectorData EXCEPT ![current] = FALSE]
    /\ sectorPointer' = [sectorPointer EXCEPT ![current] = 0]

MoveHead(position) ==
    /\ writeSector(position)
    /\ sectorDirty' = [sectorDirty EXCEPT ![current] = @ /\ ~MustFlush]
    /\ fileOffset' = IF ~SD_CARD_ENABLED /\ currentDisk = 0
                     THEN position ELSE fileOffset
    /\ diskPointer' = [diskPointer EXCEPT ![current] = position]
    /\ haveSectorData' = [haveSectorData EXCEPT ![current] = FALSE]
    /\ sectorPointer' = [sectorPointer EXCEPT ![current] = 0]

-----------------------------------------------------------------------------
Call == calls < MaxCalls /\ calls' = calls + 1

\* disk_select.
Select(drive) ==
    /\ Call
    /\ currentDisk' = drive
    /\ UNCHANGED <<SD_CARD_ENABLED, headVars, fileOffset, image, ghostVars>>

\* The step bits of a control byte, in first, then out.  The track counter
\* wraps; track 0 is reported only by a step out.
SteppedIn(b) ==
    IF "STEP_IN" \in b THEN (track[current] + 1) % TRACK_VALUES ELSE track[current]

Stepped(b) ==
    IF "STEP_OUT" \in b /\ SteppedIn(b) > 0 THEN SteppedIn(b) - 1 ELSE SteppedIn(b)

\* Mutant: a step in clears TRACK_0 only when it leaves track 0 behind it.
Track0StatusLate(b) ==
    CASE "STEP_OUT" \in b /\ Stepped(b) = 0 -> {"TRACK_0"}
      [] "STEP_IN" \in b /\ track[current] # 0 -> {}
      [] OTHER -> status[current] \cap {"TRACK_0"}

Track0Status(b) ==
    CASE "STEP_OUT" \in b /\ Stepped(b) = 0 -> {"TRACK_0"}
      [] "STEP_IN" \in b /\ SteppedIn(b) # 0 -> {}
      [] OTHER -> status[current] \cap {"TRACK_0"}

HeadStatus(b) ==
    LET loaded == IF "HEAD_LOAD" \in b THEN {"HEAD", "NRDA"} ELSE {}
        kept == (status[current] \cap {"HEAD", "NRDA"}) \cup loaded
    IN  IF "HEAD_UNLOAD" \in b THEN kept \ {"HEAD"} ELSE kept

EnwdStatus(b) ==
    IF "WE" \in b THEN {"ENWD"} ELSE status[current] \cap {"ENWD"}

\* disk_function.  IE, ID and HCS do nothing.
DiskFunction(b) ==
    LET stepping == b \cap {"STEP_IN", "STEP_OUT"} # {}
    IN
    /\ Call
    /\ currentDisk # -1
    /\ "WE" \in b => phase[current] = "positioned" /\ ~stepping /\ writes < MaxWrites
    /\ track' = [track EXCEPT ![current] = Stepped(b)]
    /\ status' = [status EXCEPT ![current] =
                      Track0Status(b) \cup HeadStatus(b) \cup EnwdStatus(b)]
    /\ IF stepping
       THEN /\ sector' = [sector EXCEPT ![current] = 0]
            /\ MoveHead(Stepped(b) * SECTORS_PER_TRACK)
            /\ phase' = [phase EXCEPT ![current] = "moved"]
            /\ UNCHANGED <<write_status, writes>>
       ELSE /\ UNCHANGED <<sector, diskPointer, sectorPointer, sectorDirty,
                           haveSectorData, fileOffset, image, promised>>
            /\ IF "WE" \in b
               THEN /\ write_status' = [write_status EXCEPT ![current] = 0]
                    /\ phase' = [phase EXCEPT ![current] = "writing"]
                    /\ writes' = writes + 1
               ELSE UNCHANGED <<write_status, phase, writes>>
    /\ UNCHANGED <<SD_CARD_ENABLED, currentDisk, sectorData, served, writtenAt>>

\* sector(): the disk turns to the next sector.  The guest gets its number.
NextSector ==
    LET s == IF sector[current] = SECTORS_PER_TRACK THEN 0 ELSE sector[current]
    IN
    /\ Call
    /\ currentDisk # -1
    /\ MoveHead(track[current] * SECTORS_PER_TRACK + s)
    /\ sector' = [sector EXCEPT ![current] = s + 1]
    /\ phase' = [phase EXCEPT ![current] = "positioned"]
    /\ UNCHANGED <<SD_CARD_ENABLED, currentDisk, track, status, write_status,
                   sectorData, served, writtenAt, writes>>

-----------------------------------------------------------------------------
\* What the guest has been promised: nothing while it writes a sector, the
\* whole sector once its last byte is there.
Promise(data) ==
    promised' = [promised EXCEPT ![ImageOf(currentDisk)][diskPointer[current]] =
                     IF sectorPointer[current] = SECTOR_SIZE - 1 THEN SectorBytes(data)
                     ELSE IF sectorPointer[current] < SECTOR_SIZE THEN NoPromise ELSE @]

StoreByte(b) ==
    LET data == [sectorData[current] EXCEPT ![sectorPointer[current]] = b] IN
    /\ sectorData' = [sectorData EXCEPT ![current] = data]
    /\ sectorPointer' = [sectorPointer EXCEPT ![current] = (@ + 1) % UINT8_VALUES]
    /\ sectorDirty' = [sectorDirty EXCEPT ![current] = TRUE]
    /\ writtenAt' = [writtenAt EXCEPT ![current] = <<currentDisk, diskPointer[current]>>]
    /\ Promise(data)

\* Mutant: one byte too many before ENWD goes away.
CountByteLate ==
    IF write_status[current] = SECTOR_SIZE + 1
    THEN /\ write_status' = [write_status EXCEPT ![current] = 0]
         /\ status' = [status EXCEPT ![current] = @ \ {"ENWD"}]
    ELSE /\ write_status' = [write_status EXCEPT ![current] = @ + 1]
         /\ UNCHANGED status

CountByte ==
    IF write_status[current] = SECTOR_SIZE
    THEN /\ write_status' = [write_status EXCEPT ![current] = 0]
         /\ status' = [status EXCEPT ![current] = @ \ {"ENWD"}]
    ELSE /\ write_status' = [write_status EXCEPT ![current] = @ + 1]
         /\ UNCHANGED status

\* disk_write.  What is written to the file behind drive 0 is only counted.
DiskWrite ==
    /\ Call
    /\ currentDisk # -1
    /\ phase[current] = "writing"
    /\ "ENWD" \in status[current]
    /\ IF SD_CARD_ENABLED \/ currentDisk # 0
       THEN StoreByte(writes)
       ELSE UNCHANGED <<sectorData, sectorPointer, sectorDirty, writtenAt, promised>>
    /\ CountByte
    /\ UNCHANGED <<SD_CARD_ENABLED, currentDisk, track, sector, diskPointer,
                   haveSectorData, fileOffset, image, phase, served, writes>>

\* Filling the buffer.  Without a card a read that fails, or is past the end
\* of the file, still counts as having the sector.
Filled(content) == [k \in BufferIndex |->
                        IF k < SECTOR_SIZE THEN content[k] ELSE sectorData[current][k]]

FillFromFile ==
    /\ ~SD_CARD_ENABLED /\ currentDisk = 0
    /\ haveSectorData' = [haveSectorData EXCEPT ![current] = TRUE]
    /\ IF fileOffset \in FileSectors
       THEN /\ sectorData' = [sectorData EXCEPT ![current] =
                                  Filled(image[FileImage][fileOffset])]
            /\ fileOffset' = fileOffset + 1
            /\ served' = [served EXCEPT ![current] = TRUE]
       ELSE /\ served' = [served EXCEPT ![current] = FALSE]
            /\ UNCHANGED <<sectorData, fileOffset>>

FillFromImage ==
    /\ SD_CARD_ENABLED \/ currentDisk # 0
    /\ \/ /\ sectorData' = [sectorData EXCEPT ![current] =
                                Filled(image[ImageOf(currentDisk)][diskPointer[current]])]
          /\ haveSectorData' = [haveSectorData EXCEPT ![current] = TRUE]
          /\ served' = [served EXCEPT ![current] = TRUE]
       \/ /\ haveSectorData' = [haveSectorData EXCEPT ![current] = ~SD_CARD_ENABLED]
          /\ served' = [served EXCEPT ![current] = FALSE]
          /\ UNCHANGED sectorData
    /\ UNCHANGED fileOffset

\* disk_read.
DiskRead ==
    /\ Call
    /\ currentDisk # -1
    /\ phase[current] \in {"positioned", "reading"}
    /\ sectorPointer[current] < SECTOR_SIZE
    /\ phase' = [phase EXCEPT ![current] = "reading"]
    /\ IF haveSectorData[current]
       THEN /\ sectorPointer' = [sectorPointer EXCEPT ![current] = (@ + 1) % UINT8_VALUES]
            /\ UNCHANGED <<sectorData, haveSectorData, fileOffset, served>>
       ELSE /\ sectorPointer' = [sectorPointer EXCEPT ![current] = 1]
            /\ FillFromFile \/ FillFromImage
    /\ UNCHANGED <<SD_CARD_ENABLED, currentDisk, track, sector, status, write_status,
                   diskPointer, sectorDirty, image, writtenAt, promised, writes>>

Next ==
    \/ \E drive \in Drives : Select(drive)
    \/ \E b \in Controls : DiskFunction(b)
    \/ NextSector
    \/ DiskWrite
    \/ DiskRead

Spec == Init /\ [][Next]_vars

-----------------------------------------------------------------------------
\* A guest that trusts ENWD never makes disk_write index past sectorData,
\* which is only two bytes longer than a sector.
StaysInBuffer == \A d \in Disks : sectorPointer[d] <= SECTOR_SIZE + 1

\* A buffer that waits to be flushed goes where its bytes were written: the
\* head has not moved since, and the same drive is behind the disk_t.
FlushedWhereWritten ==
    \A drive \in Drives :
        sectorDirty[DiskOf(drive)] =>
            writtenAt[DiskOf(drive)] = <<drive, diskPointer[DiskOf(drive)]>>

\* What a sector's next reader finds: the dirty buffer if there is one for it,
\* because it is flushed first; the medium otherwise.
Effective(drive, s) ==
    LET d == DiskOf(drive)
    IN  IF sectorDirty[d] /\ diskPointer[d] = s
        THEN SectorBytes(sectorData[d])
        ELSE image[ImageOf(drive)][s]

\* A sector the guest wrote completely keeps that content until the guest
\* writes to it again, unless the medium lost the write: no seek, selection,
\* read or other write in between disturbs it.
CompleteWritesSurvive ==
    \A drive \in Drives, s \in Positions :
        LET p == promised[ImageOf(drive)][s]
        IN  p # NoPromise => Effective(drive, s) = p

\* Bytes read come from the sector under the head of the selected drive,
\* however the head got there, if the medium delivered it.
ReadsSectorUnderHead ==
    \A drive \in Drives :
        LET d == DiskOf(drive)
        IN  haveSectorData[d] /\ served[d] =>
                SectorBytes(sectorData[d]) = image[ImageOf(drive)][diskPointer[d]]

\* TRACK_0 is reported on track 0 only, even after the track counter wrapped:
\* a guest that steps out until it sees TRACK_0 is there.
Track0IsTrack0 == \A d \in Disks : "TRACK_0" \in status[d] => track[d] = 0
=============================================================================
