-------------------------- MODULE DiskDriveProofs --------------------------
(***************************************************************************)
(* The 88-DCDD controller for every sector size, number of tracks, build   *)
(* and guest that keeps to the protocol.  Nothing of the sector buffer is  *)
(* inductive by itself: where the buffer's bytes belong depends on whether *)
(* the guest is reading or writing (BufferInUse), on how far it has come   *)
(* (Counted), and, for the file behind drive 0, on its file descriptor     *)
(* (FileFollowsHead).                                                      *)
(*                                                                         *)
(* All drives from 2 up share nodisk, and without the SD card all drives   *)
(* from 1 up share the virtual disk.  What is said of a drive's sectors    *)
(* therefore is said of drives that share neither.                         *)
(***************************************************************************)
EXTENDS DiskDrive, TLAPS

OneDrivePerDisk ==
    \A a, b \in Drives : DiskOf(a) = DiskOf(b) => a = b

OneDrivePerMedium ==
    FALSE \in Builds => \A a, b \in Drives \ {0} : a = b

Contents == [0 .. SECTOR_SIZE - 1 -> Bytes]

Typed ==
    /\ SD_CARD_ENABLED \in Builds
    /\ currentDisk \in Drives \cup {-1}
    /\ track \in [Disks -> Tracks]
    /\ sector \in [Disks -> 0 .. SECTORS_PER_TRACK]
    /\ status \in [Disks -> SUBSET {"ENWD", "HEAD", "TRACK_0", "NRDA"}]
    /\ write_status \in [Disks -> 0 .. SECTOR_SIZE]
    /\ diskPointer \in [Disks -> Positions]
    /\ sectorPointer \in [Disks -> 0 .. SECTOR_SIZE + 1]
    /\ sectorData \in [Disks -> [BufferIndex -> Bytes]]
    /\ sectorDirty \in [Disks -> BOOLEAN]
    /\ haveSectorData \in [Disks -> BOOLEAN]
    /\ fileOffset \in Int
    /\ image \in [Images -> [Positions -> Contents]]
    /\ promised \in [Images -> [Positions -> Contents]]
    /\ phase \in [Disks -> {"moved", "positioned", "reading", "writing"}]
    /\ served \in [Disks -> BOOLEAN]
    /\ writtenAt \in [Disks -> (Drives \cup {-1}) \X Positions]
    /\ writes \in 0 .. MaxWrites

\* How far the guest has come in the buffer.
Counted ==
    \A d \in Disks :
        /\ phase[d] \in {"moved", "positioned"} => sectorPointer[d] = 0
        /\ phase[d] = "reading" => sectorPointer[d] <= SECTOR_SIZE
        /\ phase[d] = "writing" /\ "ENWD" \in status[d]
             => sectorPointer[d] <= write_status[d]

\* The buffer holds a sector only for a guest that reads and bytes to flush only
\* from one that writes, once it has written one; bytes for the file behind drive 0
\* are never flushed.
BufferInUse ==
    /\ \A d \in Disks : haveSectorData[d] => phase[d] = "reading"
    /\ \A d \in Disks : sectorDirty[d] => phase[d] = "writing"
    /\ \A d \in Disks : phase[d] = "writing" /\ sectorPointer[d] # 0 => sectorDirty[d]
    /\ ~SD_CARD_ENABLED => ~sectorDirty["disk1"]

\* The next read of the file behind drive 0 finds the sector under the head.
FileFollowsHead ==
    ~SD_CARD_ENABLED /\ ~haveSectorData["disk1"] => fileOffset = diskPointer["disk1"]

DriveInv == Typed /\ Counted /\ BufferInUse /\ FileFollowsHead /\ Track0IsTrack0

-----------------------------------------------------------------------------
LEMMA CurrentFacts ==
    ASSUME Typed, currentDisk # -1
    PROVE  /\ currentDisk \in Drives
           /\ current \in Disks
           /\ ImageOf(currentDisk) \in Images
           /\ current = "disk1" <=> currentDisk = 0
  BY DriveAssumption DEF Typed, current, DiskOf, Disks, ImageOf, Images, FileImage,
     VirtualImage

\* The product that a position is made of.
LEMMA TrackTimes ==
    ASSUME NEW t \in Nat, NEW n \in Nat, NEW m \in Nat, t < n
    PROVE  /\ t * m \in Nat /\ n * m \in Nat
           /\ t * m + m <= n * m
  <1>1. (t + 1) * m <= n * m
    BY Z3
  <1>2. (t + 1) * m = t * m + m
    OBVIOUS
  <1> QED
    BY <1>1, <1>2

LEMMA PositionFacts ==
    ASSUME NEW t \in Tracks, NEW s \in 0 .. SECTORS_PER_TRACK
    PROVE  t * SECTORS_PER_TRACK + s \in Positions
  <1>1. /\ t * SECTORS_PER_TRACK \in Nat
        /\ TRACK_VALUES * SECTORS_PER_TRACK \in Nat
        /\ t * SECTORS_PER_TRACK + SECTORS_PER_TRACK <= TRACK_VALUES * SECTORS_PER_TRACK
    BY TrackTimes, DriveAssumption DEF Tracks
  <1> QED
    BY <1>1, DriveAssumption DEF Positions

LEMMA SectorBytesFacts ==
    ASSUME NEW buffer \in [BufferIndex -> Bytes]
    PROVE  SectorBytes(buffer) \in Contents
  BY DriveAssumption DEF BufferIndex, SectorBytes, Contents

\* A filled buffer holds the sector.
LEMMA FilledFacts ==
    ASSUME Typed, current \in Disks, NEW content \in Contents
    PROVE  /\ Filled(content) \in [BufferIndex -> Bytes]
           /\ SectorBytes(Filled(content)) = content
  <1>1. sectorData[current] \in [BufferIndex -> Bytes]
    BY DEF Typed
  <1>2. Filled(content) \in [BufferIndex -> Bytes]
    BY <1>1, DriveAssumption DEF Filled, BufferIndex, Contents
  <1>3. SectorBytes(Filled(content)) = content
    BY DriveAssumption DEF SectorBytes, Filled, BufferIndex, Contents
  <1> QED
    BY <1>2, <1>3

LEMMA OriginalFacts ==
    /\ 0 \in Positions /\ 0 \in Bytes /\ NoPromise \in Contents
    /\ \A s \in Positions : Original(s) \in Contents
  <1>1. TRACK_VALUES * SECTORS_PER_TRACK \in Nat
    BY TrackTimes, DriveAssumption
  <1>2. 0 \in Positions /\ 0 \in Bytes
    BY <1>1, DriveAssumption DEF Positions, Bytes
  <1>3. NoPromise \in Contents
    BY <1>2 DEF NoPromise, Contents
  <1>4. ASSUME NEW s \in Positions PROVE -s - 1 \in Bytes
    BY <1>1, DriveAssumption DEF Positions, Bytes
  <1>5. \A s \in Positions : Original(s) \in Contents
    BY <1>4 DEF Original, Contents
  <1> QED
    BY <1>2, <1>3, <1>5

-----------------------------------------------------------------------------
LEMMA DriveInit == Init => DriveInv
  <1> SUFFICES ASSUME Init PROVE DriveInv
    OBVIOUS
  <1>1. Typed
    BY OriginalFacts, DriveAssumption DEF Init, Typed, Disks, Tracks
  <1>2. Counted /\ BufferInUse /\ FileFollowsHead /\ Track0IsTrack0
    BY DEF Init, Counted, BufferInUse, FileFollowsHead, Track0IsTrack0, Disks
  <1> QED
    BY <1>1, <1>2 DEF DriveInv

\* Moving the head leaves a clean buffer that holds nothing.
LEMMA MoveHeadClears ==
    ASSUME Typed, BufferInUse, currentDisk # -1, NEW position \in Positions,
           MoveHead(position)
    PROVE  /\ diskPointer' = [diskPointer EXCEPT ![current] = position]
           /\ sectorPointer' = [sectorPointer EXCEPT ![current] = 0]
           /\ sectorDirty' = [sectorDirty EXCEPT ![current] = FALSE]
           /\ haveSectorData' = [haveSectorData EXCEPT ![current] = FALSE]
           /\ fileOffset' = IF ~SD_CARD_ENABLED /\ current = "disk1"
                            THEN position ELSE fileOffset
  <1>1. sectorDirty[current] => MustFlush
    BY CurrentFacts DEF MustFlush, BufferInUse
  <1>2. current \in Disks /\ sectorDirty \in [Disks -> BOOLEAN]
    BY CurrentFacts DEF Typed
  <1>3. (sectorDirty[current] /\ ~MustFlush) = FALSE
    BY <1>1
  <1>4. sectorDirty' = [sectorDirty EXCEPT ![current] = sectorDirty[current] /\ ~MustFlush]
    BY DEF MoveHead
  <1>5. sectorDirty' = [sectorDirty EXCEPT ![current] = FALSE]
    BY <1>3, <1>4
  <1>6. fileOffset' = IF ~SD_CARD_ENABLED /\ current = "disk1"
                      THEN position ELSE fileOffset
    BY CurrentFacts DEF MoveHead
  <1> QED
    BY <1>5, <1>6 DEF MoveHead

\* One sector of one medium replaced.
LEMMA UpdateFacts ==
    ASSUME NEW I, NEW S, NEW C, NEW f \in [I -> [S -> C]], NEW i \in I, NEW s \in S,
           NEW c \in C, NEW g, g = [f EXCEPT ![i][s] = c]
    PROVE  /\ g \in [I -> [S -> C]]
           /\ g[i][s] = c
           /\ \A j \in I, t \in S : j # i \/ t # s => g[j][t] = f[j][t]
  <1> DEFINE new == [f[i] EXCEPT ![s] = c]
  <1>1. g = [f EXCEPT ![i] = new]
    OBVIOUS
  <1>2. new \in [S -> C] /\ new[s] = c /\ \A t \in S \ {s} : new[t] = f[i][t]
    OBVIOUS
  <1> HIDE DEF new
  <1>3. g \in [I -> [S -> C]] /\ g[i] = new /\ \A j \in I \ {i} : g[j] = f[j]
    BY <1>1, <1>2
  <1> QED
    BY <1>2, <1>3

\* What a flush does to the medium and to the promises.
LEMMA FlushTyped ==
    ASSUME Typed, currentDisk # -1, NEW position, writeSector(position)
    PROVE  /\ image' \in [Images -> [Positions -> Contents]]
           /\ promised' \in [Images -> [Positions -> Contents]]
  <1> DEFINE i == ImageOf(currentDisk)
             s == diskPointer[current]
             new == SectorBytes(sectorData[current])
  <1>1. i \in Images /\ s \in Positions /\ new \in Contents /\ NoPromise \in Contents
    BY CurrentFacts, SectorBytesFacts, OriginalFacts DEF Typed
  <1>2. /\ image \in [Images -> [Positions -> Contents]]
        /\ promised \in [Images -> [Positions -> Contents]]
    BY DEF Typed
  <1>3. /\ image' = image \/ image' = [image EXCEPT ![i][s] = new]
        /\ promised' = promised \/ promised' = [promised EXCEPT ![i][s] = NoPromise]
    BY DEF writeSector
  <1> HIDE DEF i, s, new
  <1>4. [image EXCEPT ![i][s] = new] \in [Images -> [Positions -> Contents]]
    BY <1>1, <1>2, UpdateFacts
  <1>5. [promised EXCEPT ![i][s] = NoPromise] \in [Images -> [Positions -> Contents]]
    BY <1>1, <1>2, UpdateFacts
  <1> QED
    BY <1>2, <1>3, <1>4, <1>5

LEMMA Track0Facts ==
    ASSUME Typed, Track0IsTrack0, currentDisk # -1, NEW b
    PROVE  /\ Stepped(b) \in Tracks
           /\ Track0Status(b) \subseteq {"TRACK_0"}
           /\ "TRACK_0" \in Track0Status(b) => Stepped(b) = 0
  <1> DEFINE t == track[current]
             in == SteppedIn(b)
  <1>1. t \in Tracks /\ ("TRACK_0" \in status[current] => t = 0)
    BY CurrentFacts DEF Typed, Track0IsTrack0
  <1>2. in \in Tracks
    BY <1>1, DriveAssumption DEF SteppedIn, Tracks
  <1>3. Stepped(b) \in Tracks
    BY <1>2, DriveAssumption DEF Stepped, Tracks
  <1>4. CASE "STEP_OUT" \in b /\ Stepped(b) = 0
    BY <1>3, <1>4 DEF Track0Status
  <1>5. CASE /\ ~("STEP_OUT" \in b /\ Stepped(b) = 0)
             /\ "STEP_IN" \in b /\ in # 0
    BY <1>3, <1>5, Zenon DEF Track0Status
  <1>6. CASE /\ ~("STEP_OUT" \in b /\ Stepped(b) = 0)
             /\ ~("STEP_IN" \in b /\ in # 0)
    <2>1. Track0Status(b) = status[current] \cap {"TRACK_0"}
      BY <1>6, Zenon DEF Track0Status
    <2>2. "TRACK_0" \in status[current] => Stepped(b) = 0
      <3> SUFFICES ASSUME t = 0 PROVE Stepped(b) = 0
        BY <1>1
      <3>1. in = 0
        BY <1>6 DEF SteppedIn
      <3> QED
        BY <3>1 DEF Stepped
    <2> QED
      BY <1>3, <2>1, <2>2
  <1> QED
    BY <1>4, <1>5, <1>6

\* The status bits a control byte leaves.
LEMMA StatusFacts ==
    ASSUME Typed, Track0IsTrack0, currentDisk # -1, NEW b,
           NEW new, new = Track0Status(b) \cup HeadStatus(b) \cup EnwdStatus(b)
    PROVE  /\ new \in SUBSET {"ENWD", "HEAD", "TRACK_0", "NRDA"}
           /\ "TRACK_0" \in new => Stepped(b) = 0
           /\ "ENWD" \in new /\ "WE" \notin b => "ENWD" \in status[current]
  <1>1. HeadStatus(b) \subseteq {"HEAD", "NRDA"}
    BY DEF HeadStatus
  <1>2. EnwdStatus(b) \subseteq {"ENWD"}
        /\ ("ENWD" \in EnwdStatus(b) /\ "WE" \notin b => "ENWD" \in status[current])
    BY DEF EnwdStatus
  <1>3. Track0Status(b) \subseteq {"TRACK_0"}
        /\ ("TRACK_0" \in Track0Status(b) => Stepped(b) = 0)
    BY Track0Facts
  <1> QED
    BY <1>1, <1>2, <1>3

-----------------------------------------------------------------------------
(***************************************************************************)
(* What holds of every drive, shared or not.                               *)
(***************************************************************************)
LEMMA SelectKeepsDrive ==
    ASSUME DriveInv, NEW drive \in Drives, Select(drive)
    PROVE  DriveInv'
  <1> USE DEF DriveInv, Select, headVars, ghostVars
  <1>1. Typed'
    BY DEF Typed
  <1>2. Counted' /\ BufferInUse' /\ FileFollowsHead' /\ Track0IsTrack0'
    BY DEF Counted, BufferInUse, FileFollowsHead, Track0IsTrack0
  <1> QED
    BY <1>1, <1>2

\* A step that moves the head, by a seek or by the turning of the disk.
LEMMA MoveKeepsDrive ==
    ASSUME DriveInv, currentDisk # -1, NEW position \in Positions, MoveHead(position),
           NEW p \in {"moved", "positioned"}, phase' = [phase EXCEPT ![current] = p],
           UNCHANGED <<SD_CARD_ENABLED, currentDisk, write_status, sectorData, served,
                       writtenAt, writes>>,
           track' \in [Disks -> Tracks],
           sector' \in [Disks -> 0 .. SECTORS_PER_TRACK],
           status' \in [Disks -> SUBSET {"ENWD", "HEAD", "TRACK_0", "NRDA"}],
           \A d \in Disks \ {current} : status'[d] = status[d]
    PROVE  Typed' /\ Counted' /\ BufferInUse' /\ FileFollowsHead'
  <1> DEFINE c == current
  <1>1. /\ c \in Disks
        /\ diskPointer' = [diskPointer EXCEPT ![c] = position]
        /\ sectorPointer' = [sectorPointer EXCEPT ![c] = 0]
        /\ sectorDirty' = [sectorDirty EXCEPT ![c] = FALSE]
        /\ haveSectorData' = [haveSectorData EXCEPT ![c] = FALSE]
        /\ fileOffset' = IF ~SD_CARD_ENABLED /\ c = "disk1" THEN position ELSE fileOffset
    BY MoveHeadClears, CurrentFacts DEF DriveInv
  <1>2. /\ image' \in [Images -> [Positions -> Contents]]
        /\ promised' \in [Images -> [Positions -> Contents]]
    BY FlushTyped DEF DriveInv, MoveHead
  <1> HIDE DEF c
  <1>3. phase' = [phase EXCEPT ![c] = p] /\ \A d \in Disks \ {c} : status'[d] = status[d]
    BY DEF c
  <1>4. position \in Int
    BY TrackTimes, DriveAssumption DEF Positions
  <1>5. Typed'
    <2>1. /\ diskPointer' \in [Disks -> Positions]
          /\ sectorPointer' \in [Disks -> 0 .. SECTOR_SIZE + 1]
      BY <1>1, DriveAssumption DEF DriveInv, Typed
    <2>2. sectorDirty' \in [Disks -> BOOLEAN] /\ haveSectorData' \in [Disks -> BOOLEAN]
      BY <1>1 DEF DriveInv, Typed
    <2>3. phase' \in [Disks -> {"moved", "positioned", "reading", "writing"}]
      BY <1>1, <1>3 DEF DriveInv, Typed
    <2>4. fileOffset' \in Int
      BY <1>1, <1>4 DEF DriveInv, Typed
    <2> QED
      BY <1>2, <2>1, <2>2, <2>3, <2>4 DEF DriveInv, Typed
  <1>6. Counted' /\ BufferInUse'
    BY <1>1, <1>3 DEF DriveInv, Typed, Counted, BufferInUse
  <1>7. FileFollowsHead'
    BY <1>1 DEF DriveInv, Typed, FileFollowsHead, Disks
  <1> QED
    BY <1>5, <1>6, <1>7

LEMMA FunctionKeepsDrive ==
    ASSUME DriveInv, NEW b, DiskFunction(b)
    PROVE  DriveInv'
  <1> DEFINE c == current
             stepping == b \cap {"STEP_IN", "STEP_OUT"} # {}
             new == Track0Status(b) \cup HeadStatus(b) \cup EnwdStatus(b)
  <1>1. /\ c \in Disks /\ currentDisk # -1
        /\ track' = [track EXCEPT ![c] = Stepped(b)]
        /\ status' = [status EXCEPT ![c] = new]
    BY CurrentFacts DEF DriveInv, DiskFunction
  <1>2. /\ Stepped(b) \in Tracks
        /\ new \in SUBSET {"ENWD", "HEAD", "TRACK_0", "NRDA"}
        /\ "TRACK_0" \in new => Stepped(b) = 0
        /\ "ENWD" \in new /\ "WE" \notin b => "ENWD" \in status[c]
    BY <1>1, StatusFacts, Track0Facts DEF DriveInv
  <1>3. UNCHANGED <<SD_CARD_ENABLED, currentDisk, sectorData, served, writtenAt>>
    BY DEF DiskFunction
  <1> HIDE DEF new
  <1>4. /\ track' \in [Disks -> Tracks]
        /\ status' \in [Disks -> SUBSET {"ENWD", "HEAD", "TRACK_0", "NRDA"}]
        /\ \A d \in Disks \ {c} : status'[d] = status[d]
    BY <1>1, <1>2 DEF DriveInv, Typed
  <1>5. Track0IsTrack0'
    BY <1>1, <1>2 DEF DriveInv, Typed, Track0IsTrack0
  <1>6. CASE stepping
    <2>1. /\ sector' = [sector EXCEPT ![c] = 0]
          /\ MoveHead(Stepped(b) * SECTORS_PER_TRACK)
          /\ phase' = [phase EXCEPT ![c] = "moved"]
          /\ UNCHANGED <<write_status, writes>>
      BY <1>6 DEF DiskFunction
    <2>2. Stepped(b) * SECTORS_PER_TRACK + 0 \in Positions
      BY <1>2, PositionFacts, DriveAssumption
    <2>3. Stepped(b) * SECTORS_PER_TRACK \in Positions
      BY <1>2, <2>2, TrackTimes, DriveAssumption DEF Tracks
    <2>4. sector' \in [Disks -> 0 .. SECTORS_PER_TRACK]
      BY <1>1, <2>1, DriveAssumption DEF DriveInv, Typed
    <2>5. Typed' /\ Counted' /\ BufferInUse' /\ FileFollowsHead'
      BY <1>1, <1>3, <1>4, <2>1, <2>3, <2>4, MoveKeepsDrive
    <2> QED
      BY <1>5, <2>5 DEF DriveInv
  <1>7. CASE ~stepping
    <2>1. UNCHANGED <<sector, diskPointer, sectorPointer, sectorDirty, haveSectorData,
                      fileOffset, image, promised>>
      BY <1>7 DEF DiskFunction
    <2>2. CASE "WE" \in b
      <3>1. /\ phase[c] = "positioned" /\ writes < MaxWrites
            /\ write_status' = [write_status EXCEPT ![c] = 0]
            /\ phase' = [phase EXCEPT ![c] = "writing"]
            /\ writes' = writes + 1
        BY <1>7, <2>2 DEF DiskFunction
      <3>2. Typed'
        BY <1>1, <1>3, <1>4, <2>1, <3>1, DriveAssumption DEF DriveInv, Typed
      <3>3. Counted' /\ BufferInUse' /\ FileFollowsHead'
        BY <1>1, <1>3, <1>4, <2>1, <3>1, DriveAssumption
           DEF DriveInv, Typed, Counted, BufferInUse, FileFollowsHead
      <3> QED
        BY <1>5, <3>2, <3>3 DEF DriveInv
    <2>3. CASE "WE" \notin b
      <3>1. UNCHANGED <<write_status, phase, writes>>
        BY <1>7, <2>3 DEF DiskFunction
      <3>2. Typed'
        BY <1>1, <1>3, <1>4, <2>1, <3>1 DEF DriveInv, Typed
      <3>3. Counted'
        BY <1>1, <1>2, <2>1, <2>3, <3>1 DEF DriveInv, Typed, Counted
      <3>4. BufferInUse' /\ FileFollowsHead'
        BY <1>3, <2>1, <3>1 DEF DriveInv, BufferInUse, FileFollowsHead
      <3> QED
        BY <1>5, <3>2, <3>3, <3>4 DEF DriveInv
    <2> QED
      BY <2>2, <2>3
  <1> QED
    BY <1>6, <1>7

LEMMA NextSectorKeepsDrive ==
    ASSUME DriveInv, NextSector
    PROVE  DriveInv'
  <1> DEFINE c == current
             s == IF sector[c] = SECTORS_PER_TRACK THEN 0 ELSE sector[c]
             position == track[c] * SECTORS_PER_TRACK + s
  <1>1. /\ c \in Disks /\ currentDisk # -1
        /\ track[c] \in Tracks /\ sector[c] \in 0 .. SECTORS_PER_TRACK
    BY CurrentFacts DEF DriveInv, NextSector, Typed
  <1>2. s \in 0 .. SECTORS_PER_TRACK /\ s + 1 \in 0 .. SECTORS_PER_TRACK
    BY <1>1, DriveAssumption
  <1>3. position \in Positions
    BY <1>1, <1>2, PositionFacts
  <1>4. /\ MoveHead(position)
        /\ sector' = [sector EXCEPT ![c] = s + 1]
        /\ phase' = [phase EXCEPT ![c] = "positioned"]
        /\ UNCHANGED <<SD_CARD_ENABLED, currentDisk, track, status, write_status,
                       sectorData, served, writtenAt, writes>>
    BY DEF NextSector
  <1> HIDE DEF s, position
  <1>5. /\ sector' \in [Disks -> 0 .. SECTORS_PER_TRACK]
        /\ track' \in [Disks -> Tracks]
        /\ status' \in [Disks -> SUBSET {"ENWD", "HEAD", "TRACK_0", "NRDA"}]
    BY <1>1, <1>2, <1>4 DEF DriveInv, Typed
  <1>6. Typed' /\ Counted' /\ BufferInUse' /\ FileFollowsHead'
    BY <1>1, <1>3, <1>4, <1>5, MoveKeepsDrive
  <1>7. Track0IsTrack0'
    BY <1>4 DEF DriveInv, Track0IsTrack0
  <1> QED
    BY <1>6, <1>7 DEF DriveInv

\* What disk_write does to the buffer of a drive that can be written.
LEMMA StoreByteFacts ==
    ASSUME Typed, currentDisk # -1, phase[current] = "writing",
           sectorPointer[current] <= SECTOR_SIZE, StoreByte(writes)
    PROVE  \E data \in [BufferIndex -> Bytes] :
             /\ sectorData' = [sectorData EXCEPT ![current] = data]
             /\ sectorPointer' = [sectorPointer EXCEPT ![current] = sectorPointer[current] + 1]
             /\ sectorDirty' = [sectorDirty EXCEPT ![current] = TRUE]
             /\ writtenAt' = [writtenAt EXCEPT ![current] =
                                  <<currentDisk, diskPointer[current]>>]
             /\ promised' = [promised EXCEPT ![ImageOf(currentDisk)][diskPointer[current]] =
                    IF sectorPointer[current] = SECTOR_SIZE - 1 THEN SectorBytes(data)
                    ELSE IF sectorPointer[current] < SECTOR_SIZE THEN NoPromise ELSE @]
             /\ sectorPointer[current] = SECTOR_SIZE =>
                    SectorBytes(data) = SectorBytes(sectorData[current])
  <1> DEFINE c == current
             n == sectorPointer[c]
             data == [sectorData[c] EXCEPT ![n] = writes]
  <1>1. c \in Disks /\ n \in 0 .. SECTOR_SIZE /\ sectorData[c] \in [BufferIndex -> Bytes]
    BY CurrentFacts DEF Typed
  <1>2. writes \in Bytes
    <2>1. TRACK_VALUES * SECTORS_PER_TRACK \in Nat
      BY TrackTimes, DriveAssumption
    <2>2. -TRACK_VALUES * SECTORS_PER_TRACK - 1 <= 0
      BY <2>1, DriveAssumption
    <2> QED
      BY <2>2, DriveAssumption DEF Typed, Bytes
  <1>3. data \in [BufferIndex -> Bytes]
    BY <1>1, <1>2, DriveAssumption DEF BufferIndex
  <1>4. n = SECTOR_SIZE => SectorBytes(data) = SectorBytes(sectorData[c])
    BY <1>1, DriveAssumption DEF SectorBytes, BufferIndex
  <1>5. (n + 1) % UINT8_VALUES = n + 1
    BY <1>1, DriveAssumption
  <1>6. /\ sectorData' = [sectorData EXCEPT ![c] = data]
        /\ sectorPointer' = [sectorPointer EXCEPT ![c] = (n + 1) % UINT8_VALUES]
        /\ sectorDirty' = [sectorDirty EXCEPT ![c] = TRUE]
        /\ writtenAt' = [writtenAt EXCEPT ![c] = <<currentDisk, diskPointer[c]>>]
        /\ promised' = [promised EXCEPT ![ImageOf(currentDisk)][diskPointer[c]] =
                    IF n = SECTOR_SIZE - 1 THEN SectorBytes(data)
                    ELSE IF n < SECTOR_SIZE THEN NoPromise ELSE @]
    BY DEF StoreByte, Promise
  <1> QED
    BY <1>3, <1>4, <1>5, <1>6

\* The promise that goes with a stored byte is a sector.
LEMMA PromiseTyped ==
    ASSUME Typed, currentDisk # -1, NEW data \in [BufferIndex -> Bytes],
           promised' = [promised EXCEPT ![ImageOf(currentDisk)][diskPointer[current]] =
                    IF sectorPointer[current] = SECTOR_SIZE - 1 THEN SectorBytes(data)
                    ELSE IF sectorPointer[current] < SECTOR_SIZE THEN NoPromise ELSE @]
    PROVE  /\ promised' \in [Images -> [Positions -> Contents]]
           /\ promised'[ImageOf(currentDisk)][diskPointer[current]] =
                IF sectorPointer[current] = SECTOR_SIZE - 1 THEN SectorBytes(data)
                ELSE IF sectorPointer[current] < SECTOR_SIZE THEN NoPromise
                ELSE promised[ImageOf(currentDisk)][diskPointer[current]]
           /\ \A j \in Images, t \in Positions :
                j # ImageOf(currentDisk) \/ t # diskPointer[current]
                  => promised'[j][t] = promised[j][t]
  <1> DEFINE i == ImageOf(currentDisk)
             s == diskPointer[current]
             n == sectorPointer[current]
             new == IF n = SECTOR_SIZE - 1 THEN SectorBytes(data)
                    ELSE IF n < SECTOR_SIZE THEN NoPromise ELSE promised[i][s]
  <1>1. i \in Images /\ s \in Positions /\ promised \in [Images -> [Positions -> Contents]]
    BY CurrentFacts DEF Typed
  <1>2. new \in Contents
    BY <1>1, SectorBytesFacts, OriginalFacts
  <1>3. promised' = [promised EXCEPT ![i][s] = new]
    BY <1>1
  <1> HIDE DEF i, s, new
  <1>4. /\ promised' \in [Images -> [Positions -> Contents]]
        /\ promised'[i][s] = new
        /\ \A j \in Images, t \in Positions :
             j # i \/ t # s => promised'[j][t] = promised[j][t]
    <2> DEFINE g == [promised EXCEPT ![i][s] = new]
    <2>1. /\ g \in [Images -> [Positions -> Contents]]
          /\ g[i][s] = new
          /\ \A j \in Images, t \in Positions :
               j # i \/ t # s => g[j][t] = promised[j][t]
      BY <1>1, <1>2, UpdateFacts
    <2>2. promised' = g
      BY <1>3
    <2> HIDE DEF g
    <2> QED
      BY <2>1, <2>2
  <1> QED
    BY <1>4 DEF i, s, new

LEMMA CountByteFacts ==
    ASSUME Typed, current \in Disks, CountByte
    PROVE  /\ write_status' \in [Disks -> 0 .. SECTOR_SIZE]
           /\ status' \in [Disks -> SUBSET {"ENWD", "HEAD", "TRACK_0", "NRDA"}]
           /\ \A d \in Disks : status'[d] \subseteq status[d]
           /\ \A d \in Disks \ {current} : write_status'[d] = write_status[d]
           /\ "ENWD" \in status'[current] =>
                write_status'[current] = write_status[current] + 1
  <1>1. /\ status \in [Disks -> SUBSET {"ENWD", "HEAD", "TRACK_0", "NRDA"}]
        /\ write_status \in [Disks -> 0 .. SECTOR_SIZE]
    BY DEF Typed
  <1>2. CASE write_status[current] = SECTOR_SIZE
    <2>1. /\ write_status' = [write_status EXCEPT ![current] = 0]
          /\ status' = [status EXCEPT ![current] = status[current] \ {"ENWD"}]
      BY <1>2 DEF CountByte
    <2> QED
      BY <1>1, <2>1, DriveAssumption
  <1>3. CASE write_status[current] # SECTOR_SIZE
    <2>1. /\ write_status' = [write_status EXCEPT ![current] = write_status[current] + 1]
          /\ UNCHANGED status
      BY <1>3 DEF CountByte
    <2> QED
      BY <1>1, <1>3, <2>1, DriveAssumption
  <1> QED
    BY <1>2, <1>3

LEMMA WriteKeepsDrive ==
    ASSUME DriveInv, DiskWrite
    PROVE  DriveInv'
  <1> DEFINE c == current
  <1>1. /\ c \in Disks /\ currentDisk # -1
        /\ phase[c] = "writing" /\ "ENWD" \in status[c]
        /\ sectorPointer[c] <= write_status[c] /\ write_status[c] \in 0 .. SECTOR_SIZE
        /\ sectorPointer[c] \in Nat
    BY CurrentFacts DEF DriveInv, DiskWrite, Counted, Typed
  <1>2. /\ write_status' \in [Disks -> 0 .. SECTOR_SIZE]
        /\ status' \in [Disks -> SUBSET {"ENWD", "HEAD", "TRACK_0", "NRDA"}]
        /\ \A d \in Disks : status'[d] \subseteq status[d]
        /\ \A d \in Disks \ {c} : write_status'[d] = write_status[d]
        /\ "ENWD" \in status'[c] => write_status'[c] = write_status[c] + 1
    BY <1>1, CountByteFacts DEF DriveInv, DiskWrite
  <1>3. UNCHANGED <<SD_CARD_ENABLED, currentDisk, track, sector, diskPointer,
                    haveSectorData, fileOffset, image, phase, served, writes>>
    BY DEF DiskWrite
  <1>4. Track0IsTrack0'
    BY <1>2, <1>3 DEF DriveInv, Track0IsTrack0
  <1>5. CASE SD_CARD_ENABLED \/ currentDisk # 0
    <2>1. PICK data \in [BufferIndex -> Bytes] :
             /\ sectorData' = [sectorData EXCEPT ![c] = data]
             /\ sectorPointer' = [sectorPointer EXCEPT ![c] = sectorPointer[c] + 1]
             /\ sectorDirty' = [sectorDirty EXCEPT ![c] = TRUE]
             /\ writtenAt' = [writtenAt EXCEPT ![c] = <<currentDisk, diskPointer[c]>>]
             /\ promised' = [promised EXCEPT ![ImageOf(currentDisk)][diskPointer[c]] =
                    IF sectorPointer[c] = SECTOR_SIZE - 1 THEN SectorBytes(data)
                    ELSE IF sectorPointer[c] < SECTOR_SIZE THEN NoPromise ELSE @]
      <3>1. StoreByte(writes)
        BY <1>5 DEF DiskWrite
      <3>2. sectorPointer[c] <= SECTOR_SIZE
        BY <1>1, DriveAssumption
      <3> QED
        BY <1>1, <3>1, <3>2, StoreByteFacts DEF DriveInv
    <2>2. promised' \in [Images -> [Positions -> Contents]]
      BY <1>1, <2>1, PromiseTyped DEF DriveInv
    <2>3. /\ sectorData' \in [Disks -> [BufferIndex -> Bytes]]
          /\ sectorDirty' \in [Disks -> BOOLEAN]
      BY <1>1, <2>1 DEF DriveInv, Typed
    <2>4. sectorPointer' \in [Disks -> 0 .. SECTOR_SIZE + 1]
      BY <1>1, <2>1, DriveAssumption DEF DriveInv, Typed
    <2>5. writtenAt' \in [Disks -> (Drives \cup {-1}) \X Positions]
      BY <1>1, <2>1, CurrentFacts DEF DriveInv, Typed
    <2>6. Typed'
      BY <1>2, <1>3, <2>2, <2>3, <2>4, <2>5 DEF DriveInv, Typed
    <2>7. Counted'
      BY <1>1, <1>2, <1>3, <2>1 DEF DriveInv, Typed, Counted
    <2>8. BufferInUse'
      <3>1. ~SD_CARD_ENABLED => c # "disk1"
        BY <1>1, <1>5, CurrentFacts DEF DriveInv
      <3> QED
        BY <1>1, <1>3, <2>1, <3>1 DEF DriveInv, Typed, BufferInUse
    <2>9. FileFollowsHead'
      BY <1>3 DEF DriveInv, FileFollowsHead
    <2> QED
      BY <1>4, <2>6, <2>7, <2>8, <2>9 DEF DriveInv
  <1>6. CASE ~(SD_CARD_ENABLED \/ currentDisk # 0)
    <2>1. UNCHANGED <<sectorData, sectorPointer, sectorDirty, writtenAt, promised>>
      BY <1>6 DEF DiskWrite
    <2>2. Typed'
      BY <1>2, <1>3, <2>1 DEF DriveInv, Typed
    <2>3. Counted'
      <3> SUFFICES ASSUME NEW d \in Disks PROVE Counted!(d)'
        BY DEF Counted
      <3>1. CASE d = c
        BY <1>1, <1>2, <1>3, <2>1, <3>1 DEF DriveInv, Counted
      <3>2. CASE d # c
        BY <1>1, <1>2, <1>3, <2>1, <3>2 DEF DriveInv, Counted
      <3> QED
        BY <3>1, <3>2
    <2>4. BufferInUse' /\ FileFollowsHead'
      BY <1>3, <2>1 DEF DriveInv, BufferInUse, FileFollowsHead
    <2> QED
      BY <1>4, <2>2, <2>3, <2>4 DEF DriveInv
  <1> QED
    BY <1>5, <1>6

\* What filling the buffer does; served says that it holds the medium's sector.
LEMMA FillFacts ==
    ASSUME DriveInv, currentDisk # -1, ~haveSectorData[current],
           FillFromFile \/ FillFromImage
    PROVE  /\ sectorData' \in [Disks -> [BufferIndex -> Bytes]]
           /\ haveSectorData' \in [Disks -> BOOLEAN]
           /\ served' \in [Disks -> BOOLEAN]
           /\ fileOffset' \in Int
           /\ \A d \in Disks \ {current} :
                /\ sectorData'[d] = sectorData[d]
                /\ haveSectorData'[d] = haveSectorData[d]
                /\ served'[d] = served[d]
           /\ served'[current] =>
                SectorBytes(sectorData'[current]) =
                    image[ImageOf(currentDisk)][diskPointer[current]]
           /\ ~SD_CARD_ENABLED /\ ~haveSectorData'["disk1"] =>
                ~haveSectorData["disk1"] /\ fileOffset' = fileOffset
  <1> DEFINE c == current
             i == ImageOf(currentDisk)
  <1>1. /\ c \in Disks /\ i \in Images /\ (c = "disk1" <=> currentDisk = 0)
        /\ diskPointer[c] \in Positions
    BY CurrentFacts DEF DriveInv, Typed
  <1>2. /\ image[i][diskPointer[c]] \in Contents
        /\ sectorData \in [Disks -> [BufferIndex -> Bytes]]
        /\ haveSectorData \in [Disks -> BOOLEAN] /\ served \in [Disks -> BOOLEAN]
        /\ fileOffset \in Int /\ SD_CARD_ENABLED \in BOOLEAN
    BY <1>1, DriveAssumption DEF DriveInv, Typed
  <1> DEFINE full == Filled(image[i][diskPointer[c]])
  <1>3. full \in [BufferIndex -> Bytes] /\ SectorBytes(full) = image[i][diskPointer[c]]
    BY <1>1, <1>2, FilledFacts DEF DriveInv
  <1>4. CASE FillFromFile
    <2>1. /\ ~SD_CARD_ENABLED /\ c = "disk1" /\ i = FileImage
          /\ fileOffset = diskPointer[c]
      BY <1>1, <1>4 DEF FillFromFile, DriveInv, FileFollowsHead, ImageOf
    <2>2. haveSectorData' = [haveSectorData EXCEPT ![c] = TRUE]
      BY <1>4 DEF FillFromFile
    <2>3. CASE fileOffset \in FileSectors
      <3>1. /\ sectorData' = [sectorData EXCEPT ![c] = full]
            /\ fileOffset' = fileOffset + 1
            /\ served' = [served EXCEPT ![c] = TRUE]
        BY <1>4, <2>1, <2>3 DEF FillFromFile
      <3>2. sectorData'[c] = full
        BY <1>1, <1>2, <3>1
      <3> HIDE DEF full
      <3>3. sectorData' \in [Disks -> [BufferIndex -> Bytes]]
        BY <1>1, <1>2, <1>3, <3>1
      <3>4. fileOffset' \in Int /\ haveSectorData'["disk1"]
        BY <1>1, <1>2, <2>1, <2>2, <3>1
      <3> QED
        BY <1>1, <1>2, <1>3, <2>1, <2>2, <3>1, <3>2, <3>3, <3>4
    <2>4. CASE fileOffset \notin FileSectors
      <3>1. /\ served' = [served EXCEPT ![c] = FALSE]
            /\ UNCHANGED <<sectorData, fileOffset>>
        BY <1>4, <2>4 DEF FillFromFile
      <3> QED
        BY <1>1, <1>2, <2>1, <2>2, <3>1
    <2> QED
      BY <2>3, <2>4
  <1>5. CASE FillFromImage
    <2>1. /\ SD_CARD_ENABLED \/ c # "disk1"
          /\ UNCHANGED fileOffset
      BY <1>1, <1>5 DEF FillFromImage
    <2>2. CASE /\ sectorData' = [sectorData EXCEPT ![c] = full]
               /\ haveSectorData' = [haveSectorData EXCEPT ![c] = TRUE]
               /\ served' = [served EXCEPT ![c] = TRUE]
      <3> HIDE DEF full, i, c
      <3>2. c = current /\ i = ImageOf(currentDisk)
        BY DEF c, i
      <3> QED
        BY <1>1, <1>2, <1>3, <2>1, <2>2, <3>2
    <2>3. CASE /\ haveSectorData' = [haveSectorData EXCEPT ![c] = ~SD_CARD_ENABLED]
               /\ served' = [served EXCEPT ![c] = FALSE]
               /\ UNCHANGED sectorData
      <3>1. PICK h \in BOOLEAN : haveSectorData' = [haveSectorData EXCEPT ![c] = h]
        BY <1>2, <2>3
      <3> QED
        BY <1>1, <1>2, <2>1, <2>3, <3>1
    <2> QED
      BY <1>5, <2>2, <2>3 DEF FillFromImage
  <1> QED
    BY <1>4, <1>5

LEMMA ReadKeepsDrive ==
    ASSUME DriveInv, DiskRead
    PROVE  DriveInv'
  <1> DEFINE c == current
             n == sectorPointer[c]
  <1>1. /\ c \in Disks /\ currentDisk # -1
        /\ phase[c] \in {"positioned", "reading"}
        /\ n \in 0 .. SECTOR_SIZE - 1
        /\ phase' = [phase EXCEPT ![c] = "reading"]
        /\ UNCHANGED <<SD_CARD_ENABLED, currentDisk, track, sector, status, write_status,
                       diskPointer, sectorDirty, image, writtenAt, promised, writes>>
    BY CurrentFacts, DriveAssumption DEF DriveInv, DiskRead, Typed
  <1>2. \E m \in 1 .. SECTOR_SIZE : sectorPointer' = [sectorPointer EXCEPT ![c] = m]
    <2>1. CASE haveSectorData[c]
      <3>1. sectorPointer' = [sectorPointer EXCEPT ![c] = (n + 1) % UINT8_VALUES]
        BY <2>1 DEF DiskRead
      <3>2. (n + 1) % UINT8_VALUES = n + 1 /\ n + 1 \in 1 .. SECTOR_SIZE
        BY <1>1, DriveAssumption
      <3> QED
        BY <3>1, <3>2
    <2>2. CASE ~haveSectorData[c]
      <3>1. sectorPointer' = [sectorPointer EXCEPT ![c] = 1]
        BY <2>2 DEF DiskRead
      <3>2. 1 \in 1 .. SECTOR_SIZE
        BY DriveAssumption
      <3> QED
        BY <3>1, <3>2
    <2> QED
      BY <2>1, <2>2
  <1>3. PICK m \in 1 .. SECTOR_SIZE : sectorPointer' = [sectorPointer EXCEPT ![c] = m]
    BY <1>2
  <1>4. /\ sectorData' \in [Disks -> [BufferIndex -> Bytes]]
        /\ haveSectorData' \in [Disks -> BOOLEAN]
        /\ served' \in [Disks -> BOOLEAN]
        /\ fileOffset' \in Int
        /\ \A d \in Disks \ {c} : haveSectorData'[d] = haveSectorData[d]
        /\ ~SD_CARD_ENABLED /\ ~haveSectorData'["disk1"] =>
             ~haveSectorData["disk1"] /\ fileOffset' = fileOffset
    <2>1. CASE haveSectorData[c]
      <3>1. UNCHANGED <<sectorData, haveSectorData, fileOffset, served>>
        BY <2>1 DEF DiskRead
      <3> QED
        BY <3>1 DEF DriveInv, Typed
    <2>2. CASE ~haveSectorData[c]
      <3>1. FillFromFile \/ FillFromImage
        BY <2>2 DEF DiskRead
      <3> QED
        BY <1>1, <2>2, <3>1, FillFacts
    <2> QED
      BY <2>1, <2>2
  <1> HIDE DEF c, n
  <1>5. Typed'
    <2>1. /\ phase' \in [Disks -> {"moved", "positioned", "reading", "writing"}]
          /\ sectorPointer' \in [Disks -> 0 .. SECTOR_SIZE + 1]
      BY <1>1, <1>3, DriveAssumption DEF DriveInv, Typed
    <2> QED
      BY <1>1, <1>4, <2>1 DEF DriveInv, Typed
  <1>6. Counted'
    BY <1>1, <1>3, DriveAssumption DEF DriveInv, Typed, Counted
  <1>7. BufferInUse'
    BY <1>1, <1>3, <1>4 DEF DriveInv, Typed, BufferInUse
  <1>8. FileFollowsHead' /\ Track0IsTrack0'
    BY <1>1, <1>4 DEF DriveInv, FileFollowsHead, Track0IsTrack0
  <1> QED
    BY <1>5, <1>6, <1>7, <1>8 DEF DriveInv

LEMMA DriveStep ==
    ASSUME DriveInv, [Next]_vars
    PROVE  DriveInv'
  <1>1. CASE Next
    BY <1>1, SelectKeepsDrive, FunctionKeepsDrive, NextSectorKeepsDrive,
       WriteKeepsDrive, ReadKeepsDrive DEF Next
  <1>2. CASE UNCHANGED vars
    <2> USE <1>2 DEF vars, headVars, ghostVars, DriveInv
    <2>1. Typed'
      BY DEF Typed
    <2>2. Counted' /\ BufferInUse' /\ FileFollowsHead' /\ Track0IsTrack0'
      BY DEF Counted, BufferInUse, FileFollowsHead, Track0IsTrack0
    <2> QED
      BY <2>1, <2>2
  <1> QED
    BY <1>1, <1>2

LEMMA DriveInvariant == Spec => []DriveInv
  BY DriveInit, DriveStep, PTL DEF Spec

\* disk_write indexes past the two spare bytes of sectorData for no guest that
\* stops at the end of ENWD, whatever sequence of seeks, selections and reads it
\* makes in between.
THEOREM BufferNeverOverrun == Spec => []StaysInBuffer
  <1>1. DriveInv => StaysInBuffer
    BY DriveAssumption DEF DriveInv, Typed, StaysInBuffer
  <1> QED
    BY <1>1, DriveInvariant, PTL

\* The TRACK_0 bit that disk_function keeps means track 0, however often the
\* track counter wraps.
THEOREM Track0Reported == Spec => []Track0IsTrack0
  <1>1. DriveInv => Track0IsTrack0
    BY DEF DriveInv
  <1> QED
    BY <1>1, DriveInvariant, PTL

-----------------------------------------------------------------------------
(***************************************************************************)
(* What holds of drives that share no disk_t, and of drives that share no  *)
(* medium either.                                                          *)
(***************************************************************************)
LEMMA DrivesApart ==
    ASSUME Typed, OneDrivePerMedium, NEW a \in Drives, NEW b \in Drives,
           ImageOf(a) = ImageOf(b)
    PROVE  a = b
  <1>1. SD_CARD_ENABLED \in Builds
    BY DEF Typed
  <1>2. CASE SD_CARD_ENABLED = TRUE
    BY <1>2 DEF ImageOf
  <1>3. CASE SD_CARD_ENABLED = FALSE
    <2>1. \A x, y \in Drives \ {0} : x = y
      BY <1>1, <1>3 DEF OneDrivePerMedium
    <2> QED
      BY <1>3, <2>1, DriveAssumption DEF ImageOf, FileImage, VirtualImage
  <1> QED
    BY <1>1, <1>2, <1>3, DriveAssumption

LEMMA DriveFacts ==
    ASSUME NEW drive \in Drives
    PROVE  DiskOf(drive) \in Disks /\ ImageOf(drive) \in Images
  BY DriveAssumption DEF DiskOf, Disks, ImageOf, Images, FileImage, VirtualImage

\* Where a seek and a turn of the disk move the head.
LEMMA SeekTarget ==
    ASSUME DriveInv, currentDisk # -1, NEW b
    PROVE  Stepped(b) * SECTORS_PER_TRACK \in Positions
  <1>1. Stepped(b) \in Tracks
    BY Track0Facts DEF DriveInv
  <1>2. Stepped(b) * SECTORS_PER_TRACK + 0 \in Positions
    BY <1>1, PositionFacts, DriveAssumption
  <1> QED
    BY <1>1, <1>2, TrackTimes, DriveAssumption DEF Tracks

LEMMA TurnTarget ==
    ASSUME DriveInv, NextSector
    PROVE  \E position \in Positions : MoveHead(position)
  <1>1. PICK s \in 0 .. SECTORS_PER_TRACK :
            MoveHead(track[current] * SECTORS_PER_TRACK + s)
    BY CurrentFacts, DriveAssumption DEF NextSector, DriveInv, Typed
  <1>2. track[current] * SECTORS_PER_TRACK + s \in Positions
    BY CurrentFacts, PositionFacts DEF NextSector, DriveInv, Typed
  <1> QED
    BY <1>1, <1>2

LEMMA FlushedInit == Init => FlushedWhereWritten
  BY DriveFacts DEF Init, FlushedWhereWritten

LEMMA FlushedStep ==
    ASSUME DriveInv, OneDrivePerDisk, FlushedWhereWritten, [Next]_vars
    PROVE  FlushedWhereWritten'
  <1> SUFFICES ASSUME NEW drive \in Drives, sectorDirty'[DiskOf(drive)]
               PROVE  writtenAt'[DiskOf(drive)] = <<drive, diskPointer'[DiskOf(drive)]>>
    BY DEF FlushedWhereWritten
  <1> DEFINE d == DiskOf(drive)
             c == current
  <1>1. /\ d \in Disks
        /\ sectorDirty[d] => writtenAt[d] = <<drive, diskPointer[d]>>
    BY DriveFacts DEF FlushedWhereWritten
  <1>2. CASE UNCHANGED <<sectorDirty, writtenAt, diskPointer>>
    BY <1>1, <1>2
  <1>3. ASSUME currentDisk # -1, UNCHANGED writtenAt,
               NEW position \in Positions, MoveHead(position)
        PROVE  writtenAt'[d] = <<drive, diskPointer'[d]>>
    <2>1. /\ c \in Disks
          /\ diskPointer' = [diskPointer EXCEPT ![c] = position]
          /\ sectorDirty' = [sectorDirty EXCEPT ![c] = FALSE]
      BY <1>3, MoveHeadClears, CurrentFacts DEF DriveInv
    <2>2. diskPointer \in [Disks -> Positions] /\ sectorDirty \in [Disks -> BOOLEAN]
      BY DEF DriveInv, Typed
    <2> HIDE DEF c
    <2>3. d # c /\ sectorDirty[d] /\ diskPointer'[d] = diskPointer[d]
      BY <1>1, <2>1, <2>2
    <2> QED
      BY <1>1, <1>3, <2>3
  <1>4. ASSUME NEW b, DiskFunction(b)
        PROVE  writtenAt'[d] = <<drive, diskPointer'[d]>>
    <2>1. currentDisk # -1 /\ UNCHANGED writtenAt
      BY <1>4 DEF DiskFunction
    <2>2. \/ MoveHead(Stepped(b) * SECTORS_PER_TRACK)
          \/ UNCHANGED <<sectorDirty, writtenAt, diskPointer>>
      BY <1>4 DEF DiskFunction
    <2>3. Stepped(b) * SECTORS_PER_TRACK \in Positions
      BY <2>1, SeekTarget
    <2> QED
      BY <1>2, <1>3, <2>1, <2>2, <2>3
  <1>5. CASE NextSector
    <2>1. PICK position \in Positions : MoveHead(position)
      BY <1>5, TurnTarget
    <2>2. currentDisk # -1 /\ UNCHANGED writtenAt
      BY <1>5 DEF NextSector
    <2> QED
      BY <1>3, <2>1, <2>2
  <1>6. CASE DiskWrite
    <2>1. currentDisk # -1 /\ UNCHANGED diskPointer
      BY <1>6 DEF DiskWrite
    <2>2. CASE StoreByte(writes)
      <3>1. /\ sectorDirty' = [sectorDirty EXCEPT ![c] = TRUE]
            /\ writtenAt' = [writtenAt EXCEPT ![c] = <<currentDisk, diskPointer[c]>>]
        BY <2>2 DEF StoreByte
      <3>2. /\ c \in Disks /\ currentDisk \in Drives
            /\ sectorDirty \in [Disks -> BOOLEAN]
            /\ writtenAt \in [Disks -> (Drives \cup {-1}) \X Positions]
        BY <2>1, CurrentFacts DEF DriveInv, Typed
      <3>3. CASE d = c
        <4>1. drive = currentDisk
          BY <3>2, <3>3 DEF OneDrivePerDisk, current
        <4> QED
          BY <2>1, <3>1, <3>2, <3>3, <4>1
      <3>4. CASE d # c
        BY <1>1, <2>1, <3>1, <3>2, <3>4
      <3> QED
        BY <3>3, <3>4
    <2>3. CASE UNCHANGED <<sectorDirty, writtenAt>>
      BY <1>2, <2>1, <2>3
    <2> QED
      BY <1>6, <2>2, <2>3 DEF DiskWrite
  <1>7. CASE DiskRead
    BY <1>2, <1>7 DEF DiskRead
  <1>8. ASSUME NEW a \in Drives, Select(a)
        PROVE  writtenAt'[d] = <<drive, diskPointer'[d]>>
    BY <1>2, <1>8 DEF Select, headVars, ghostVars
  <1>9. CASE UNCHANGED vars
    BY <1>2, <1>9 DEF vars, headVars, ghostVars
  <1> QED
    BY <1>4, <1>5, <1>6, <1>7, <1>8, <1>9 DEF Next

\* A dirty buffer is flushed to the drive and the sector its bytes were written for,
\* as long as no other drive uses the same disk_t.
THEOREM DirtyBufferStaysPut ==
    ASSUME OneDrivePerDisk
    PROVE  Spec => []FlushedWhereWritten
  <1>1. DriveInv /\ FlushedWhereWritten /\ [Next]_vars => FlushedWhereWritten'
    BY FlushedStep
  <1> QED
    BY <1>1, FlushedInit, DriveInvariant, PTL DEF Spec

\* The content of a sector outlives the head's moving away: what was in the buffer
\* is on the medium then, or lost with its promise.
LEMMA MoveKeepsSectors ==
    ASSUME DriveInv, OneDrivePerDisk, OneDrivePerMedium,
           CompleteWritesSurvive, ReadsSectorUnderHead,
           currentDisk # -1, NEW position \in Positions, MoveHead(position),
           UNCHANGED <<SD_CARD_ENABLED, sectorData, served>>
    PROVE  CompleteWritesSurvive' /\ ReadsSectorUnderHead'
  <1> DEFINE c == current
             i == ImageOf(currentDisk)
             s == diskPointer[c]
             new == SectorBytes(sectorData[c])
  <1>1. /\ c \in Disks /\ currentDisk \in Drives /\ i \in Images
        /\ diskPointer' = [diskPointer EXCEPT ![c] = position]
        /\ sectorDirty' = [sectorDirty EXCEPT ![c] = FALSE]
        /\ haveSectorData' = [haveSectorData EXCEPT ![c] = FALSE]
    BY MoveHeadClears, CurrentFacts DEF DriveInv
  <1>2. /\ diskPointer \in [Disks -> Positions]
        /\ sectorDirty \in [Disks -> BOOLEAN] /\ haveSectorData \in [Disks -> BOOLEAN]
        /\ image \in [Images -> [Positions -> Contents]]
        /\ promised \in [Images -> [Positions -> Contents]]
    BY DEF DriveInv, Typed
  <1>3. s \in Positions /\ new \in Contents /\ NoPromise \in Contents
    BY <1>1, <1>2, SectorBytesFacts, OriginalFacts DEF DriveInv, Typed
  <1>4. sectorDirty[c] => MustFlush
    BY <1>1, CurrentFacts DEF MustFlush, BufferInUse, DriveInv
  \* Where image or promised change, and how.
  <1>5. /\ \A j \in Images, t \in Positions : j # i \/ t # s =>
             image'[j][t] = image[j][t] /\ promised'[j][t] = promised[j][t]
        /\ sectorDirty[c] => \/ image'[i][s] = new /\ promised'[i][s] = promised[i][s]
                             \/ promised'[i][s] = NoPromise
        /\ ~sectorDirty[c] => image'[i][s] = image[i][s] /\ promised'[i][s] = promised[i][s]
    <2>1. CASE MustFlush /\ image' = [image EXCEPT ![i][s] = new] /\ UNCHANGED promised
      <3> DEFINE g == [image EXCEPT ![i][s] = new]
      <3>1. /\ g[i][s] = new
            /\ \A j \in Images, t \in Positions : j # i \/ t # s => g[j][t] = image[j][t]
        <4> HIDE DEF i, s, new
        <4> QED
          BY <1>1, <1>2, <1>3, UpdateFacts
      <3>2. image' = g /\ promised' = promised /\ sectorDirty[c]
        BY <2>1 DEF MustFlush
      <3> HIDE DEF g, i, s, new, c
      <3> QED
        BY <3>1, <3>2
    <2>2. CASE MustFlush /\ promised' = [promised EXCEPT ![i][s] = NoPromise]
               /\ UNCHANGED image
      <3> DEFINE g == [promised EXCEPT ![i][s] = NoPromise]
      <3>1. /\ g[i][s] = NoPromise
            /\ \A j \in Images, t \in Positions : j # i \/ t # s => g[j][t] = promised[j][t]
        <4> HIDE DEF i, s
        <4> QED
          BY <1>1, <1>2, <1>3, UpdateFacts
      <3>2. promised' = g /\ image' = image /\ sectorDirty[c]
        BY <2>2 DEF MustFlush
      <3> HIDE DEF g, i, s, new, c
      <3> QED
        BY <3>1, <3>2
    <2>3. CASE ~MustFlush /\ UNCHANGED <<image, promised>>
      BY <1>4, <2>3
    <2> QED
      BY <2>1, <2>2, <2>3 DEF MoveHead, writeSector
  <1>6. ASSUME NEW drive \in Drives
        PROVE  /\ DiskOf(drive) \in Disks /\ ImageOf(drive) \in Images
               /\ ImageOf(drive)' = ImageOf(drive)
               /\ DiskOf(drive) = c => drive = currentDisk
               /\ ImageOf(drive) = i => drive = currentDisk
    BY <1>1, DriveFacts, DrivesApart DEF DriveInv, OneDrivePerDisk, current, ImageOf
  <1>7. CompleteWritesSurvive'
    <2> SUFFICES ASSUME NEW drive \in Drives, NEW t \in Positions,
                        promised'[ImageOf(drive)][t] # NoPromise
                 PROVE  Effective(drive, t)' = promised'[ImageOf(drive)][t]
      BY <1>6 DEF CompleteWritesSurvive
    <2> DEFINE d == DiskOf(drive)
               j == ImageOf(drive)
    <2>1. /\ d \in Disks /\ j \in Images
          /\ d = c => drive = currentDisk
          /\ j = i => drive = currentDisk
      BY <1>6
    <2>2. promised[j][t] # NoPromise => Effective(drive, t) = promised[j][t]
      BY DEF CompleteWritesSurvive
    <2>3. Effective(drive, t) = IF sectorDirty[d] /\ diskPointer[d] = t
                                THEN SectorBytes(sectorData[d]) ELSE image[j][t]
      BY DEF Effective
    <2>4. Effective(drive, t)' = IF sectorDirty'[d] /\ diskPointer'[d] = t
                                 THEN SectorBytes(sectorData[d]) ELSE image'[j][t]
      BY <1>6 DEF Effective
    <2>5. CASE drive = currentDisk
      <3>1. d = c /\ j = i
        BY <2>5 DEF current
      <3>2. ~sectorDirty'[d]
        BY <1>1, <1>2, <3>1
      <3>3. Effective(drive, t)' = image'[j][t]
        BY <2>4, <3>2
      <3>4. t = s /\ sectorDirty[c] => Effective(drive, t) = new
        BY <2>3, <3>1
      <3>5. ~(t = s /\ sectorDirty[c]) => Effective(drive, t) = image[j][t]
        BY <2>3, <3>1
      <3> HIDE DEF c, i, s, new, d, j
      <3> QED
        BY <1>5, <2>1, <2>2, <3>1, <3>3, <3>4, <3>5 DEF j
    <2>6. CASE drive # currentDisk
      <3>1. d # c /\ j # i
        BY <2>1, <2>6
      <3>2. sectorDirty'[d] = sectorDirty[d] /\ diskPointer'[d] = diskPointer[d]
        BY <1>1, <1>2, <2>1, <3>1
      <3>3. image'[j][t] = image[j][t] /\ promised'[j][t] = promised[j][t]
        BY <1>5, <2>1, <3>1
      <3> QED
        BY <2>2, <2>3, <2>4, <3>2, <3>3
    <2> QED
      BY <2>5, <2>6
  <1>8. ReadsSectorUnderHead'
    <2> SUFFICES ASSUME NEW drive \in Drives, haveSectorData'[DiskOf(drive)],
                        served[DiskOf(drive)]
                 PROVE  SectorBytes(sectorData[DiskOf(drive)]) =
                            image'[ImageOf(drive)][diskPointer'[DiskOf(drive)]]
      BY <1>6 DEF ReadsSectorUnderHead
    <2> DEFINE d == DiskOf(drive)
               j == ImageOf(drive)
    <2>1. d # c
      BY <1>1, <1>2
    <2>2. /\ haveSectorData[d] /\ diskPointer'[d] = diskPointer[d]
          /\ d \in Disks /\ j \in Images /\ j # i /\ diskPointer[d] \in Positions
      BY <1>1, <1>2, <1>6, <2>1 DEF current
    <2>3. SectorBytes(sectorData[d]) = image[j][diskPointer[d]]
      BY <2>2 DEF ReadsSectorUnderHead
    <2> HIDE DEF d, j, i, s
    <2>4. image'[j][diskPointer[d]] = image[j][diskPointer[d]]
      BY <1>5, <2>2
    <2> QED
      BY <2>2, <2>3, <2>4 DEF d, j
  <1> QED
    BY <1>7, <1>8

\* A stored byte changes the sector under the head only, and withdraws the promise
\* for it until the sector is complete.
LEMMA WriteKeepsSectors ==
    ASSUME DriveInv, OneDrivePerDisk, OneDrivePerMedium,
           CompleteWritesSurvive, ReadsSectorUnderHead, DiskWrite
    PROVE  CompleteWritesSurvive' /\ ReadsSectorUnderHead'
  <1> DEFINE c == current
             i == ImageOf(currentDisk)
             s == diskPointer[c]
             n == sectorPointer[c]
  <1>1. /\ currentDisk # -1 /\ phase[c] = "writing" /\ "ENWD" \in status[c]
        /\ UNCHANGED <<SD_CARD_ENABLED, diskPointer, haveSectorData, image, served>>
    BY DEF DiskWrite
  <1>2. /\ c \in Disks /\ currentDisk \in Drives /\ i \in Images /\ s \in Positions
        /\ ~haveSectorData[c]
        /\ n \in 0 .. SECTOR_SIZE
        /\ n # 0 => sectorDirty[c]
    BY <1>1, CurrentFacts, DriveAssumption DEF DriveInv, Typed, Counted, BufferInUse
  <1>3. CASE UNCHANGED <<sectorData, sectorPointer, sectorDirty, writtenAt, promised>>
    BY <1>1, <1>3 DEF CompleteWritesSurvive, ReadsSectorUnderHead, Effective, ImageOf
  <1>4. CASE StoreByte(writes)
    <2>1. PICK data \in [BufferIndex -> Bytes] :
             /\ sectorData' = [sectorData EXCEPT ![c] = data]
             /\ sectorDirty' = [sectorDirty EXCEPT ![c] = TRUE]
             /\ promised' = [promised EXCEPT ![i][s] =
                    IF n = SECTOR_SIZE - 1 THEN SectorBytes(data)
                    ELSE IF n < SECTOR_SIZE THEN NoPromise ELSE @]
             /\ n = SECTOR_SIZE => SectorBytes(data) = SectorBytes(sectorData[c])
      BY <1>1, <1>2, <1>4, StoreByteFacts DEF DriveInv
    <2>2. /\ promised'[i][s] = IF n = SECTOR_SIZE - 1 THEN SectorBytes(data)
                               ELSE IF n < SECTOR_SIZE THEN NoPromise ELSE promised[i][s]
          /\ \A j \in Images, t \in Positions :
               j # i \/ t # s => promised'[j][t] = promised[j][t]
      BY <1>1, <2>1, PromiseTyped DEF DriveInv
    <2>3. /\ sectorData' \in [Disks -> [BufferIndex -> Bytes]] /\ sectorData'[c] = data
          /\ sectorDirty' \in [Disks -> BOOLEAN] /\ sectorDirty'[c] = TRUE
          /\ \A d \in Disks \ {c} : sectorData'[d] = sectorData[d]
                                    /\ sectorDirty'[d] = sectorDirty[d]
      BY <1>2, <2>1 DEF DriveInv, Typed
    <2>4. ASSUME NEW drive \in Drives
          PROVE  /\ DiskOf(drive) \in Disks /\ ImageOf(drive) \in Images
                 /\ ImageOf(drive)' = ImageOf(drive)
                 /\ DiskOf(drive) = c => drive = currentDisk
                 /\ ImageOf(drive) = i => drive = currentDisk
      BY <1>1, <1>2, DriveFacts, DrivesApart
         DEF DriveInv, OneDrivePerDisk, current, ImageOf
    <2>5. CompleteWritesSurvive'
      <3> SUFFICES ASSUME NEW drive \in Drives, NEW t \in Positions,
                          promised'[ImageOf(drive)][t] # NoPromise
                   PROVE  Effective(drive, t)' = promised'[ImageOf(drive)][t]
        BY <2>4 DEF CompleteWritesSurvive
      <3> DEFINE d == DiskOf(drive)
                 j == ImageOf(drive)
      <3>1. promised[j][t] # NoPromise => Effective(drive, t) = promised[j][t]
        BY DEF CompleteWritesSurvive
      <3>2. Effective(drive, t) = IF sectorDirty[d] /\ diskPointer[d] = t
                                  THEN SectorBytes(sectorData[d]) ELSE image[j][t]
        BY DEF Effective
      <3>3. Effective(drive, t)' = IF sectorDirty'[d] /\ diskPointer[d] = t
                                   THEN SectorBytes(sectorData'[d]) ELSE image[j][t]
        BY <1>1, <2>4 DEF Effective
      <3>4. CASE drive = currentDisk /\ t = s
        <4>1. d = c /\ j = i
          BY <3>4 DEF current
        <4>2. Effective(drive, t)' = SectorBytes(data)
          BY <2>3, <3>3, <3>4, <4>1
        <4>3. n = SECTOR_SIZE => Effective(drive, t) = SectorBytes(data)
          BY <1>2, <2>1, <3>2, <3>4, <4>1, DriveAssumption
        <4>4. n = SECTOR_SIZE - 1 \/ n = SECTOR_SIZE
          <5>1. n < SECTOR_SIZE - 1 => promised'[i][s] = NoPromise
            BY <1>2, <2>2, DriveAssumption
          <5>2. promised'[i][s] # NoPromise
            BY <3>4, <4>1
          <5> QED
            BY <1>2, <5>1, <5>2, DriveAssumption
        <4>5. promised'[j][t] = IF n = SECTOR_SIZE THEN promised[j][t] ELSE SectorBytes(data)
          BY <1>2, <2>2, <3>4, <4>1, <4>4, DriveAssumption
        <4> QED
          BY <3>1, <4>2, <4>3, <4>5
      <3>5. CASE drive = currentDisk /\ t # s
        <4>1. d = c /\ j = i
          BY <3>5 DEF current
        <4>2. Effective(drive, t)' = image[j][t] /\ Effective(drive, t) = image[j][t]
          BY <3>2, <3>3, <3>5, <4>1
        <4>3. promised'[j][t] = promised[j][t]
          BY <1>2, <2>2, <3>5, <4>1
        <4> QED
          BY <3>1, <4>2, <4>3
      <3>6. CASE drive # currentDisk
        <4>1. d \in Disks \ {c} /\ j \in Images \ {i}
          BY <2>4, <3>6
        <4>2. /\ sectorDirty'[d] = sectorDirty[d] /\ sectorData'[d] = sectorData[d]
              /\ promised'[j][t] = promised[j][t]
          BY <2>2, <2>3, <4>1
        <4> QED
          BY <3>1, <3>2, <3>3, <4>2
      <3> QED
        BY <3>4, <3>5, <3>6
    <2>6. ReadsSectorUnderHead'
      <3> SUFFICES ASSUME NEW drive \in Drives, haveSectorData[DiskOf(drive)],
                          served[DiskOf(drive)]
                   PROVE  SectorBytes(sectorData'[DiskOf(drive)]) =
                              image[ImageOf(drive)][diskPointer[DiskOf(drive)]]
        BY <1>1, <2>4 DEF ReadsSectorUnderHead
      <3>1. DiskOf(drive) \in Disks \ {c}
        BY <1>2, DriveFacts
      <3>2. SectorBytes(sectorData[DiskOf(drive)]) =
                image[ImageOf(drive)][diskPointer[DiskOf(drive)]]
        BY DEF ReadsSectorUnderHead
      <3> QED
        BY <2>3, <3>1, <3>2
    <2> QED
      BY <2>5, <2>6
  <1> QED
    BY <1>3, <1>4 DEF DiskWrite

\* A read fills a clean buffer with the sector under the head.
LEMMA ReadKeepsSectors ==
    ASSUME DriveInv, OneDrivePerDisk, CompleteWritesSurvive, ReadsSectorUnderHead, DiskRead
    PROVE  CompleteWritesSurvive' /\ ReadsSectorUnderHead'
  <1> DEFINE c == current
  <1>1. /\ c \in Disks /\ currentDisk \in Drives /\ currentDisk # -1
        /\ phase[c] \in {"positioned", "reading"}
        /\ UNCHANGED <<SD_CARD_ENABLED, diskPointer, sectorDirty, image, promised>>
    BY CurrentFacts DEF DriveInv, DiskRead
  <1>2. ~sectorDirty[c]
    BY <1>1 DEF DriveInv, BufferInUse
  <1>3. CASE haveSectorData[c]
    <2>1. UNCHANGED <<sectorData, haveSectorData, served>>
      BY <1>3 DEF DiskRead
    <2> QED
      BY <1>1, <2>1 DEF CompleteWritesSurvive, ReadsSectorUnderHead, Effective, ImageOf
  <1>4. CASE ~haveSectorData[c]
    <2>1. FillFromFile \/ FillFromImage
      BY <1>4 DEF DiskRead
    <2>2. /\ \A d \in Disks \ {c} : /\ sectorData'[d] = sectorData[d]
                                    /\ haveSectorData'[d] = haveSectorData[d]
                                    /\ served'[d] = served[d]
          /\ served'[c] =>
               SectorBytes(sectorData'[c]) = image[ImageOf(currentDisk)][diskPointer[c]]
      BY <1>1, <1>4, <2>1, FillFacts
    <2>3. ASSUME NEW drive \in Drives
          PROVE  /\ DiskOf(drive) \in Disks
                 /\ ImageOf(drive)' = ImageOf(drive)
                 /\ DiskOf(drive) = c => drive = currentDisk
      BY <1>1, DriveFacts DEF OneDrivePerDisk, current, ImageOf
    <2>4. CompleteWritesSurvive'
      <3> SUFFICES ASSUME NEW drive \in Drives, NEW t \in Positions,
                          promised[ImageOf(drive)][t] # NoPromise
                   PROVE  Effective(drive, t)' = promised[ImageOf(drive)][t]
        BY <1>1, <2>3 DEF CompleteWritesSurvive
      <3>1. Effective(drive, t) = promised[ImageOf(drive)][t]
        BY DEF CompleteWritesSurvive
      <3>2. sectorDirty[DiskOf(drive)] => sectorData'[DiskOf(drive)] = sectorData[DiskOf(drive)]
        BY <1>2, <2>2, <2>3
      <3>3. Effective(drive, t)' = Effective(drive, t)
        BY <1>1, <2>3, <3>2 DEF Effective
      <3> QED
        BY <3>1, <3>3
    <2>5. ReadsSectorUnderHead'
      <3> SUFFICES ASSUME NEW drive \in Drives, haveSectorData'[DiskOf(drive)],
                          served'[DiskOf(drive)]
                   PROVE  SectorBytes(sectorData'[DiskOf(drive)]) =
                              image[ImageOf(drive)][diskPointer[DiskOf(drive)]]
        BY <1>1, <2>3 DEF ReadsSectorUnderHead
      <3>1. CASE DiskOf(drive) = c
        BY <2>2, <2>3, <3>1
      <3>2. CASE DiskOf(drive) # c
        <4>1. /\ haveSectorData[DiskOf(drive)] /\ served[DiskOf(drive)]
              /\ sectorData'[DiskOf(drive)] = sectorData[DiskOf(drive)]
          BY <2>2, <2>3, <3>2
        <4> QED
          BY <4>1 DEF ReadsSectorUnderHead
      <3> QED
        BY <3>1, <3>2
    <2> QED
      BY <2>4, <2>5
  <1> QED
    BY <1>3, <1>4

LEMMA SectorsStep ==
    ASSUME DriveInv, OneDrivePerDisk, OneDrivePerMedium,
           CompleteWritesSurvive, ReadsSectorUnderHead, [Next]_vars
    PROVE  CompleteWritesSurvive' /\ ReadsSectorUnderHead'
  <1>1. CASE UNCHANGED <<SD_CARD_ENABLED, diskPointer, sectorDirty, haveSectorData, served,
                         sectorData, image, promised>>
    BY <1>1 DEF CompleteWritesSurvive, ReadsSectorUnderHead, Effective, ImageOf
  <1>2. ASSUME NEW b, DiskFunction(b)
        PROVE  CompleteWritesSurvive' /\ ReadsSectorUnderHead'
    <2>1. currentDisk # -1 /\ UNCHANGED <<SD_CARD_ENABLED, sectorData, served>>
      BY <1>2 DEF DiskFunction
    <2>2. \/ MoveHead(Stepped(b) * SECTORS_PER_TRACK)
          \/ UNCHANGED <<diskPointer, sectorDirty, haveSectorData, image, promised>>
      BY <1>2 DEF DiskFunction
    <2>3. Stepped(b) * SECTORS_PER_TRACK \in Positions
      BY <2>1, SeekTarget
    <2> QED
      BY <1>1, <2>1, <2>2, <2>3, MoveKeepsSectors
  <1>3. CASE NextSector
    <2>1. currentDisk # -1 /\ UNCHANGED <<SD_CARD_ENABLED, sectorData, served>>
      BY <1>3 DEF NextSector
    <2>2. PICK position \in Positions : MoveHead(position)
      BY <1>3, TurnTarget
    <2> QED
      BY <2>1, <2>2, MoveKeepsSectors
  <1>4. ASSUME NEW drive \in Drives, Select(drive)
        PROVE  CompleteWritesSurvive' /\ ReadsSectorUnderHead'
    BY <1>1, <1>4 DEF Select, headVars, ghostVars
  <1>5. CASE UNCHANGED vars
    BY <1>1, <1>5 DEF vars, headVars, ghostVars
  <1> QED
    BY <1>2, <1>3, <1>4, <1>5, WriteKeepsSectors, ReadKeepsSectors DEF Next

LEMMA SectorsInit == Init => CompleteWritesSurvive /\ ReadsSectorUnderHead
  BY DriveFacts DEF Init, CompleteWritesSurvive, ReadsSectorUnderHead

\* A sector that the guest has written to its last byte reads back as written until
\* it is written again or the medium loses it, through every seek, turn of the disk,
\* drive selection and read, for drives that share neither disk_t nor medium.
THEOREM WrittenSectorsSurvive ==
    ASSUME OneDrivePerDisk, OneDrivePerMedium
    PROVE  Spec => []CompleteWritesSurvive
  <1> DEFINE Inv == CompleteWritesSurvive /\ ReadsSectorUnderHead
  <1>1. DriveInv /\ Inv /\ [Next]_vars => Inv'
    BY SectorsStep
  <1>2. Init => Inv
    BY SectorsInit
  <1> QED
    BY <1>1, <1>2, DriveInvariant, PTL DEF Spec

\* The bytes the guest reads are those of the sector under the head of the drive it
\* selected, for such drives.
THEOREM ReadsUnderHead ==
    ASSUME OneDrivePerDisk, OneDrivePerMedium
    PROVE  Spec => []ReadsSectorUnderHead
  <1> DEFINE Inv == CompleteWritesSurvive /\ ReadsSectorUnderHead
  <1>1. DriveInv /\ Inv /\ [Next]_vars => Inv'
    BY SectorsStep
  <1>2. Init => Inv
    BY SectorsInit
  <1> QED
    BY <1>1, <1>2, DriveInvariant, PTL DEF Spec
=============================================================================
