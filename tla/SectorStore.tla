---------------------------- MODULE SectorStore ----------------------------
(***************************************************************************)
(* What the virtual disk promises the drive above it: a store of sectors   *)
(* with one client, in which a read returns what was last written.  A      *)
(* sector's content is abstracted to a stamp: the sector it was written    *)
(* for and the number of writes that sector has had.                       *)
(***************************************************************************)
EXTENDS Naturals

CONSTANTS
    Sectors,
    NoSector,       \* no read is in progress (UINT32_MAX in the code)
    NoData          \* the content of a buffer nothing was read into

VARIABLES
    latest,         \* latest[s]: writes of sector s so far
    reading,        \* the sector being read, or NoSector
    buffer          \* the sector buffer of the client

storeVars == <<latest, reading, buffer>>

Stored(s) == [of |-> s, version |-> latest[s]]

StoreInit ==
    /\ latest = [s \in Sectors |-> 0]
    /\ reading = NoSector
    /\ buffer = NoData

\* A write takes the content the client has put in the buffer.
StoreWrite(s) ==
    /\ reading = NoSector
    /\ latest' = [latest EXCEPT ![s] = @ + 1]
    /\ buffer' = [of |-> s, version |-> latest[s] + 1]
    /\ UNCHANGED reading

StoreBeginRead(s) ==
    /\ reading = NoSector
    /\ reading' = s
    /\ UNCHANGED <<latest, buffer>>

\* A read that is over has filled the buffer with the last write.
StoreEndRead ==
    /\ reading # NoSector
    /\ buffer' = Stored(reading)
    /\ reading' = NoSector
    /\ UNCHANGED latest

StoreNext ==
    \/ \E s \in Sectors : StoreWrite(s) \/ StoreBeginRead(s)
    \/ StoreEndRead

StoreSpec == StoreInit /\ [][StoreNext]_storeVars
=============================================================================
