---------------------------- MODULE VirtualDisk ----------------------------
(***************************************************************************)
(* The virtual disk behind drives 1 and above of the emulator: how a       *)
(* sector is read and written by read_virtual_sector and                   *)
(* write_virtual_sector (AltairHL_emulator/Altair8800/88dcdd.c) through    *)
(* the sector cache of the M4 core and the Python disk server.             *)
(*                                                                         *)
(* Four actors run concurrently:                                           *)
(*   CPU     the thread of the emulated 8080, the only client of the disk; *)
(*   MQTT    the thread of the MQTT client, which calls                    *)
(*           vdisk_mqtt_response_cb for an inbound sector;                 *)
(*   M4      the cache server (DiskCache), behind two mailbox rings;       *)
(*   Server  PyDiskSvr.py, behind the MQTT broker.                         *)
(*                                                                         *)
(* A sector and its diskPointer (137 times the sector) are one to one, so  *)
(* both are the sector number here.  The content of a sector is a stamp:   *)
(* which sector it was written for, and the how-manieth write it was.      *)
(***************************************************************************)
EXTENDS DiskCache

CONSTANTS
    Sectors,        \* sector numbers; 0 is one of them
    UINT32_MAX,     \* value of sector_requested when nothing is requested
    MAILBOX_SLOTS,  \* messages each mailbox ring holds
    MaxOps,         \* bound: disk operations the CPU starts
    Faults          \* which of AllFaults the environment may show

\* slowM4:    the cache's answer may take longer than the 1 ms the A7 waits,
\*            and its inbound ring may be full
\* loss:      the broker connection drops and MQTT messages (QoS 0) get lost
\* lateReply: a sector may take longer than the 8 s the CPU waits for it
\* spurious:  pthread_cond_timedwait may return without a signal
AllFaults == {"slowM4", "loss", "lateReply", "spurious"}

ASSUME DiskAssumption ==
    /\ Sectors \subseteq Nat
    /\ 0 \in Sectors
    /\ UINT32_MAX \in Nat \ Sectors
    /\ MAILBOX_SLOTS \in Nat \ {0}
    /\ MaxOps \in Nat
    /\ Faults \subseteq AllFaults

VARIABLES
    \* ---- the CPU thread
    cpuPc,              \* where it is in read_virtual_sector
    current,            \* the sector of pDisk->diskPointer
    sectorData,         \* pDisk->sectorData
    outcome,            \* how the last read ended: none, ok, failed
    stats,              \* dt_diskCacheHits, Misses, TotalWrites, TotalErrors
    \* ---- shared by the CPU and the MQTT thread
    sector_requested,
    vdisk_sector,       \* [dirty, data]
    lock,               \* the mutex: free, or held by the MQTT thread
    woken,              \* cond1 was signalled while the CPU waited
    \* ---- the MQTT thread
    mqttPc,
    inbound,            \* the sector message the callback works on
    mqtt_connected,
    \* ---- channels and the two servers
    toM4, toA7,         \* mailbox rings
    cache,              \* the M4's table
    toServer, toDevice, \* MQTT messages in flight
    store,              \* the disk image of the server
    \* ---- ghosts
    latest,             \* latest[s]: how often the CPU has written s
    overlapped,         \* a read began while an answer to an earlier one
                        \* was still on its way
    ops                 \* operations started

cpuVars == <<cpuPc, current, sectorData, outcome, stats>>
sharedVars == <<sector_requested, vdisk_sector, lock, woken>>
mqttVars == <<mqttPc, inbound, mqtt_connected>>
m4Vars == <<toM4, toA7, cache>>
serverVars == <<toServer, toDevice, store>>
ghostVars == <<latest, overlapped, ops>>

vars == <<cpuVars, sharedVars, mqttVars, m4Vars, serverVars, ghostVars>>

Content == [of : Sectors \cup {UINT32_MAX}, version : Nat]
NoData == [of |-> UINT32_MAX, version |-> 0]
TornData == [of |-> UINT32_MAX, version |-> 1]

Stamp(s, v) == [of |-> s, version |-> v]

CacheRead(s) == [type |-> "DISK_IC_READ", sector_number |-> s, sector |-> NoData]
CacheWrite(s, d) == [type |-> "DISK_IC_WRITE", sector_number |-> s, sector |-> d]
CacheRequest ==
    [type : {"DISK_IC_READ", "DISK_IC_WRITE"}, sector_number : Sectors,
     sector : Content]
CacheReply == [cached : BOOLEAN, sector_number : Sectors, sector : Content]

DiskRead(s) == [topic |-> "read", offset |-> s, data |-> NoData]
DiskWrite(s, d) == [topic |-> "write", offset |-> s, data |-> d]
DiskRequest == [topic : {"read", "write"}, offset : Sectors, data : Content]
SectorMessage == [offset : Sectors, data : Content]

Init ==
    /\ cpuPc = "idle"
    /\ current = 0
    /\ sectorData = NoData
    /\ outcome = "none"
    /\ stats = [hits |-> 0, misses |-> 0, writes |-> 0, errors |-> 0]
    /\ sector_requested = UINT32_MAX
    /\ vdisk_sector = [dirty |-> FALSE, data |-> NoData]
    /\ lock = "free"
    /\ woken = FALSE
    /\ mqttPc = "idle"
    /\ inbound = [offset |-> 0, data |-> NoData]
    /\ mqtt_connected = TRUE
    /\ toM4 = <<>>
    /\ toA7 = <<>>
    /\ cache = <<>>
    /\ toServer = <<>>
    /\ toDevice = <<>>
    /\ store = [s \in Sectors |-> Stamp(s, 0)]
    /\ latest = [s \in Sectors |-> 0]
    /\ overlapped = FALSE
    /\ ops = 0

-----------------------------------------------------------------------------
(***************************************************************************)
(* Sending.  dx_intercorePublish puts a message in the M4's ring or, when  *)
(* the ring is full, fails; vdisk_cache_write_sector ignores the failure.  *)
(* Without the fault slowM4 the M4 has drained its ring in time.           *)
(***************************************************************************)
MailboxReady == "slowM4" \in Faults \/ Len(toM4) < MAILBOX_SLOTS

Posted(ring, message) ==
    IF Len(ring) < MAILBOX_SLOTS THEN Append(ring, message) ELSE ring

\* vdisk_mqtt_read_sector, vdisk_mqtt_write_sector: nothing is sent, and
\* nobody is told, while the client is not connected.
Published(message) ==
    IF mqtt_connected THEN Append(toServer, message) ELSE toServer

\* A sector request is with the broker or the server, or its answer is on the
\* way to, or in, the callback.
AnswerInFlight ==
    \/ \E i \in DOMAIN toServer : toServer[i].topic = "read"
    \/ toDevice # <<>>
    \/ mqttPc # "idle"

-----------------------------------------------------------------------------
(***************************************************************************)
(* The CPU thread.                                                         *)
(***************************************************************************)

\* Mutant: the cache is not told of the write.
WriteSectorNoCache(s) ==
    LET data == Stamp(s, latest[s] + 1) IN
    /\ cpuPc = "idle"
    /\ ops < MaxOps
    /\ MailboxReady
    /\ current' = s
    /\ sectorData' = data
    /\ outcome' = "none"
    /\ latest' = [latest EXCEPT ![s] = @ + 1]
    /\ toServer' = Published(DiskWrite(s, data))
    /\ stats' = [stats EXCEPT !.writes = @ + 1]
    /\ ops' = ops + 1
    /\ UNCHANGED <<cpuPc, sharedVars, mqttVars, m4Vars, toDevice, store,
                   overlapped>>

\* write_virtual_sector: the new content goes to the cache, then to the
\* server; neither answers.
WriteSector(s) ==
    LET data == Stamp(s, latest[s] + 1) IN
    /\ cpuPc = "idle"
    /\ ops < MaxOps
    /\ MailboxReady
    /\ current' = s
    /\ sectorData' = data
    /\ outcome' = "none"
    /\ latest' = [latest EXCEPT ![s] = @ + 1]
    /\ toM4' = Posted(toM4, CacheWrite(s, data))
    /\ toServer' = Published(DiskWrite(s, data))
    /\ stats' = [stats EXCEPT !.writes = @ + 1]
    /\ ops' = ops + 1
    /\ UNCHANGED <<cpuPc, sharedVars, mqttVars, toA7, cache, toDevice, store,
                   overlapped>>

\* read_virtual_sector up to the request sent to the cache.  If the request
\* does not fit in the ring the call fails at once and the cache is skipped.
BeginRead(s) ==
    /\ cpuPc = "idle"
    /\ ops < MaxOps
    /\ MailboxReady
    /\ current' = s
    /\ outcome' = "none"
    /\ vdisk_sector' = [vdisk_sector EXCEPT !.dirty = FALSE]
    /\ toM4' = Posted(toM4, CacheRead(s))
    /\ cpuPc' = IF Len(toM4) < MAILBOX_SLOTS THEN "cacheWait" ELSE "request"
    /\ overlapped' = (overlapped \/ AnswerInFlight)
    /\ ops' = ops + 1
    /\ UNCHANGED <<sectorData, stats, sector_requested, lock, woken, mqttVars,
                   toA7, cache, serverVars, latest>>

\* A reply is a hit only if it says so and is about the sector asked for: it
\* may be the answer to an earlier request that came too late.
\* Mutant: the number is not looked at.
IsHitByFlag(reply) == reply.cached
IsHit(reply) == reply.cached /\ reply.sector_number = current

CacheHit ==
    /\ cpuPc = "cacheWait"
    /\ toA7 # <<>>
    /\ IsHit(Head(toA7))
    /\ sectorData' = Head(toA7).sector
    /\ toA7' = Tail(toA7)
    /\ stats' = [stats EXCEPT !.hits = @ + 1]
    /\ outcome' = "ok"
    /\ cpuPc' = "idle"
    /\ UNCHANGED <<current, sharedVars, mqttVars, toM4, cache, serverVars, ghostVars>>

CacheMiss ==
    /\ cpuPc = "cacheWait"
    /\ toA7 # <<>>
    /\ ~IsHit(Head(toA7))
    /\ toA7' = Tail(toA7)
    /\ stats' = [stats EXCEPT !.misses = @ + 1]
    /\ cpuPc' = "request"
    /\ UNCHANGED <<current, sectorData, outcome, sharedVars, mqttVars, toM4,
                   cache, serverVars, ghostVars>>

\* dx_intercorePublishThenRead gives up after 1 ms; the answer, when it comes,
\* stays in the ring.  Neither a hit nor a miss is counted.
CacheTimeout ==
    /\ cpuPc = "cacheWait"
    /\ "slowM4" \in Faults
    /\ toA7 = <<>>
    /\ cpuPc' = "request"
    /\ UNCHANGED <<current, sectorData, outcome, stats, sharedVars, mqttVars,
                   m4Vars, serverVars, ghostVars>>

\* Mutant: the request is published, sector_requested is not set for it.
RequestSectorUnnamed ==
    /\ cpuPc = "request"
    /\ toServer' = Published(DiskRead(current))
    /\ cpuPc' = "wait"
    /\ UNCHANGED <<current, sectorData, outcome, stats, sharedVars,
                   mqttVars, m4Vars, toDevice, store, ghostVars>>

\* sector_requested is set, then the request goes to the server.
RequestSector ==
    /\ cpuPc = "request"
    /\ sector_requested' = current
    /\ toServer' = Published(DiskRead(current))
    /\ cpuPc' = "wait"
    /\ UNCHANGED <<current, sectorData, outcome, stats, vdisk_sector, lock, woken,
                   mqttVars, m4Vars, toDevice, store, ghostVars>>

\* Mutant: dirty is cleared here, just before the wait.
WaitForSectorClearing ==
    /\ cpuPc = "wait"
    /\ lock = "free"
    /\ woken' = FALSE
    /\ vdisk_sector' = [vdisk_sector EXCEPT !.dirty = FALSE]
    /\ cpuPc' = "waiting"
    /\ UNCHANGED <<current, sectorData, outcome, stats, sector_requested,
                   lock, mqttVars, m4Vars, serverVars, ghostVars>>

\* The CPU takes the lock and, without looking whether the sector has come
\* already, waits, which releases the lock.
WaitForSector ==
    /\ cpuPc = "wait"
    /\ lock = "free"
    /\ woken' = FALSE
    /\ cpuPc' = "waiting"
    /\ UNCHANGED <<current, sectorData, outcome, stats, sector_requested,
                   vdisk_sector, lock, mqttVars, m4Vars, serverVars, ghostVars>>

EndWait ==
    /\ cpuPc = "waiting"
    /\ lock = "free"
    /\ cpuPc' = "check"
    /\ UNCHANGED <<current, sectorData, outcome, stats, sharedVars, mqttVars,
                   m4Vars, serverVars, ghostVars>>

Woken == woken /\ EndWait

\* Mutant: the wait has no time limit.
TimeoutNever == FALSE /\ EndWait

\* Eight seconds have passed.  Without the fault lateReply an answer needs
\* less than that.
TimeoutOver == ("lateReply" \in Faults \/ ~AnswerInFlight) /\ EndWait

SpuriousWakeup == "spurious" \in Faults /\ EndWait

\* After the wait dirty is read without the lock.
ReadFailed ==
    /\ cpuPc = "check"
    /\ ~vdisk_sector.dirty
    /\ stats' = [stats EXCEPT !.errors = @ + 1]
    /\ outcome' = "failed"
    /\ cpuPc' = "idle"
    /\ UNCHANGED <<current, sectorData, sharedVars, mqttVars, m4Vars,
                   serverVars, ghostVars>>

SectorArrived ==
    /\ cpuPc = "check"
    /\ vdisk_sector.dirty
    /\ cpuPc' = "copyOut"
    /\ UNCHANGED <<current, sectorData, outcome, stats, sharedVars, mqttVars,
                   m4Vars, serverVars, ghostVars>>

\* The sector is copied out of vdisk_sector, also without the lock: while the
\* MQTT thread copies another one in, the copy may be a mixture of the two.
CopiedOut ==
    IF mqttPc = "copyIn"
    THEN {vdisk_sector.data, TornData, inbound.data}
    ELSE {vdisk_sector.data}

\* The sector is handed to the drive and to the cache.
TakeSector ==
    /\ cpuPc = "copyOut"
    /\ MailboxReady
    /\ \E data \in CopiedOut :
        /\ sectorData' = data
        /\ toM4' = Posted(toM4, CacheWrite(current, data))
    /\ outcome' = "ok"
    /\ cpuPc' = "idle"
    /\ UNCHANGED <<current, stats, sharedVars, mqttVars, toA7, cache,
                   serverVars, ghostVars>>

-----------------------------------------------------------------------------
(***************************************************************************)
(* The MQTT thread in vdisk_mqtt_response_cb.                              *)
(***************************************************************************)

\* A sector message arrives and its first four bytes are compared with
\* sector_requested, without the lock.  Another sector's is dropped.
Receive ==
    /\ mqttPc = "idle"
    /\ toDevice # <<>>
    /\ inbound' = Head(toDevice)
    /\ toDevice' = Tail(toDevice)
    /\ mqttPc' = IF Head(toDevice).offset = sector_requested
                 THEN "matched" ELSE "idle"
    /\ UNCHANGED <<mqtt_connected, cpuVars, sharedVars, m4Vars, toServer, store,
                   ghostVars>>

ForgetRequest ==
    /\ mqttPc = "matched"
    /\ sector_requested' = UINT32_MAX
    /\ mqttPc' = "locking"
    /\ UNCHANGED <<inbound, mqtt_connected, cpuVars, vdisk_sector, lock, woken,
                   m4Vars, serverVars, ghostVars>>

\* Mutant: dirty is set before the copy.
TakeLockDirty ==
    /\ mqttPc = "locking"
    /\ lock = "free"
    /\ lock' = "mqtt"
    /\ vdisk_sector' = [vdisk_sector EXCEPT !.dirty = TRUE]
    /\ mqttPc' = "copyIn"
    /\ UNCHANGED <<inbound, mqtt_connected, cpuVars, sector_requested, woken,
                   m4Vars, serverVars, ghostVars>>

TakeLock ==
    /\ mqttPc = "locking"
    /\ lock = "free"
    /\ lock' = "mqtt"
    /\ mqttPc' = "copyIn"
    /\ UNCHANGED <<inbound, mqtt_connected, cpuVars, sector_requested,
                   vdisk_sector, woken, m4Vars, serverVars, ghostVars>>

\* The copy into vdisk_sector ends, and dirty is set.
CopyIn ==
    /\ mqttPc = "copyIn"
    /\ vdisk_sector' = [dirty |-> TRUE, data |-> inbound.data]
    /\ mqttPc' = "signal"
    /\ UNCHANGED <<inbound, mqtt_connected, cpuVars, sector_requested, lock,
                   woken, m4Vars, serverVars, ghostVars>>

\* pthread_cond_signal wakes the CPU if it waits and is lost if it does not;
\* then the lock is released.
Signal ==
    /\ mqttPc = "signal"
    /\ woken' = (woken \/ cpuPc = "waiting")
    /\ lock' = "free"
    /\ mqttPc' = "idle"
    /\ UNCHANGED <<inbound, mqtt_connected, cpuVars, sector_requested,
                   vdisk_sector, m4Vars, serverVars, ghostVars>>

-----------------------------------------------------------------------------
(***************************************************************************)
(* The M4: process_inbound_message.  A miss is answered with zeros; the    *)
(* answer is lost if the ring to the A7 is full.                           *)
(***************************************************************************)
MissReply == [cached |-> FALSE, sector_number |-> 0, sector |-> NoData]

HitReply(s) ==
    [cached |-> TRUE, sector_number |-> s, sector |-> CachedSector(cache, s)]

M4Read ==
    LET s == Head(toM4).sector_number IN
    /\ toM4 # <<>>
    /\ Head(toM4).type = "DISK_IC_READ"
    /\ toM4' = Tail(toM4)
    /\ toA7' = Posted(toA7, IF InCache(cache, s) THEN HitReply(s) ELSE MissReply)
    /\ cache' = FindInCache(cache, s)
    /\ UNCHANGED <<cpuVars, sharedVars, mqttVars, serverVars, ghostVars>>

M4Write ==
    /\ toM4 # <<>>
    /\ Head(toM4).type = "DISK_IC_WRITE"
    /\ toM4' = Tail(toM4)
    /\ cache' = AddToCache(cache, Head(toM4).sector_number, Head(toM4).sector)
    /\ UNCHANGED <<toA7, cpuVars, sharedVars, mqttVars, serverVars, ghostVars>>

-----------------------------------------------------------------------------
(***************************************************************************)
(* The disk server: on_message.                                            *)
(***************************************************************************)
ServerRead ==
    LET s == Head(toServer).offset IN
    /\ toServer # <<>>
    /\ Head(toServer).topic = "read"
    /\ toServer' = Tail(toServer)
    /\ toDevice' = Append(toDevice, [offset |-> s, data |-> store[s]])
    /\ UNCHANGED <<store, cpuVars, sharedVars, mqttVars, m4Vars, ghostVars>>

ServerWrite ==
    /\ toServer # <<>>
    /\ Head(toServer).topic = "write"
    /\ toServer' = Tail(toServer)
    /\ store' = [store EXCEPT ![Head(toServer).offset] = Head(toServer).data]
    /\ UNCHANGED <<toDevice, cpuVars, sharedVars, mqttVars, m4Vars, ghostVars>>

-----------------------------------------------------------------------------
(***************************************************************************)
(* The network: a QoS 0 message may be lost, the connection come and go.   *)
(***************************************************************************)
LoseRequest ==
    /\ "loss" \in Faults
    /\ toServer # <<>>
    /\ toServer' = Tail(toServer)
    /\ UNCHANGED <<toDevice, store, cpuVars, sharedVars, mqttVars, m4Vars, ghostVars>>

LoseSector ==
    /\ "loss" \in Faults
    /\ toDevice # <<>>
    /\ toDevice' = Tail(toDevice)
    /\ UNCHANGED <<toServer, store, cpuVars, sharedVars, mqttVars, m4Vars, ghostVars>>

ConnectionChange ==
    /\ "loss" \in Faults
    /\ mqtt_connected' = ~mqtt_connected
    /\ UNCHANGED <<mqttPc, inbound, cpuVars, sharedVars, m4Vars, serverVars,
                   ghostVars>>

-----------------------------------------------------------------------------
CpuProceeds ==
    \/ CacheHit \/ CacheMiss \/ CacheTimeout
    \/ RequestSector \/ WaitForSector
    \/ Woken \/ TimeoutOver
    \/ ReadFailed \/ SectorArrived \/ TakeSector

CpuContinues == CpuProceeds \/ SpuriousWakeup

MqttStep == Receive \/ ForgetRequest \/ TakeLock \/ CopyIn \/ Signal

M4Step == M4Read \/ M4Write

ServerStep == ServerRead \/ ServerWrite

Network == LoseRequest \/ LoseSector \/ ConnectionChange

Next ==
    \/ \E s \in Sectors : WriteSector(s) \/ BeginRead(s)
    \/ CpuContinues
    \/ MqttStep
    \/ M4Step
    \/ ServerStep
    \/ Network

Spec == Init /\ [][Next]_vars

(***************************************************************************)
(* Every thread that can run does, the M4 polls forever, and the eight     *)
(* seconds pass.  The guest need not use its disk, and nothing is assumed  *)
(* of the faults: no lost message, no spurious wakeup need ever come.      *)
(***************************************************************************)
Fairness ==
    /\ WF_vars(CpuProceeds)
    /\ WF_vars(MqttStep)
    /\ WF_vars(M4Step)
    /\ WF_vars(ServerStep)

FairSpec == Spec /\ Fairness

-----------------------------------------------------------------------------
(***************************************************************************)
(* Properties.                                                             *)
(***************************************************************************)

\* Type invariant.
TypeOK ==
    /\ cpuPc \in {"idle", "cacheWait", "request", "wait", "waiting", "check",
                  "copyOut"}
    /\ current \in Sectors
    /\ sectorData \in Content
    /\ outcome \in {"none", "ok", "failed"}
    /\ stats \in [hits : Nat, misses : Nat, writes : Nat, errors : Nat]
    /\ sector_requested \in Sectors \cup {UINT32_MAX}
    /\ vdisk_sector \in [dirty : BOOLEAN, data : Content]
    /\ lock \in {"free", "mqtt"}
    /\ woken \in BOOLEAN
    /\ mqttPc \in {"idle", "matched", "locking", "copyIn", "signal"}
    /\ inbound \in SectorMessage
    /\ mqtt_connected \in BOOLEAN
    /\ toM4 \in Seq(CacheRequest)
    /\ toA7 \in Seq(CacheReply)
    /\ cache \in Seq(CacheEntry(Sectors, Content))
    /\ toServer \in Seq(DiskRequest)
    /\ toDevice \in Seq(SectorMessage)
    /\ store \in [Sectors -> Content]
    /\ latest \in [Sectors -> Nat]
    /\ overlapped \in BOOLEAN
    /\ ops \in Nat

\* The buffer of a read that succeeded holds the sector that was asked for,
\* and the cache never holds one sector's content under another's number.
RightSectorEver ==
    /\ outcome = "ok" => sectorData.of = current
    /\ \A i \in DOMAIN cache : cache[i].sector.of = cache[i].sector_number_key

\* That is so, under every fault, until a read begins while the answer to an
\* earlier one, given up after eight seconds, is still on its way.
RightSector == ~overlapped => RightSectorEver

\* Nor does, until then, the CPU copy vdisk_sector out, without the lock, while
\* the MQTT thread copies into it.
NoDataRace == ~overlapped => ~(cpuPc = "copyOut" /\ mqttPc = "copyIn")

\* Until then the MQTT thread clears sector_requested only for the read it
\* answers: a read the CPU waits for is still requested, is being answered, or
\* was answered.
RequestNotClobbered ==
    ~overlapped /\ cpuPc \in {"wait", "waiting"} =>
        \/ sector_requested = current
        \/ mqttPc \in {"locking", "copyIn"} /\ inbound.offset = current
        \/ vdisk_sector.dirty

\* Without faults no read fails: a timeout after a lost signal still finds the
\* sector in vdisk_sector.
NoReadFails == outcome # "failed"

\* A read the guest starts comes to an end, whether or not its messages do.
ReadTerminates == cpuPc # "idle" ~> cpuPc = "idle"

\* What the disk promises: the buffer after a read is what was last written.
\* While a read is under way the abstract buffer is the one it found.
Store ==
    INSTANCE SectorStore WITH
        NoSector <- UINT32_MAX,
        reading <- IF cpuPc = "idle" THEN UINT32_MAX ELSE current,
        buffer <- sectorData

ReadsReturnLastWrite == Store!StoreSpec
=============================================================================
