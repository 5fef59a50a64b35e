------------------------- MODULE VirtualDiskProofs -------------------------
(***************************************************************************)
(* The virtual disk returns the sector that was asked for, does not race   *)
(* on vdisk_sector and does not lose a request, for every set of sectors,  *)
(* cache size and ring size and under every fault, as long as no read      *)
(* begins while the answer to an earlier one is on its way.                *)
(*                                                                         *)
(* The invariant that makes RightSector inductive has two parts.  Contents *)
(* that travel towards or from the server always carry their own sector's  *)
(* number (ServerSideRight).  As long as reads have not overlapped, so do  *)
(* those towards and from the cache (CacheSideRight), at most one answer   *)
(* is on its way (OneAnswer), and it is the answer to the read the CPU     *)
(* waits for (Handshake).                                                  *)
(*                                                                         *)
(* Where no answer is late and no wait ends unsignalled, none ever does    *)
(* (Timely).  The last part is about the disk without faults: no read      *)
(* fails, and the whole implements SectorStore.                            *)
(***************************************************************************)
EXTENDS VirtualDisk, DiskCacheProofs

IsRead(q, i) == q[i].topic = "read"

ServerSideRight ==
    /\ \A i \in DOMAIN toServer :
         toServer[i].topic = "write" => toServer[i].data.of = toServer[i].offset
    /\ \A i \in DOMAIN toDevice : toDevice[i].data.of = toDevice[i].offset
    /\ \A s \in Sectors : store[s].of = s
    /\ mqttPc # "idle" => inbound.data.of = inbound.offset

CacheSideRight ==
    /\ \A i \in DOMAIN toM4 :
         toM4[i].type = "DISK_IC_WRITE" => toM4[i].sector.of = toM4[i].sector_number
    /\ \A i \in DOMAIN toA7 :
         toA7[i].cached => toA7[i].sector.of = toA7[i].sector_number
    /\ \A i \in DOMAIN cache : cache[i].sector.of = cache[i].sector_number_key

OneAnswer ==
    /\ \A i, j \in DOMAIN toServer :
         IsRead(toServer, i) /\ IsRead(toServer, j) => i = j
    /\ Len(toDevice) <= 1
    /\ (\E i \in DOMAIN toServer : IsRead(toServer, i))
         => toDevice = <<>> /\ mqttPc = "idle"
    /\ toDevice # <<>> => mqttPc = "idle"

\* Every answer on its way is about the sector of the CPU's read.
AnswersCurrent ==
    /\ \A i \in DOMAIN toServer : IsRead(toServer, i) => toServer[i].offset = current
    /\ \A i \in DOMAIN toDevice : toDevice[i].offset = current
    /\ mqttPc # "idle" => inbound.offset = current

\* The answer has left nothing behind but its signal.
Answered ==
    /\ \A i \in DOMAIN toServer : ~IsRead(toServer, i)
    /\ toDevice = <<>>
    /\ mqttPc \in {"idle", "signal"}

Handshake ==
    /\ cpuPc \in {"cacheWait", "request"} => ~AnswerInFlight /\ ~vdisk_sector.dirty
    /\ cpuPc \in {"wait", "waiting", "check"} => AnswersCurrent
    /\ cpuPc \in {"wait", "waiting", "check", "copyOut"} /\ vdisk_sector.dirty
         => Answered /\ vdisk_sector.data.of = current
    /\ cpuPc = "copyOut" => vdisk_sector.dirty

RequestKnown ==
    cpuPc \in {"wait", "waiting"} =>
        \/ sector_requested = current
        \/ mqttPc \in {"locking", "copyIn"}
        \/ vdisk_sector.dirty

BufferRight == outcome = "ok" => sectorData.of = current

ReadInv ==
    /\ CacheSideRight
    /\ OneAnswer
    /\ Handshake
    /\ RequestKnown
    /\ BufferRight

Inv == TypeOK /\ ServerSideRight /\ (~overlapped => ReadInv)

-----------------------------------------------------------------------------
\* Putting a message in a ring: either it fits, or nothing changes.
LEMMA PostedFacts ==
    ASSUME NEW S, NEW ring \in Seq(S), NEW m \in S
    PROVE  /\ Posted(ring, m) \in Seq(S)
           /\ \A i \in DOMAIN Posted(ring, m) :
                \/ i \in DOMAIN ring /\ Posted(ring, m)[i] = ring[i]
                \/ Posted(ring, m)[i] = m
  <1>1. CASE Len(ring) < MAILBOX_SLOTS
    <2>1. Posted(ring, m) = Append(ring, m)
      BY <1>1 DEF Posted
    <2> QED
      BY <2>1, AppendFacts
  <1>2. CASE ~(Len(ring) < MAILBOX_SLOTS)
    <2>1. Posted(ring, m) = ring
      BY <1>2 DEF Posted
    <2> QED
      BY <2>1
  <1> QED
    BY <1>1, <1>2

LEMMA PublishedFacts ==
    ASSUME TypeOK, NEW m \in DiskRequest
    PROVE  /\ Published(m) \in Seq(DiskRequest)
           /\ \A i \in DOMAIN Published(m) :
                \/ i \in DOMAIN toServer /\ Published(m)[i] = toServer[i]
                \/ i = Len(toServer) + 1 /\ Published(m)[i] = m
           /\ DOMAIN toServer = 1 .. Len(toServer)
           /\ Len(toServer) \in Nat
  <1>1. toServer \in Seq(DiskRequest)
    BY DEF TypeOK
  <1>2. CASE mqtt_connected
    <2>1. Published(m) = Append(toServer, m)
      BY <1>2 DEF Published
    <2> QED
      BY <1>1, <2>1, AppendFacts
  <1>3. CASE ~mqtt_connected
    <2>1. Published(m) = toServer
      BY <1>3 DEF Published
    <2> QED
      BY <1>1, <2>1
  <1> QED
    BY <1>2, <1>3

\* The kinds of message the CPU sends have their types.
LEMMA MessageTypes ==
    ASSUME NEW s \in Sectors, NEW d \in Content
    PROVE  /\ CacheRead(s) \in CacheRequest
           /\ CacheWrite(s, d) \in CacheRequest
           /\ DiskRead(s) \in DiskRequest
           /\ DiskWrite(s, d) \in DiskRequest
  BY DEF CacheRead, CacheWrite, CacheRequest, DiskRead, DiskWrite, DiskRequest,
         NoData, Content

LEMMA ContentTypes ==
    /\ NoData \in Content
    /\ TornData \in Content
    /\ \A s \in Sectors, v \in Nat : Stamp(s, v) \in Content
  BY DEF NoData, TornData, Content, Stamp
\* Counting one operation keeps the counters natural numbers.
LEMMA CountingType ==
    ASSUME NEW c \in [hits : Nat, misses : Nat, writes : Nat, errors : Nat]
    PROVE  /\ [c EXCEPT !.hits = @ + 1] \in [hits : Nat, misses : Nat, writes : Nat, errors : Nat]
           /\ [c EXCEPT !.misses = @ + 1] \in [hits : Nat, misses : Nat, writes : Nat, errors : Nat]
           /\ [c EXCEPT !.writes = @ + 1] \in [hits : Nat, misses : Nat, writes : Nat, errors : Nat]
           /\ [c EXCEPT !.errors = @ + 1] \in [hits : Nat, misses : Nat, writes : Nat, errors : Nat]
  OBVIOUS
-----------------------------------------------------------------------------
LEMMA InitType == Init => TypeOK
  <1> SUFFICES ASSUME Init PROVE TypeOK
    OBVIOUS
  <1>1. 0 \in Sectors
    BY DiskAssumption
  <1>2. /\ toM4 \in Seq(CacheRequest) /\ toA7 \in Seq(CacheReply)
        /\ cache \in Seq(CacheEntry(Sectors, Content))
        /\ toServer \in Seq(DiskRequest) /\ toDevice \in Seq(SectorMessage)
    BY DEF Init
  <1>3. /\ store \in [Sectors -> Content] /\ latest \in [Sectors -> Nat]
    BY ContentTypes DEF Init
  <1>4. sectorData \in Content /\ vdisk_sector \in [dirty : BOOLEAN, data : Content]
    BY ContentTypes DEF Init
  <1>5. inbound \in SectorMessage
    BY <1>1, ContentTypes DEF Init, SectorMessage
  <1>6. stats \in [hits : Nat, misses : Nat, writes : Nat, errors : Nat]
    BY DEF Init
  <1> QED
    BY <1>1, <1>2, <1>3, <1>4, <1>5, <1>6 DEF Init, TypeOK

\* One step of any actor keeps the types.
LEMMA CpuStartsType ==
    ASSUME TypeOK, NEW s \in Sectors, WriteSector(s) \/ BeginRead(s)
    PROVE  TypeOK'
  <1>1. CASE WriteSector(s)
    <2> DEFINE data == Stamp(s, latest[s] + 1)
    <2>1. latest[s] + 1 \in Nat
      BY DEF TypeOK
    <2>2. data \in Content
      BY <2>1, ContentTypes
    <2>3. CacheWrite(s, data) \in CacheRequest /\ DiskWrite(s, data) \in DiskRequest
      BY <2>2, MessageTypes
    <2> HIDE DEF data
    <2>4. toM4' \in Seq(CacheRequest) /\ toServer' \in Seq(DiskRequest)
      BY <1>1, <2>3, PostedFacts, PublishedFacts DEF WriteSector, TypeOK, data
    <2>5. sectorData' \in Content
      BY <1>1, <2>2 DEF WriteSector, data
    <2>6. latest' \in [Sectors -> Nat]
      BY <1>1, <2>1 DEF WriteSector, TypeOK
    <2>7. stats' \in [hits : Nat, misses : Nat, writes : Nat, errors : Nat]
      BY <1>1, CountingType DEF WriteSector, TypeOK
    <2>8. current' \in Sectors /\ outcome' \in {"none", "ok", "failed"} /\ ops' \in Nat
      BY <1>1 DEF WriteSector, TypeOK
    <2>9. UNCHANGED <<cpuPc, sector_requested, vdisk_sector, lock, woken, mqttPc,
                      inbound, mqtt_connected, toA7, cache, toDevice, store, overlapped>>
      BY <1>1 DEF WriteSector, sharedVars, mqttVars
    <2> QED
      BY <2>4, <2>5, <2>6, <2>7, <2>8, <2>9 DEF TypeOK
  <1>2. CASE BeginRead(s)
    <2>1. CacheRead(s) \in CacheRequest
      BY ContentTypes, MessageTypes
    <2>2. toM4' \in Seq(CacheRequest)
      BY <1>2, <2>1, PostedFacts DEF BeginRead, TypeOK
    <2>3. vdisk_sector' \in [dirty : BOOLEAN, data : Content]
      BY <1>2 DEF BeginRead, TypeOK
    <2>4. overlapped' \in BOOLEAN
      BY <1>2 DEF BeginRead, TypeOK, AnswerInFlight
    <2>5. cpuPc' \in {"cacheWait", "request"}
      BY <1>2 DEF BeginRead
    <2> QED
      BY <1>2, <2>2, <2>3, <2>4, <2>5 DEF BeginRead, TypeOK, mqttVars, serverVars
  <1> QED
    BY <1>1, <1>2

LEMMA CpuContinuesType ==
    ASSUME TypeOK, CpuContinues
    PROVE  TypeOK'
  <1> USE DEF cpuVars, sharedVars, mqttVars, m4Vars, serverVars, ghostVars
  <1>1. CASE CacheHit
    <2>1. toA7' \in Seq(CacheReply) /\ Head(toA7) \in CacheReply
      BY <1>1, TailFacts DEF CacheHit, TypeOK
    <2>2. sectorData' \in Content
      BY <1>1, <2>1 DEF CacheHit, CacheReply
    <2>3. stats' \in [hits : Nat, misses : Nat, writes : Nat, errors : Nat]
      BY <1>1, CountingType DEF CacheHit, TypeOK
    <2> QED
      BY <1>1, <2>1, <2>2, <2>3 DEF CacheHit, TypeOK
  <1>2. CASE CacheMiss
    <2>1. toA7' \in Seq(CacheReply)
      BY <1>2, TailFacts DEF CacheMiss, TypeOK
    <2>2. stats' \in [hits : Nat, misses : Nat, writes : Nat, errors : Nat]
      BY <1>2, CountingType DEF CacheMiss, TypeOK
    <2> QED
      BY <1>2, <2>1, <2>2 DEF CacheMiss, TypeOK
  <1>3. CASE CacheTimeout
    BY <1>3 DEF CacheTimeout, TypeOK
  <1>4. CASE RequestSector
    <2>1. DiskRead(current) \in DiskRequest
      BY ContentTypes, MessageTypes DEF TypeOK
    <2>2. toServer' \in Seq(DiskRequest)
      BY <1>4, <2>1, PublishedFacts DEF RequestSector
    <2> QED
      BY <1>4, <2>2 DEF RequestSector, TypeOK
  <1>5. CASE WaitForSector
    BY <1>5 DEF WaitForSector, TypeOK
  <1>6. CASE EndWait
    BY <1>6 DEF EndWait, TypeOK
  <1>7. CASE ReadFailed
    <2>1. stats' \in [hits : Nat, misses : Nat, writes : Nat, errors : Nat]
      BY <1>7, CountingType DEF ReadFailed, TypeOK
    <2> QED
      BY <1>7, <2>1 DEF ReadFailed, TypeOK
  <1>8. CASE SectorArrived
    BY <1>8 DEF SectorArrived, TypeOK
  <1>9. CASE TakeSector
    <2>1. PICK data \in CopiedOut : /\ sectorData' = data
                                    /\ toM4' = Posted(toM4, CacheWrite(current, data))
      BY <1>9 DEF TakeSector
    <2>2. data \in Content
      BY ContentTypes DEF CopiedOut, TypeOK, SectorMessage
    <2>3. toM4' \in Seq(CacheRequest)
      BY <2>1, <2>2, MessageTypes, PostedFacts DEF TypeOK
    <2> QED
      BY <1>9, <2>1, <2>2, <2>3 DEF TakeSector, TypeOK
  <1> QED
    BY <1>1, <1>2, <1>3, <1>4, <1>5, <1>6, <1>7, <1>8, <1>9
       DEF CpuContinues, CpuProceeds, Woken, TimeoutOver, SpuriousWakeup

LEMMA MqttStepType ==
    ASSUME TypeOK, MqttStep
    PROVE  TypeOK'
  <1> USE DEF cpuVars, sharedVars, m4Vars, serverVars, ghostVars
  <1>1. CASE Receive
    <2>1. toDevice' \in Seq(SectorMessage) /\ inbound' \in SectorMessage
      BY <1>1, TailFacts DEF Receive, TypeOK
    <2>2. mqttPc' \in {"matched", "idle"}
      BY <1>1 DEF Receive
    <2> QED
      BY <1>1, <2>1, <2>2 DEF Receive, TypeOK
  <1>2. CASE ForgetRequest
    BY <1>2 DEF ForgetRequest, TypeOK
  <1>3. CASE TakeLock
    BY <1>3 DEF TakeLock, TypeOK
  <1>4. CASE CopyIn
    <2>1. vdisk_sector' \in [dirty : BOOLEAN, data : Content]
      BY <1>4 DEF CopyIn, TypeOK, SectorMessage
    <2> QED
      BY <1>4, <2>1 DEF CopyIn, TypeOK
  <1>5. CASE Signal
    BY <1>5 DEF Signal, TypeOK
  <1> QED
    BY <1>1, <1>2, <1>3, <1>4, <1>5 DEF MqttStep

LEMMA M4StepType ==
    ASSUME TypeOK, M4Step
    PROVE  TypeOK'
  <1> USE DEF cpuVars, sharedVars, mqttVars, serverVars, ghostVars
  <1> DEFINE s == Head(toM4).sector_number
  <1>1. toM4 # <<>>
    BY DEF M4Step, M4Read, M4Write
  <1>2. toM4' \in Seq(CacheRequest) /\ Head(toM4) \in CacheRequest
    <2>1. toM4 \in Seq(CacheRequest) /\ toM4' = Tail(toM4)
      BY DEF M4Step, M4Read, M4Write, TypeOK
    <2> QED
      BY <1>1, <2>1, TailFacts
  <1>3. s \in Sectors /\ Head(toM4).sector \in Content
    BY <1>2 DEF CacheRequest
  <1>4. cache \in Seq(CacheEntry(Sectors, Content))
    BY DEF TypeOK
  <1> HIDE DEF s
  <1>5. CASE M4Read
    <2>1. cache' = FindInCache(cache, s)
      BY <1>5 DEF M4Read, s
    <2>2. cache' \in Seq(CacheEntry(Sectors, Content))
      BY <1>4, <2>1, FindInCacheKeepsEntries
    <2>3. MissReply \in CacheReply
      BY ContentTypes, DiskAssumption DEF MissReply, CacheReply
    <2>4. ASSUME InCache(cache, s) PROVE HitReply(s) \in CacheReply
      <3>1. cache[IndexOf(cache, s)] \in CacheEntry(Sectors, Content)
        BY <1>4, <2>4, IndexOfFound
      <3> QED
        BY <1>3, <3>1 DEF HitReply, CacheReply, CachedSector, CacheEntry
    <2>5. toA7' \in Seq(CacheReply)
      <3>1. CASE InCache(cache, s)
        BY <1>5, <2>4, <3>1, PostedFacts DEF M4Read, TypeOK, s
      <3>2. CASE ~InCache(cache, s)
        BY <1>5, <2>3, <3>2, PostedFacts DEF M4Read, TypeOK, s
      <3> QED
        BY <3>1, <3>2
    <2> QED
      BY <1>2, <1>5, <2>2, <2>5 DEF M4Read, TypeOK
  <1>6. CASE M4Write
    <2>1. cache' = AddToCache(cache, s, Head(toM4).sector)
      BY <1>6 DEF M4Write, s
    <2>2. cache' \in Seq(CacheEntry(Sectors, Content))
      BY <1>3, <1>4, <2>1, AddToCacheKeepsEntries
    <2> QED
      BY <1>2, <1>6, <2>2 DEF M4Write, TypeOK
  <1> QED
    BY <1>5, <1>6 DEF M4Step

LEMMA ServerStepType ==
    ASSUME TypeOK, ServerStep
    PROVE  TypeOK'
  <1> USE DEF cpuVars, sharedVars, mqttVars, m4Vars, ghostVars
  <1> DEFINE m == Head(toServer)
  <1>1. toServer' \in Seq(DiskRequest) /\ m \in DiskRequest
    <2>1. toServer \in Seq(DiskRequest) /\ toServer # <<>> /\ toServer' = Tail(toServer)
      BY DEF ServerStep, ServerRead, ServerWrite, TypeOK
    <2> QED
      BY <2>1, TailFacts
  <1>2. m.offset \in Sectors /\ m.data \in Content
    BY <1>1 DEF DiskRequest
  <1> HIDE DEF m
  <1>3. CASE ServerRead
    <2> DEFINE answer == [offset |-> m.offset, data |-> store[m.offset]]
    <2>1. answer \in SectorMessage
      BY <1>2 DEF SectorMessage, TypeOK
    <2>2. toDevice' = Append(toDevice, answer)
      BY <1>3 DEF ServerRead, m
    <2> HIDE DEF answer
    <2>3. toDevice' \in Seq(SectorMessage)
      BY <2>1, <2>2, AppendFacts DEF TypeOK
    <2> QED
      BY <1>1, <1>3, <2>3 DEF ServerRead, TypeOK
  <1>4. CASE ServerWrite
    <2>1. store' \in [Sectors -> Content]
      BY <1>2, <1>4 DEF ServerWrite, TypeOK, m
    <2> QED
      BY <1>1, <1>4, <2>1 DEF ServerWrite, TypeOK
  <1> QED
    BY <1>3, <1>4 DEF ServerStep

LEMMA NetworkType ==
    ASSUME TypeOK, Network
    PROVE  TypeOK'
  <1> USE DEF cpuVars, sharedVars, mqttVars, m4Vars, serverVars, ghostVars
  <1>1. CASE LoseRequest
    BY <1>1, TailFacts DEF LoseRequest, TypeOK
  <1>2. CASE LoseSector
    BY <1>2, TailFacts DEF LoseSector, TypeOK
  <1>3. CASE ConnectionChange
    BY <1>3 DEF ConnectionChange, TypeOK
  <1> QED
    BY <1>1, <1>2, <1>3 DEF Network

LEMMA VirtualDiskTypeStep ==
    ASSUME TypeOK, [Next]_vars
    PROVE  TypeOK'
  <1>1. CASE UNCHANGED vars
    BY <1>1 DEF vars, TypeOK, cpuVars, sharedVars, mqttVars, m4Vars, serverVars,
                ghostVars
  <1> QED
    BY <1>1, CpuStartsType, CpuContinuesType, MqttStepType, M4StepType,
       ServerStepType, NetworkType DEF Next

\* The state of the virtual disk and of every channel always has its type.
THEOREM VirtualDiskTyped == Spec => []TypeOK
  <1>1. TypeOK /\ [Next]_vars => TypeOK'
    BY VirtualDiskTypeStep
  <1> QED
    BY <1>1, InitType, PTL DEF Spec

-----------------------------------------------------------------------------
\* What travels towards and from the server keeps its own sector's number.
LEMMA ServerSideStep ==
    ASSUME TypeOK, ServerSideRight, [Next]_vars
    PROVE  ServerSideRight'
  <1> USE DEF cpuVars, sharedVars, mqttVars, m4Vars, serverVars, ghostVars
  <1>0. toServer \in Seq(DiskRequest) /\ toDevice \in Seq(SectorMessage)
    BY DEF TypeOK
  <1>1. ASSUME NEW s \in Sectors, WriteSector(s) PROVE ServerSideRight'
    <2> DEFINE m == DiskWrite(s, Stamp(s, latest[s] + 1))
    <2>1. latest[s] + 1 \in Nat
      BY DEF TypeOK
    <2>2. m \in DiskRequest /\ m.data.of = m.offset
      BY <2>1, ContentTypes, MessageTypes DEF DiskWrite, Stamp
    <2>3. toServer' = Published(m)
      BY <1>1 DEF WriteSector
    <2> HIDE DEF m
    <2>4. \A i \in DOMAIN toServer' :
            toServer'[i].topic = "write" => toServer'[i].data.of = toServer'[i].offset
      BY <2>2, <2>3, PublishedFacts DEF ServerSideRight
    <2>5. UNCHANGED <<toDevice, store, mqttPc, inbound>>
      BY <1>1 DEF WriteSector
    <2> QED
      BY <2>4, <2>5 DEF ServerSideRight
  <1>2. CASE RequestSector
    <2>1. DiskRead(current) \in DiskRequest /\ DiskRead(current).topic = "read"
      BY ContentTypes, MessageTypes DEF DiskRead, TypeOK
    <2>2. \A i \in DOMAIN toServer' :
            toServer'[i].topic = "write" => toServer'[i].data.of = toServer'[i].offset
      BY <1>2, <2>1, PublishedFacts DEF RequestSector, ServerSideRight
    <2>3. UNCHANGED <<toDevice, store, mqttPc, inbound>>
      BY <1>2 DEF RequestSector
    <2> QED
      BY <2>2, <2>3 DEF ServerSideRight
  <1>3. CASE Receive
    <2>1. /\ inbound'.data.of = inbound'.offset
          /\ \A i \in DOMAIN toDevice' : toDevice'[i].data.of = toDevice'[i].offset
      BY <1>0, <1>3, TailFacts DEF Receive, ServerSideRight
    <2> QED
      BY <1>3, <2>1 DEF Receive, ServerSideRight
  <1>4. CASE ForgetRequest \/ TakeLock \/ CopyIn \/ Signal
    BY <1>4 DEF ForgetRequest, TakeLock, CopyIn, Signal, ServerSideRight
  <1>5. CASE ServerRead
    <2> DEFINE s == Head(toServer).offset
               answer == [offset |-> s, data |-> store[s]]
    <2>1. s \in Sectors
      <3>1. toServer # <<>>
        BY <1>5 DEF ServerRead
      <3>2. Head(toServer) \in DiskRequest
        BY <1>0, <3>1, TailFacts
      <3> QED
        BY <3>2 DEF DiskRequest
    <2>2. answer \in SectorMessage /\ answer.data.of = answer.offset
      BY <2>1 DEF SectorMessage, TypeOK, ServerSideRight
    <2>3. toDevice' = Append(toDevice, answer) /\ toServer' = Tail(toServer)
          /\ toServer # <<>> /\ UNCHANGED <<store, mqttPc, inbound>>
      BY <1>5 DEF ServerRead
    <2> HIDE DEF answer
    <2>4. \A i \in DOMAIN toDevice' : toDevice'[i].data.of = toDevice'[i].offset
      BY <1>0, <2>2, <2>3, AppendFacts DEF ServerSideRight
    <2>5. \A i \in DOMAIN toServer' :
            toServer'[i].topic = "write" => toServer'[i].data.of = toServer'[i].offset
      BY <1>0, <2>3, TailFacts DEF ServerSideRight
    <2> QED
      BY <2>3, <2>4, <2>5 DEF ServerSideRight
  <1>6. CASE ServerWrite
    <2>1. /\ Head(toServer).data.of = Head(toServer).offset
          /\ toServer' = Tail(toServer) /\ toServer # <<>>
          /\ UNCHANGED <<toDevice, mqttPc, inbound>>
      BY <1>0, <1>6, TailFacts DEF ServerWrite, ServerSideRight
    <2>2. \A i \in DOMAIN toServer' :
            toServer'[i].topic = "write" => toServer'[i].data.of = toServer'[i].offset
      BY <1>0, <2>1, TailFacts DEF ServerSideRight
    <2>3. \A s \in Sectors : store'[s].of = s
      BY <1>6, <2>1 DEF ServerWrite, TypeOK, ServerSideRight
    <2> QED
      BY <2>1, <2>2, <2>3 DEF ServerSideRight
  <1>7. CASE LoseRequest
    <2>1. \A i \in DOMAIN toServer' :
            toServer'[i].topic = "write" => toServer'[i].data.of = toServer'[i].offset
      BY <1>0, <1>7, TailFacts DEF LoseRequest, ServerSideRight
    <2> QED
      BY <1>7, <2>1 DEF LoseRequest, ServerSideRight
  <1>8. CASE LoseSector
    <2>1. \A i \in DOMAIN toDevice' : toDevice'[i].data.of = toDevice'[i].offset
      BY <1>0, <1>8, TailFacts DEF LoseSector, ServerSideRight
    <2> QED
      BY <1>8, <2>1 DEF LoseSector, ServerSideRight
  <1>9. ASSUME UNCHANGED <<toServer, toDevice, store, mqttPc, inbound>>
        PROVE  ServerSideRight'
    BY <1>9 DEF ServerSideRight
  <1>10. ASSUME NEW s \in Sectors, BeginRead(s)
         PROVE  UNCHANGED <<toServer, toDevice, store, mqttPc, inbound>>
    BY <1>10 DEF BeginRead
  <1>11. ASSUME CpuContinues, ~RequestSector
         PROVE  UNCHANGED <<toServer, toDevice, store, mqttPc, inbound>>
    BY <1>11 DEF CpuContinues, CpuProceeds, CacheHit, CacheMiss, CacheTimeout,
          WaitForSector, Woken,
          TimeoutOver, SpuriousWakeup, EndWait, ReadFailed, SectorArrived, TakeSector
  <1>12. ASSUME M4Step \/ ConnectionChange \/ UNCHANGED vars
         PROVE  UNCHANGED <<toServer, toDevice, store, mqttPc, inbound>>
    BY <1>12 DEF M4Step, M4Read, M4Write, ConnectionChange, vars
  <1> QED
    BY <1>1, <1>2, <1>3, <1>4, <1>5, <1>6, <1>7, <1>8, <1>9, <1>10, <1>11, <1>12
       DEF Next, MqttStep, ServerStep, Network

-----------------------------------------------------------------------------
\* While reads have not overlapped, what travels towards and from the cache
\* keeps its own sector's number.
LEMMA CacheSideStep ==
    ASSUME TypeOK, ReadInv, [Next]_vars
    PROVE  CacheSideRight'
  <1> USE DEF cpuVars, sharedVars, mqttVars, m4Vars, serverVars, ghostVars
  <1>0. /\ CacheSideRight
        /\ toM4 \in Seq(CacheRequest) /\ toA7 \in Seq(CacheReply)
        /\ cache \in Seq(CacheEntry(Sectors, Content))
        /\ current \in Sectors
    BY DEF TypeOK, ReadInv
  <1>1. ASSUME NEW m \in CacheRequest, toM4' = Posted(toM4, m),
               m.type = "DISK_IC_WRITE" => m.sector.of = m.sector_number,
               UNCHANGED <<toA7, cache>>
        PROVE  CacheSideRight'
    <2>1. \A i \in DOMAIN toM4' :
            (i \in DOMAIN toM4 /\ toM4'[i] = toM4[i]) \/ toM4'[i] = m
      BY <1>0, <1>1, PostedFacts
    <2>2. \A i \in DOMAIN toM4' :
            toM4'[i].type = "DISK_IC_WRITE" => toM4'[i].sector.of = toM4'[i].sector_number
      BY <1>0, <1>1, <2>1 DEF CacheSideRight
    <2> QED
      BY <1>0, <1>1, <2>2 DEF CacheSideRight
  <1>2. ASSUME NEW s \in Sectors, WriteSector(s) PROVE CacheSideRight'
    <2> DEFINE m == CacheWrite(s, Stamp(s, latest[s] + 1))
    <2>1. latest[s] + 1 \in Nat
      BY DEF TypeOK
    <2>2. m \in CacheRequest /\ m.sector.of = m.sector_number
      BY <2>1, ContentTypes, MessageTypes DEF CacheWrite, Stamp
    <2>3. toM4' = Posted(toM4, m) /\ UNCHANGED <<toA7, cache>>
      BY <1>2 DEF WriteSector
    <2> HIDE DEF m
    <2> QED
      BY <1>1, <2>2, <2>3
  <1>3. ASSUME NEW s \in Sectors, BeginRead(s) PROVE CacheSideRight'
    <2>1. CacheRead(s) \in CacheRequest /\ CacheRead(s).type # "DISK_IC_WRITE"
      BY ContentTypes, MessageTypes DEF CacheRead
    <2>2. toM4' = Posted(toM4, CacheRead(s)) /\ UNCHANGED <<toA7, cache>>
      BY <1>3 DEF BeginRead
    <2> QED
      BY <1>1, <2>1, <2>2
  <1>4. CASE CacheHit \/ CacheMiss
    <2>1. toA7 # <<>> /\ toA7' = Tail(toA7) /\ UNCHANGED <<toM4, cache>>
      BY <1>4 DEF CacheHit, CacheMiss
    <2>2. \A i \in DOMAIN toA7' :
            toA7'[i].cached => toA7'[i].sector.of = toA7'[i].sector_number
      BY <1>0, <2>1, TailFacts DEF CacheSideRight
    <2> QED
      BY <1>0, <2>1, <2>2 DEF CacheSideRight
  <1>5. CASE TakeSector
    <2>1. vdisk_sector.data.of = current /\ CopiedOut = {vdisk_sector.data}
      BY <1>5 DEF TakeSector, ReadInv, Handshake, Answered, CopiedOut
    <2> DEFINE m == CacheWrite(current, vdisk_sector.data)
    <2>2. toM4' = Posted(toM4, m) /\ UNCHANGED <<toA7, cache>>
      BY <1>5, <2>1 DEF TakeSector
    <2>3. m \in CacheRequest
      BY MessageTypes DEF TypeOK
    <2>4. m.sector.of = m.sector_number
      BY <2>1 DEF CacheWrite
    <2> HIDE DEF m
    <2> QED
      BY <1>1, <2>2, <2>3, <2>4
  <1>6. CASE M4Step
    <2> DEFINE s == Head(toM4).sector_number
    <2>1. toM4 # <<>> /\ toM4' = Tail(toM4)
      BY <1>6 DEF M4Step, M4Read, M4Write
    <2>2. Head(toM4) = toM4[1] /\ 1 \in DOMAIN toM4 /\ Head(toM4) \in CacheRequest
      BY <1>0, <2>1, TailFacts
    <2>3. \A i \in DOMAIN toM4' :
            toM4'[i].type = "DISK_IC_WRITE" => toM4'[i].sector.of = toM4'[i].sector_number
      BY <1>0, <2>1, TailFacts DEF CacheSideRight
    <2>4. s \in Sectors /\ Head(toM4).sector \in Content
      BY <2>2 DEF CacheRequest
    <2>5. CASE M4Read
      <3> DEFINE r == IF InCache(cache, s) THEN HitReply(s) ELSE MissReply
      <3>1. toA7' = Posted(toA7, r) /\ cache' = FindInCache(cache, s)
        BY <2>5 DEF M4Read
      <3>2. MissReply \in CacheReply /\ ~MissReply.cached
        BY DiskAssumption, ContentTypes DEF MissReply, CacheReply
      <3>3. ASSUME InCache(cache, s)
            PROVE  HitReply(s) \in CacheReply /\ HitReply(s).sector.of = HitReply(s).sector_number
        <4>1. /\ IndexOf(cache, s) \in DOMAIN cache
              /\ cache[IndexOf(cache, s)].sector_number_key = s
          BY <3>3, IndexOfFound
        <4>2. /\ CachedSector(cache, s) \in Content
              /\ CachedSector(cache, s).of = s
          <5>1. cache[IndexOf(cache, s)] \in CacheEntry(Sectors, Content)
            BY <1>0, <4>1
          <5>2. cache[IndexOf(cache, s)].sector.of = s
            BY <1>0, <4>1 DEF CacheSideRight
          <5> QED
            BY <5>1, <5>2 DEF CachedSector, CacheEntry
        <4> QED
          BY <2>4, <4>2 DEF HitReply, CacheReply
      <3>4. r \in CacheReply /\ (r.cached => r.sector.of = r.sector_number)
        BY <3>2, <3>3
      <3> HIDE DEF r, s
      <3>5. \A i \in DOMAIN toA7' :
              toA7'[i].cached => toA7'[i].sector.of = toA7'[i].sector_number
        <4>1. \A i \in DOMAIN toA7' :
                (i \in DOMAIN toA7 /\ toA7'[i] = toA7[i]) \/ toA7'[i] = r
          BY <1>0, <3>1, <3>4, PostedFacts
        <4> QED
          BY <1>0, <3>4, <4>1 DEF CacheSideRight
      <3>6. \A i \in DOMAIN cache' : \E j \in DOMAIN cache : cache'[i] = cache[j]
        BY <1>0, <3>1, <2>4, FindInCacheKeepsEntries DEF s
      <3>7. \A i \in DOMAIN cache' : cache'[i].sector.of = cache'[i].sector_number_key
        BY <1>0, <3>6 DEF CacheSideRight
      <3> QED
        BY <2>3, <3>5, <3>7 DEF CacheSideRight
    <2>6. CASE M4Write
      <3> DEFINE d == Head(toM4).sector
      <3>1. d.of = s
        BY <1>0, <2>2, <2>6 DEF M4Write, CacheSideRight
      <3>2. cache' = AddToCache(cache, s, d) /\ UNCHANGED toA7
        BY <2>6 DEF M4Write
      <3> HIDE DEF s, d
      <3>3. \A i \in DOMAIN cache' :
              \/ \E j \in DOMAIN cache : cache'[i] = cache[j]
              \/ cache'[i].sector_number_key = s /\ cache'[i].sector = d
        <4>1. s \in Sectors /\ d \in Content
          BY <2>4 DEF s, d
        <4> DEFINE e == [sector_number_key |-> s, sector |-> d]
        <4>2. e.sector_number_key = s /\ e.sector = d
          OBVIOUS
        <4> HIDE DEF e
        <4>3. \A i \in DOMAIN cache' :
                (\E j \in DOMAIN cache : cache'[i] = cache[j]) \/ cache'[i] = e
          BY <1>0, <4>1, <3>2, AddToCacheKeepsEntries DEF e
        <4> QED
          BY <4>2, <4>3
      <3>4. \A i \in DOMAIN cache' : cache'[i].sector.of = cache'[i].sector_number_key
        BY <1>0, <3>1, <3>3 DEF CacheSideRight
      <3> QED
        BY <1>0, <2>3, <3>2, <3>4 DEF CacheSideRight
    <2> QED
      BY <1>6, <2>5, <2>6 DEF M4Step
  <1>7. ASSUME UNCHANGED <<toM4, toA7, cache>> PROVE CacheSideRight'
    BY <1>0, <1>7 DEF CacheSideRight
  <1>8. ASSUME CpuContinues, ~CacheHit, ~CacheMiss, ~TakeSector
        PROVE  UNCHANGED <<toM4, toA7, cache>>
    BY <1>8 DEF CpuContinues, CpuProceeds, CacheTimeout, RequestSector,
          WaitForSector, Woken,
          TimeoutOver, SpuriousWakeup, EndWait, ReadFailed, SectorArrived
  <1>9. ASSUME MqttStep \/ ServerStep \/ Network \/ UNCHANGED vars
        PROVE  UNCHANGED <<toM4, toA7, cache>>
    BY <1>9 DEF MqttStep, Receive, ForgetRequest, TakeLock, CopyIn, Signal,
          ServerStep, ServerRead, ServerWrite, Network, LoseRequest, LoseSector,
          ConnectionChange, vars
  <1> QED
    BY <1>2, <1>3, <1>4, <1>5, <1>6, <1>7, <1>8, <1>9 DEF Next

\* A read that succeeds leaves the sector that was asked for in the buffer.
LEMMA BufferStep ==
    ASSUME TypeOK, ReadInv, [Next]_vars
    PROVE  BufferRight'
  <1> USE DEF cpuVars, sharedVars, mqttVars, m4Vars, serverVars, ghostVars
  <1>1. ASSUME NEW s \in Sectors, WriteSector(s) \/ BeginRead(s) PROVE BufferRight'
    BY <1>1 DEF WriteSector, BeginRead, BufferRight
  <1>2. CASE CacheHit
    <2>1. toA7 \in Seq(CacheReply) /\ toA7 # <<>>
      BY <1>2 DEF CacheHit, TypeOK
    <2>2. Head(toA7) = toA7[1] /\ 1 \in DOMAIN toA7
      BY <2>1, TailFacts
    <2>3. Head(toA7).sector.of = current
      BY <1>2, <2>2 DEF CacheHit, IsHit, ReadInv, CacheSideRight
    <2> QED
      BY <1>2, <2>3 DEF CacheHit, BufferRight
  <1>3. CASE TakeSector
    <2>1. vdisk_sector.data.of = current /\ CopiedOut = {vdisk_sector.data}
      BY <1>3 DEF TakeSector, ReadInv, Handshake, Answered, CopiedOut
    <2>2. sectorData' = vdisk_sector.data /\ UNCHANGED current
      BY <1>3, <2>1 DEF TakeSector
    <2> QED
      BY <2>1, <2>2 DEF BufferRight
  <1>4. CASE ReadFailed
    <2>1. outcome' = "failed"
      BY <1>4 DEF ReadFailed
    <2> QED
      BY <2>1 DEF BufferRight
  <1>5. ASSUME UNCHANGED <<outcome, sectorData, current>> PROVE BufferRight'
    BY <1>5 DEF ReadInv, BufferRight
  <1>6. ASSUME CpuContinues, ~CacheHit, ~ReadFailed, ~TakeSector
        PROVE  UNCHANGED <<outcome, sectorData, current>>
    BY <1>6 DEF CpuContinues, CpuProceeds, CacheMiss, CacheTimeout,
          RequestSector, WaitForSector,
          Woken, TimeoutOver, SpuriousWakeup, EndWait, SectorArrived
  <1>7. ASSUME MqttStep \/ M4Step \/ ServerStep \/ Network \/ UNCHANGED vars
        PROVE  UNCHANGED <<outcome, sectorData, current>>
    BY <1>7 DEF MqttStep, Receive, ForgetRequest, TakeLock, CopyIn, Signal,
          M4Step, M4Read, M4Write, ServerStep, ServerRead, ServerWrite, Network,
          LoseRequest, LoseSector, ConnectionChange, vars
  <1> QED
    BY <1>1, <1>2, <1>3, <1>4, <1>5, <1>6, <1>7 DEF Next

-----------------------------------------------------------------------------
\* Publishing a write request adds no read request.
LEMMA PublishWrite ==
    ASSUME TypeOK, NEW m \in DiskRequest, m.topic = "write"
    PROVE  \A i \in DOMAIN Published(m) : IsRead(Published(m), i)
             => i \in DOMAIN toServer /\ toServer[i] = Published(m)[i]
  BY PublishedFacts DEF IsRead

LEMMA WriteSectorPublishes ==
    ASSUME TypeOK, NEW s \in Sectors, WriteSector(s)
    PROVE  /\ \A i \in DOMAIN toServer' : IsRead(toServer', i)
                => i \in DOMAIN toServer /\ toServer[i] = toServer'[i]
           /\ UNCHANGED <<toDevice, mqttPc, inbound>>
  <1> USE DEF mqttVars
  <1> DEFINE m == DiskWrite(s, Stamp(s, latest[s] + 1))
  <1>1. latest[s] + 1 \in Nat
    BY DEF TypeOK
  <1>2. m \in DiskRequest /\ m.topic = "write"
    BY <1>1, ContentTypes, MessageTypes DEF DiskWrite
  <1>3. toServer' = Published(m) /\ UNCHANGED <<toDevice, mqttPc, inbound>>
    BY DEF WriteSector
  <1> HIDE DEF m
  <1> QED
    BY <1>2, <1>3, PublishWrite

\* The request of RequestSector is the only new read request.
LEMMA RequestSectorPublishes ==
    ASSUME TypeOK, RequestSector
    PROVE  /\ \A i \in DOMAIN toServer' : IsRead(toServer', i) =>
                \/ i \in DOMAIN toServer /\ toServer[i] = toServer'[i]
                \/ i = Len(toServer) + 1 /\ toServer'[i].offset = current
           /\ UNCHANGED <<toDevice, mqttPc, inbound, current, vdisk_sector>>
           /\ cpuPc = "request" /\ cpuPc' = "wait" /\ sector_requested' = current
  <1> USE DEF mqttVars
  <1>1. DiskRead(current) \in DiskRequest /\ DiskRead(current).offset = current
    BY ContentTypes, MessageTypes DEF DiskRead, TypeOK
  <1>2. \A i \in DOMAIN Published(DiskRead(current)) :
          \/ i \in DOMAIN toServer /\ Published(DiskRead(current))[i] = toServer[i]
          \/ i = Len(toServer) + 1 /\ Published(DiskRead(current))[i] = DiskRead(current)
    BY <1>1, PublishedFacts
  <1>3. toServer' = Published(DiskRead(current))
    BY DEF RequestSector
  <1> QED
    BY <1>1, <1>2, <1>3 DEF RequestSector, IsRead

\* The actions of the CPU that start or go on with a read, RequestSector apart,
\* do not touch what is on its way; neither do the M4 and a connection change.
LEMMA FlightUnchanged ==
    ASSUME \/ \E s \in Sectors : BeginRead(s)
           \/ CpuContinues /\ ~RequestSector
           \/ M4Step \/ ConnectionChange \/ UNCHANGED vars
    PROVE  UNCHANGED <<toServer, toDevice, mqttPc, inbound>>
  <1> USE DEF cpuVars, sharedVars, mqttVars, m4Vars, serverVars, ghostVars
  <1>1. ASSUME NEW s \in Sectors, BeginRead(s)
        PROVE  UNCHANGED <<toServer, toDevice, mqttPc, inbound>>
    BY <1>1 DEF BeginRead
  <1>2. ASSUME CpuContinues, ~RequestSector
        PROVE  UNCHANGED <<toServer, toDevice, mqttPc, inbound>>
    BY <1>2 DEF CpuContinues, CpuProceeds, CacheHit, CacheMiss, CacheTimeout,
          WaitForSector, Woken,
          TimeoutOver, SpuriousWakeup, EndWait, ReadFailed, SectorArrived, TakeSector
  <1>3. ASSUME M4Step \/ ConnectionChange \/ UNCHANGED vars
        PROVE  UNCHANGED <<toServer, toDevice, mqttPc, inbound>>
    BY <1>3 DEF M4Step, M4Read, M4Write, ConnectionChange, vars
  <1> QED
    BY <1>1, <1>2, <1>3

\* The steps of the MQTT thread after Receive.
LEMMA CallbackStep ==
    ASSUME ForgetRequest \/ TakeLock \/ CopyIn \/ Signal
    PROVE  /\ UNCHANGED <<toServer, toDevice, inbound, cpuPc, current>>
           /\ mqttPc # "idle"
           /\ mqttPc = "signal" => mqttPc' = "idle"
  BY DEF ForgetRequest, TakeLock, CopyIn, Signal, mqttVars, cpuVars, serverVars

\* What is on its way after a step was on its way before it, unless the step
\* is RequestSector: read requests, sectors, and the callback's message.
ReadsKept ==
    \A i \in DOMAIN toServer' : IsRead(toServer', i) =>
        \E j \in DOMAIN toServer : toServer[j] = toServer'[i]

SectorsKept ==
    \A i \in DOMAIN toDevice' :
        \/ \E j \in DOMAIN toDevice : toDevice[j] = toDevice'[i]
        \/ \E j \in DOMAIN toServer :
               IsRead(toServer, j) /\ toServer[j].offset = toDevice'[i].offset

CallbackKept ==
    /\ mqttPc' # "idle" =>
         \/ mqttPc # "idle" /\ inbound' = inbound
         \/ \E j \in DOMAIN toDevice : toDevice[j] = inbound'
    /\ mqttPc = "signal" => mqttPc' \in {"signal", "idle"}

LEMMA FlightStep ==
    ASSUME TypeOK, [Next]_vars, ~RequestSector
    PROVE  ReadsKept /\ SectorsKept /\ CallbackKept
  <1> USE DEF cpuVars, sharedVars, mqttVars, m4Vars, serverVars, ghostVars
  <1>0. toServer \in Seq(DiskRequest) /\ toDevice \in Seq(SectorMessage)
    BY DEF TypeOK
  <1>1. ASSUME UNCHANGED <<toServer, toDevice, mqttPc, inbound>>
        PROVE  ReadsKept /\ SectorsKept /\ CallbackKept
    BY <1>1 DEF ReadsKept, SectorsKept, CallbackKept
  <1>2. ASSUME NEW s \in Sectors, WriteSector(s)
        PROVE  ReadsKept /\ SectorsKept /\ CallbackKept
    <2>1. ReadsKept
      BY <1>2, WriteSectorPublishes DEF ReadsKept
    <2>2. SectorsKept /\ CallbackKept
      BY <1>2, WriteSectorPublishes DEF SectorsKept, CallbackKept
    <2> QED
      BY <2>1, <2>2
  <1>3. CASE ForgetRequest \/ TakeLock \/ CopyIn \/ Signal
    BY <1>3, CallbackStep DEF ReadsKept, SectorsKept, CallbackKept
  <1>4. CASE Receive
    <2>1. /\ mqttPc = "idle" /\ toDevice # <<>> /\ UNCHANGED toServer
          /\ inbound' = Head(toDevice) /\ toDevice' = Tail(toDevice)
      BY <1>4 DEF Receive
    <2>2. inbound' = toDevice[1] /\ 1 \in DOMAIN toDevice
      BY <1>0, <2>1, TailFacts
    <2>3. \A i \in DOMAIN toDevice' :
            i + 1 \in DOMAIN toDevice /\ toDevice[i + 1] = toDevice'[i]
      BY <1>0, <2>1, TailFacts
    <2>4. ReadsKept
      BY <2>1 DEF ReadsKept
    <2>5. SectorsKept
      BY <2>3 DEF SectorsKept
    <2>6. CallbackKept
      BY <2>1, <2>2 DEF CallbackKept
    <2> QED
      BY <2>4, <2>5, <2>6
  <1>5. CASE ServerRead
    <2> DEFINE answer == [offset |-> Head(toServer).offset,
                          data |-> store[Head(toServer).offset]]
    <2>1. /\ toServer # <<>> /\ toServer' = Tail(toServer)
          /\ toDevice' = Append(toDevice, answer)
          /\ UNCHANGED <<mqttPc, inbound>>
      BY <1>5 DEF ServerRead
    <2>2. /\ 1 \in DOMAIN toServer /\ Head(toServer) = toServer[1]
          /\ Head(toServer) \in DiskRequest
          /\ \A i \in DOMAIN toServer' :
               i + 1 \in DOMAIN toServer /\ toServer[i + 1] = toServer'[i]
      BY <1>0, <2>1, TailFacts
    <2>3. IsRead(toServer, 1) /\ toServer[1].offset = answer.offset
      BY <1>5, <2>2 DEF ServerRead, IsRead
    <2>4. answer \in SectorMessage
      BY <2>2 DEF DiskRequest, SectorMessage, TypeOK
    <2> HIDE DEF answer
    <2>5. \A i \in DOMAIN toDevice' :
            (i \in DOMAIN toDevice /\ toDevice[i] = toDevice'[i]) \/ toDevice'[i] = answer
      BY <1>0, <2>1, <2>4, AppendFacts
    <2>6. ReadsKept
      BY <2>2 DEF ReadsKept
    <2>7. SectorsKept
      BY <2>2, <2>3, <2>5 DEF SectorsKept
    <2>8. CallbackKept
      BY <2>1 DEF CallbackKept
    <2> QED
      BY <2>6, <2>7, <2>8
  <1>6. CASE ServerWrite \/ LoseRequest
    <2>1. /\ toServer # <<>> /\ toServer' = Tail(toServer)
          /\ UNCHANGED <<toDevice, mqttPc, inbound>>
      BY <1>6 DEF ServerWrite, LoseRequest
    <2>2. \A i \in DOMAIN toServer' :
            i + 1 \in DOMAIN toServer /\ toServer[i + 1] = toServer'[i]
      BY <1>0, <2>1, TailFacts
    <2>3. ReadsKept
      BY <2>2 DEF ReadsKept
    <2> QED
      BY <2>1, <2>3 DEF SectorsKept, CallbackKept
  <1>7. CASE LoseSector
    <2>1. /\ toDevice # <<>> /\ toDevice' = Tail(toDevice)
          /\ UNCHANGED <<toServer, mqttPc, inbound>>
      BY <1>7 DEF LoseSector
    <2>2. \A i \in DOMAIN toDevice' :
            i + 1 \in DOMAIN toDevice /\ toDevice[i + 1] = toDevice'[i]
      BY <1>0, <2>1, TailFacts
    <2>3. SectorsKept
      BY <2>2 DEF SectorsKept
    <2> QED
      BY <2>1, <2>3 DEF ReadsKept, CallbackKept
  <1> QED
    BY <1>1, <1>2, <1>3, <1>4, <1>5, <1>6, <1>7, FlightUnchanged
       DEF Next, MqttStep, ServerStep, Network

\* If no answer is on its way, then none is until the CPU requests a sector.
LEMMA NoAnswerStep ==
    ASSUME TypeOK, [Next]_vars, ~RequestSector, ~AnswerInFlight
    PROVE  ~AnswerInFlight'
  <1>1. toDevice' \in Seq(SectorMessage) /\ toDevice \in Seq(SectorMessage)
    BY VirtualDiskTypeStep DEF TypeOK
  <1>2. ReadsKept /\ SectorsKept /\ CallbackKept
    BY FlightStep
  <1>3. \A i \in DOMAIN toServer' : ~IsRead(toServer', i)
    BY <1>2 DEF ReadsKept, IsRead, AnswerInFlight
  <1>4. DOMAIN toDevice = {} /\ mqttPc = "idle"
    BY DEF AnswerInFlight
  <1>5. DOMAIN toDevice' = {}
    BY <1>2, <1>4 DEF SectorsKept, IsRead, AnswerInFlight
  <1>6. toDevice' = <<>>
    BY <1>1, <1>5
  <1>7. mqttPc' = "idle"
    BY <1>2, <1>4 DEF CallbackKept
  <1> QED
    BY <1>3, <1>6, <1>7 DEF AnswerInFlight, IsRead

\* An answer that has arrived is followed by no other.
LEMMA AnsweredStep ==
    ASSUME TypeOK, [Next]_vars, ~RequestSector, Answered
    PROVE  Answered'
  <1>1. toDevice' \in Seq(SectorMessage) /\ toDevice \in Seq(SectorMessage)
    BY VirtualDiskTypeStep DEF TypeOK
  <1>2. ReadsKept /\ SectorsKept /\ CallbackKept
    BY FlightStep
  <1>3. \A i \in DOMAIN toServer' : ~IsRead(toServer', i)
    BY <1>2 DEF ReadsKept, IsRead, Answered
  <1>4. DOMAIN toDevice = {} /\ mqttPc \in {"idle", "signal"}
    BY DEF Answered
  <1>5. DOMAIN toDevice' = {}
    BY <1>2, <1>4 DEF SectorsKept, IsRead, Answered
  <1>6. toDevice' = <<>>
    BY <1>1, <1>5
  <1>7. mqttPc' \in {"idle", "signal"}
    BY <1>2, <1>4 DEF CallbackKept
  <1> QED
    BY <1>3, <1>6, <1>7 DEF Answered, IsRead

\* Every answer on its way stays the answer to the CPU's read.
LEMMA AnswersCurrentStep ==
    ASSUME TypeOK, [Next]_vars, ~RequestSector, AnswersCurrent, UNCHANGED current
    PROVE  AnswersCurrent'
  <1>1. ReadsKept /\ SectorsKept /\ CallbackKept
    BY FlightStep
  <1>2. \A i \in DOMAIN toServer' : IsRead(toServer', i) => toServer'[i].offset = current
    BY <1>1 DEF ReadsKept, IsRead, AnswersCurrent
  <1>3. \A i \in DOMAIN toDevice' : toDevice'[i].offset = current
    BY <1>1 DEF SectorsKept, AnswersCurrent
  <1>4. mqttPc' # "idle" => inbound'.offset = current
    BY <1>1 DEF CallbackKept, AnswersCurrent
  <1> QED
    BY <1>2, <1>3, <1>4 DEF AnswersCurrent, IsRead

-----------------------------------------------------------------------------
\* While reads have not overlapped, at most one answer is on its way.
LEMMA OneAnswerStep ==
    ASSUME TypeOK, ReadInv, [Next]_vars
    PROVE  OneAnswer'
  <1> USE DEF cpuVars, sharedVars, mqttVars, m4Vars, serverVars, ghostVars
  <1>0. /\ OneAnswer
        /\ toServer \in Seq(DiskRequest) /\ toDevice \in Seq(SectorMessage)
    BY DEF TypeOK, ReadInv
  <1>1. ASSUME UNCHANGED <<toDevice, mqttPc>>,
               \A i \in DOMAIN toServer' : IsRead(toServer', i)
                 => i \in DOMAIN toServer /\ toServer[i] = toServer'[i]
        PROVE  OneAnswer'
    BY <1>0, <1>1 DEF OneAnswer, IsRead
  <1>2. ASSUME UNCHANGED <<toServer, toDevice, mqttPc>> PROVE OneAnswer'
    BY <1>0, <1>2 DEF OneAnswer, IsRead
  <1>3. ASSUME NEW s \in Sectors, WriteSector(s) PROVE OneAnswer'
    BY <1>1, <1>3, WriteSectorPublishes
  <1>4. CASE RequestSector
    <2>1. ~AnswerInFlight
      BY <1>4 DEF RequestSector, ReadInv, Handshake
    <2>2. \A i \in DOMAIN toServer' : IsRead(toServer', i) => i = Len(toServer) + 1
      BY <1>4, <2>1, RequestSectorPublishes DEF AnswerInFlight, IsRead
    <2>3. toDevice' = <<>> /\ mqttPc' = "idle"
      BY <1>4, <2>1, RequestSectorPublishes DEF AnswerInFlight
    <2>4. Len(toDevice') <= 1
      BY <2>3
    <2> QED
      BY <2>2, <2>3, <2>4 DEF OneAnswer
  <1>5. CASE Receive
    <2>1. toDevice # <<>> /\ toDevice' = Tail(toDevice) /\ UNCHANGED toServer
      BY <1>5 DEF Receive
    <2>2. toDevice' \in Seq(SectorMessage) /\ Len(toDevice') = 0
      <3>1. Len(toDevice) <= 1
        BY <1>0 DEF OneAnswer
      <3>2. /\ toDevice' \in Seq(SectorMessage)
            /\ Len(toDevice) \in Nat /\ Len(toDevice) >= 1
            /\ Len(toDevice') = Len(toDevice) - 1
        BY <1>0, <2>1, TailFacts
      <3> QED
        BY <3>1, <3>2
    <2>3. toDevice' = <<>>
      BY <2>2
    <2>4. \A i \in DOMAIN toServer' : ~IsRead(toServer', i)
      BY <1>0, <2>1 DEF OneAnswer, IsRead
    <2> QED
      BY <2>2, <2>3, <2>4 DEF OneAnswer
  <1>6. CASE ForgetRequest \/ TakeLock \/ CopyIn \/ Signal
    BY <1>0, <1>6, CallbackStep DEF OneAnswer, IsRead
  <1>7. CASE ServerRead
    <2> DEFINE answer == [offset |-> Head(toServer).offset,
                          data |-> store[Head(toServer).offset]]
    <2>1. /\ toServer # <<>> /\ toServer' = Tail(toServer)
          /\ toDevice' = Append(toDevice, answer)
          /\ UNCHANGED mqttPc
      BY <1>7 DEF ServerRead
    <2>2. /\ 1 \in DOMAIN toServer /\ Head(toServer) = toServer[1]
          /\ Head(toServer) \in DiskRequest
          /\ DOMAIN toServer' = 1 .. Len(toServer) - 1 /\ Len(toServer) \in Nat
          /\ \A i \in DOMAIN toServer' :
               i + 1 \in DOMAIN toServer /\ toServer[i + 1] = toServer'[i]
      BY <1>0, <2>1, TailFacts
    <2>3. IsRead(toServer, 1)
      BY <1>7, <2>2 DEF ServerRead, IsRead
    <2>4. toDevice = <<>> /\ mqttPc = "idle"
      BY <1>0, <2>2, <2>3 DEF OneAnswer
    <2>5. answer \in SectorMessage
      BY <2>2 DEF DiskRequest, SectorMessage, TypeOK
    <2> HIDE DEF answer
    <2>6. Len(toDevice') = 1
      BY <1>0, <2>1, <2>4, <2>5
    <2>7. \A i \in DOMAIN toServer' : ~IsRead(toServer', i)
      <3> SUFFICES ASSUME NEW i \in DOMAIN toServer', IsRead(toServer', i)
                   PROVE  FALSE
        OBVIOUS
      <3>1. i + 1 \in DOMAIN toServer /\ IsRead(toServer, i + 1)
        BY <2>2 DEF IsRead
      <3>2. i + 1 = 1
        BY <1>0, <2>2, <2>3, <3>1 DEF OneAnswer
      <3> QED
        BY <2>2, <3>2
    <2> QED
      BY <2>1, <2>4, <2>6, <2>7 DEF OneAnswer
  <1>8. CASE ServerWrite \/ LoseRequest
    <2>1. /\ toServer # <<>> /\ toServer' = Tail(toServer)
          /\ UNCHANGED <<toDevice, mqttPc>>
      BY <1>8 DEF ServerWrite, LoseRequest
    <2>2. /\ DOMAIN toServer' = 1 .. Len(toServer) - 1 /\ Len(toServer) \in Nat
          /\ \A i \in DOMAIN toServer' :
               i + 1 \in DOMAIN toServer /\ toServer[i + 1] = toServer'[i]
      BY <1>0, <2>1, TailFacts
    <2>3. \A i, j \in DOMAIN toServer' :
            IsRead(toServer', i) /\ IsRead(toServer', j) => i = j
      <3> SUFFICES ASSUME NEW i \in DOMAIN toServer', NEW j \in DOMAIN toServer',
                          IsRead(toServer', i), IsRead(toServer', j)
                   PROVE  i = j
        OBVIOUS
      <3>1. i + 1 = j + 1
        BY <1>0, <2>2 DEF OneAnswer, IsRead
      <3> QED
        BY <2>2, <3>1
    <2>4. (\E i \in DOMAIN toServer' : IsRead(toServer', i))
            => toDevice = <<>> /\ mqttPc = "idle"
      BY <1>0, <2>2 DEF OneAnswer, IsRead
    <2> QED
      BY <1>0, <2>1, <2>3, <2>4 DEF OneAnswer
  <1>9. CASE LoseSector
    <2>1. toDevice # <<>> /\ toDevice' = Tail(toDevice) /\ UNCHANGED <<toServer, mqttPc>>
      BY <1>9 DEF LoseSector
    <2>2. toDevice' \in Seq(SectorMessage) /\ Len(toDevice') = 0
      <3>1. Len(toDevice) <= 1
        BY <1>0 DEF OneAnswer
      <3>2. /\ toDevice' \in Seq(SectorMessage)
            /\ Len(toDevice) \in Nat /\ Len(toDevice) >= 1
            /\ Len(toDevice') = Len(toDevice) - 1
        BY <1>0, <2>1, TailFacts
      <3> QED
        BY <3>1, <3>2
    <2>3. toDevice' = <<>>
      BY <2>2
    <2>4. \A i \in DOMAIN toServer' : ~IsRead(toServer', i)
      BY <1>0, <2>1 DEF OneAnswer, IsRead
    <2> QED
      BY <2>2, <2>3, <2>4 DEF OneAnswer
  <1> QED
    BY <1>2, <1>3, <1>4, <1>5, <1>6, <1>7, <1>8, <1>9, FlightUnchanged
       DEF Next, MqttStep, ServerStep, Network

\* What the other actors leave alone of the CPU's and the shared state.
LEMMA OtherActorsStep ==
    ASSUME M4Step \/ ServerStep \/ Network \/ UNCHANGED vars
    PROVE  UNCHANGED <<cpuPc, current, vdisk_sector, sector_requested>>
  BY DEF M4Step, M4Read, M4Write, ServerStep, ServerRead, ServerWrite, Network,
         LoseRequest, LoseSector, ConnectionChange, vars, cpuVars, sharedVars

\* Only the CPU, and CopyIn, change vdisk_sector and the CPU's place.
LEMMA MqttLeaves ==
    ASSUME MqttStep, ~CopyIn
    PROVE  UNCHANGED <<cpuPc, current, vdisk_sector>>
  BY DEF MqttStep, Receive, ForgetRequest, TakeLock, Signal, cpuVars, sharedVars

\* The places a read goes through.
LEMMA CpuPath ==
    ASSUME CpuContinues, ~RequestSector
    PROVE  /\ UNCHANGED <<current, vdisk_sector, sector_requested>>
           /\ \/ cpuPc' = "idle"
              \/ cpuPc = "cacheWait" /\ cpuPc' = "request"
              \/ cpuPc = "wait" /\ cpuPc' = "waiting"
              \/ cpuPc = "waiting" /\ cpuPc' = "check"
              \/ cpuPc = "check" /\ vdisk_sector.dirty /\ cpuPc' = "copyOut"
  <1> USE DEF cpuVars, sharedVars
  <1>1. CASE CacheHit \/ CacheMiss \/ CacheTimeout
    BY <1>1 DEF CacheHit, CacheMiss, CacheTimeout
  <1>2. CASE WaitForSector \/ Woken \/ TimeoutOver \/ SpuriousWakeup
    BY <1>2 DEF WaitForSector, Woken, TimeoutOver, SpuriousWakeup, EndWait
  <1>3. CASE ReadFailed \/ SectorArrived \/ TakeSector
    BY <1>3 DEF ReadFailed, SectorArrived, TakeSector
  <1> QED
    BY <1>1, <1>2, <1>3 DEF CpuContinues, CpuProceeds

\* The CPU's read and the answers on their way stay in step.
LEMMA HandshakeStep ==
    ASSUME TypeOK, ServerSideRight, ReadInv, ~overlapped, ~overlapped', [Next]_vars
    PROVE  Handshake'
  <1>0. Handshake /\ OneAnswer
    BY DEF ReadInv
  <1>1. ASSUME NEW s \in Sectors, WriteSector(s) PROVE Handshake'
    <2>1. cpuPc' = "idle"
      BY <1>1 DEF WriteSector
    <2> QED
      BY <2>1 DEF Handshake
  <1>2. ASSUME NEW s \in Sectors, BeginRead(s) PROVE Handshake'
    <2>1. ~AnswerInFlight /\ cpuPc' \in {"cacheWait", "request"}
      BY <1>2 DEF BeginRead
    <2>2. UNCHANGED <<toServer, toDevice, mqttPc, inbound>>
      BY <1>2, FlightUnchanged
    <2>3. ~AnswerInFlight'
      BY <2>1, <2>2 DEF AnswerInFlight
    <2>4. ~vdisk_sector'.dirty
      BY <1>2 DEF BeginRead, TypeOK
    <2> QED
      BY <2>1, <2>3, <2>4 DEF Handshake
  <1>3. CASE RequestSector
    <2>1. ~AnswerInFlight /\ ~vdisk_sector.dirty
      BY <1>0, <1>3, RequestSectorPublishes DEF Handshake
    <2>2. AnswersCurrent'
      BY <1>3, <2>1, RequestSectorPublishes DEF AnswersCurrent, AnswerInFlight, IsRead
    <2>3. ~vdisk_sector'.dirty /\ cpuPc' = "wait"
      BY <1>3, <2>1, RequestSectorPublishes
    <2> QED
      BY <2>2, <2>3 DEF Handshake
  <1>4. ASSUME UNCHANGED <<current, vdisk_sector>>, ~RequestSector,
               \/ UNCHANGED cpuPc
               \/ cpuPc' = "idle"
               \/ cpuPc = "cacheWait" /\ cpuPc' = "request"
               \/ cpuPc = "wait" /\ cpuPc' = "waiting"
               \/ cpuPc = "waiting" /\ cpuPc' = "check"
               \/ cpuPc = "check" /\ vdisk_sector.dirty /\ cpuPc' = "copyOut"
        PROVE  Handshake'
    <2>1. cpuPc' \in {"cacheWait", "request"} => ~AnswerInFlight' /\ ~vdisk_sector'.dirty
      BY <1>0, <1>4, NoAnswerStep DEF Handshake
    <2>2. cpuPc' \in {"wait", "waiting", "check"} => AnswersCurrent'
      BY <1>0, <1>4, AnswersCurrentStep DEF Handshake
    <2>3. cpuPc' \in {"wait", "waiting", "check", "copyOut"} /\ vdisk_sector'.dirty
            => Answered' /\ vdisk_sector'.data.of = current'
      BY <1>0, <1>4, AnsweredStep DEF Handshake
    <2>4. cpuPc' = "copyOut" => vdisk_sector'.dirty
      BY <1>0, <1>4 DEF Handshake
    <2> QED
      BY <2>1, <2>2, <2>3, <2>4 DEF Handshake
  <1>5. CASE CopyIn
    <2>1. /\ mqttPc = "copyIn" /\ mqttPc' = "signal"
          /\ UNCHANGED <<toServer, toDevice, inbound, cpuPc, current>>
          /\ vdisk_sector'.dirty /\ vdisk_sector'.data = inbound.data
      BY <1>5 DEF CopyIn, cpuVars, serverVars
    <2>2. cpuPc \notin {"cacheWait", "request", "copyOut"}
      BY <1>0, <2>1 DEF Handshake, AnswerInFlight, Answered
    <2>3. ASSUME cpuPc \in {"wait", "waiting", "check"}
          PROVE  AnswersCurrent' /\ Answered' /\ vdisk_sector'.data.of = current'
      <3>1. AnswersCurrent
        BY <1>0, <2>3 DEF Handshake
      <3>2. AnswersCurrent'
        BY <2>1, <3>1 DEF AnswersCurrent, IsRead
      <3>3. Answered'
        BY <1>0, <2>1 DEF OneAnswer, Answered, IsRead
      <3>4. inbound.data.of = current
        BY <2>1, <3>1 DEF AnswersCurrent, ServerSideRight
      <3> QED
        BY <2>1, <3>2, <3>3, <3>4
    <2> QED
      BY <2>1, <2>2, <2>3 DEF Handshake
  <1> QED
    BY <1>1, <1>2, <1>3, <1>4, <1>5, CpuPath, MqttLeaves, OtherActorsStep DEF Next

\* A read the CPU waits for is requested, being answered, or answered.
LEMMA RequestKnownStep ==
    ASSUME TypeOK, ReadInv, [Next]_vars
    PROVE  RequestKnown'
  <1> USE DEF cpuVars, sharedVars, mqttVars, m4Vars, serverVars, ghostVars
  <1>0. RequestKnown
    BY DEF ReadInv
  <1>1. ASSUME NEW s \in Sectors, WriteSector(s) \/ BeginRead(s) PROVE RequestKnown'
    <2>1. cpuPc' \in {"idle", "cacheWait", "request"}
      BY <1>1 DEF WriteSector, BeginRead
    <2> QED
      BY <2>1 DEF RequestKnown
  <1>2. CASE RequestSector
    BY <1>2, RequestSectorPublishes DEF RequestKnown
  <1>3. CASE CpuContinues /\ ~RequestSector
    <2>1. UNCHANGED mqttPc
      BY <1>3, FlightUnchanged
    <2> QED
      BY <1>0, <1>3, <2>1, CpuPath DEF RequestKnown
  <1>4. CASE Receive \/ TakeLock
    BY <1>0, <1>4 DEF Receive, TakeLock, RequestKnown
  <1>5. CASE ForgetRequest
    BY <1>5 DEF ForgetRequest, RequestKnown
  <1>6. CASE CopyIn
    BY <1>6 DEF CopyIn, RequestKnown
  <1>7. CASE Signal
    BY <1>0, <1>7 DEF Signal, RequestKnown
  <1>8. CASE M4Step \/ ServerStep \/ Network \/ UNCHANGED vars
    <2>1. UNCHANGED mqttPc
      BY <1>8 DEF M4Step, M4Read, M4Write, ServerStep, ServerRead, ServerWrite,
            Network, LoseRequest, LoseSector, ConnectionChange, vars
    <2> QED
      BY <1>0, <1>8, <2>1, OtherActorsStep DEF RequestKnown
  <1> QED
    BY <1>1, <1>2, <1>3, <1>4, <1>5, <1>6, <1>7, <1>8 DEF Next, MqttStep

-----------------------------------------------------------------------------
\* Reads that have overlapped once have overlapped for good.
LEMMA OverlapStays ==
    ASSUME [Next]_vars, overlapped
    PROVE  overlapped'
  <1> USE DEF cpuVars, sharedVars, mqttVars, m4Vars, serverVars, ghostVars
  <1>1. ASSUME NEW s \in Sectors, WriteSector(s) \/ BeginRead(s) PROVE overlapped'
    BY <1>1 DEF WriteSector, BeginRead
  <1>2. CASE CpuContinues
    BY <1>2 DEF CpuContinues, CpuProceeds, CacheHit, CacheMiss, CacheTimeout,
          RequestSector,
          WaitForSector, Woken, TimeoutOver, SpuriousWakeup, EndWait, ReadFailed,
          SectorArrived, TakeSector
  <1>3. CASE MqttStep \/ M4Step \/ ServerStep
    BY <1>3 DEF MqttStep, Receive, ForgetRequest, TakeLock, CopyIn, Signal,
          M4Step, M4Read, M4Write, ServerStep, ServerRead, ServerWrite
  <1>4. CASE Network \/ UNCHANGED vars
    BY <1>4 DEF Network, LoseRequest, LoseSector, ConnectionChange, vars
  <1> QED
    BY <1>1, <1>2, <1>3, <1>4 DEF Next

LEMMA InvInit == Init => Inv
  <1> SUFFICES ASSUME Init PROVE Inv
    OBVIOUS
  <1>1. TypeOK
    BY InitType
  <1>2. /\ cpuPc = "idle" /\ mqttPc = "idle" /\ outcome = "none"
        /\ toServer = <<>> /\ toDevice = <<>> /\ toM4 = <<>> /\ toA7 = <<>>
        /\ cache = <<>>
    BY DEF Init
  <1>3. \A s \in Sectors : store[s].of = s
    BY DEF Init, Stamp
  <1>4. ServerSideRight
    BY <1>2, <1>3 DEF ServerSideRight
  <1>5. CacheSideRight
    BY <1>2 DEF CacheSideRight
  <1>6. OneAnswer
    BY <1>2 DEF OneAnswer, IsRead
  <1>7. Handshake /\ RequestKnown /\ BufferRight
    BY <1>2 DEF Handshake, RequestKnown, BufferRight
  <1> QED
    BY <1>1, <1>4, <1>5, <1>6, <1>7 DEF Inv, ReadInv

LEMMA InvStep == Inv /\ [Next]_vars => Inv'
  <1> SUFFICES ASSUME Inv, [Next]_vars PROVE Inv'
    OBVIOUS
  <1>1. TypeOK /\ ServerSideRight
    BY DEF Inv
  <1>2. TypeOK'
    BY <1>1, VirtualDiskTypeStep
  <1>3. ServerSideRight'
    BY <1>1, ServerSideStep
  <1>4. ASSUME ~overlapped' PROVE ReadInv'
    <2>1. ~overlapped /\ ReadInv
      BY <1>4, OverlapStays DEF Inv, TypeOK
    <2>2. CacheSideRight' /\ OneAnswer' /\ RequestKnown' /\ BufferRight'
      BY <1>1, <2>1, CacheSideStep, OneAnswerStep, RequestKnownStep, BufferStep
    <2>3. Handshake'
      BY <1>1, <1>4, <2>1, HandshakeStep
    <2> QED
      BY <2>2, <2>3 DEF ReadInv
  <1> QED
    BY <1>2, <1>3, <1>4 DEF Inv

\* The inductive invariant holds in every state, whatever the faults.
THEOREM ReadInvariant == Spec => []Inv
  BY InvInit, InvStep, PTL DEF Spec

\* A read that succeeds returns the sector that was asked for, and the cache
\* holds every sector under its own number, while reads have not overlapped.
THEOREM ReadsReturnTheirSector == Spec => []RightSector
  <1>1. Inv => RightSector
    BY DEF Inv, ReadInv, RightSector, RightSectorEver, BufferRight, CacheSideRight
  <1> QED
    BY <1>1, ReadInvariant, PTL

\* The copies into and out of vdisk_sector do not run at the same time,
\* although the second one is made without the lock.
THEOREM CopiesDoNotRace == Spec => []NoDataRace
  <1>1. Inv => NoDataRace
    BY DEF Inv, ReadInv, NoDataRace, Handshake, Answered
  <1> QED
    BY <1>1, ReadInvariant, PTL

\* The MQTT thread's unlocked reset of sector_requested never hits a request
\* other than the one it answers.
THEOREM RequestsAreNotClobbered == Spec => []RequestNotClobbered
  <1>1. Inv => RequestNotClobbered
    <2> SUFFICES ASSUME Inv, ~overlapped, cpuPc \in {"wait", "waiting"}
                 PROVE  \/ sector_requested = current
                        \/ mqttPc \in {"locking", "copyIn"} /\ inbound.offset = current
                        \/ vdisk_sector.dirty
      BY DEF RequestNotClobbered
    <2>1. RequestKnown /\ AnswersCurrent
      BY DEF Inv, ReadInv, Handshake
    <2> QED
      BY <2>1 DEF RequestKnown, AnswersCurrent
  <1> QED
    BY <1>1, ReadInvariant, PTL

-----------------------------------------------------------------------------
(***************************************************************************)
(* Which faults let reads overlap.  A cache that answers late and lost     *)
(* messages do not, nor a connection that comes and goes: then the wait    *)
(* ends only when it was signalled, at the end of the answer, or when no   *)
(* answer is left to come (Timely), so that none outlives its read and the *)
(* sector is always the right one.  What remains is an answer of more than *)
(* eight seconds and a wait that returns without a signal.                 *)
(***************************************************************************)
Timely ==
    /\ ~overlapped
    /\ AnswerInFlight => cpuPc \in {"wait", "waiting"}
    /\ cpuPc = "waiting" /\ woken => ~AnswerInFlight

TimelyInv == Inv /\ Timely

LEMMA TimelyInit == Init => TimelyInv
  <1> SUFFICES ASSUME Init PROVE TimelyInv
    OBVIOUS
  <1>1. Timely
    BY DEF Init, Timely, AnswerInFlight
  <1> QED
    BY <1>1, InvInit DEF TimelyInv

\* Steps of the others leave the CPU where it is, and do not signal it.
LEMMA OthersDoNotSignal ==
    ASSUME \/ Receive \/ ForgetRequest \/ TakeLock \/ CopyIn
           \/ M4Step \/ ServerStep \/ Network \/ UNCHANGED vars
    PROVE  UNCHANGED <<cpuPc, woken, overlapped>>
  <1> USE DEF cpuVars, sharedVars, mqttVars, m4Vars, serverVars, ghostVars
  <1>1. CASE Receive \/ ForgetRequest \/ TakeLock \/ CopyIn
    BY <1>1 DEF Receive, ForgetRequest, TakeLock, CopyIn
  <1>2. CASE M4Step \/ ServerStep
    BY <1>2 DEF M4Step, M4Read, M4Write, ServerStep, ServerRead, ServerWrite
  <1>3. CASE Network \/ UNCHANGED vars
    BY <1>3 DEF Network, LoseRequest, LoseSector, ConnectionChange, vars
  <1> QED
    BY <1>1, <1>2, <1>3

LEMMA TimelyStep ==
    ASSUME Faults \subseteq {"slowM4", "loss"}, TimelyInv, [Next]_vars
    PROVE  Timely'
  <1> USE DEF cpuVars, sharedVars, mqttVars, m4Vars, serverVars, ghostVars
  <1>1. TypeOK /\ OneAnswer /\ Timely
    BY DEF TimelyInv, Inv, Timely, ReadInv
  <1>2. ASSUME ~RequestSector, ~AnswerInFlight, ~overlapped'
        PROVE  Timely'
    <2>1. ~AnswerInFlight'
      BY <1>1, <1>2, NoAnswerStep
    <2> QED
      BY <1>2, <2>1 DEF Timely
  <1>3. ASSUME NEW s \in Sectors, WriteSector(s) \/ BeginRead(s) PROVE Timely'
    <2>1. ~AnswerInFlight
      BY <1>1, <1>3 DEF WriteSector, BeginRead, Timely
    <2>2. ~overlapped'
      BY <1>1, <1>3, <2>1 DEF WriteSector, BeginRead, Timely
    <2>3. ~RequestSector
      BY <1>3 DEF WriteSector, BeginRead, RequestSector
    <2> QED
      BY <1>2, <2>1, <2>2, <2>3
  <1>4. CASE CacheHit \/ CacheMiss \/ CacheTimeout \/ ReadFailed
             \/ SectorArrived \/ TakeSector
    <2>1. /\ cpuPc \in {"cacheWait", "check", "copyOut"} /\ UNCHANGED overlapped
      BY <1>4 DEF CacheHit, CacheMiss, CacheTimeout, ReadFailed, SectorArrived,
            TakeSector
    <2>2. ~AnswerInFlight
      BY <1>1, <2>1 DEF Timely
    <2> QED
      BY <1>1, <1>2, <2>1, <2>2 DEF Timely, RequestSector
  <1>5. CASE RequestSector
    <2>1. cpuPc' = "wait" /\ UNCHANGED overlapped
      BY <1>5 DEF RequestSector
    <2> QED
      BY <1>1, <2>1 DEF Timely
  <1>6. CASE WaitForSector
    <2>1. cpuPc' = "waiting" /\ ~woken' /\ UNCHANGED overlapped
      BY <1>6 DEF WaitForSector
    <2> QED
      BY <1>1, <2>1 DEF Timely
  <1>7. CASE Woken \/ TimeoutOver \/ SpuriousWakeup
    <2>1. cpuPc = "waiting" /\ UNCHANGED overlapped
      BY <1>7 DEF Woken, TimeoutOver, SpuriousWakeup, EndWait
    <2>2. woken \/ ~AnswerInFlight
      BY <1>7 DEF Woken, TimeoutOver, SpuriousWakeup
    <2>3. ~AnswerInFlight
      BY <1>1, <2>1, <2>2 DEF Timely
    <2> QED
      BY <1>1, <1>2, <2>1, <2>3 DEF Timely, RequestSector
  <1>8. CASE Signal
    <2>1. /\ mqttPc = "signal" /\ mqttPc' = "idle"
          /\ UNCHANGED <<toServer, toDevice, cpuPc, overlapped>>
      BY <1>8 DEF Signal
    <2>2. ~AnswerInFlight'
      BY <1>1, <2>1 DEF OneAnswer, AnswerInFlight, IsRead
    <2> QED
      BY <1>1, <2>1, <2>2 DEF Timely
  <1>9. CASE \/ Receive \/ ForgetRequest \/ TakeLock \/ CopyIn
             \/ M4Step \/ ServerStep \/ Network \/ UNCHANGED vars
    <2>1. UNCHANGED <<cpuPc, woken, overlapped>>
      BY <1>9, OthersDoNotSignal
    <2>2. CASE AnswerInFlight
      BY <1>1, <2>1, <2>2 DEF Timely
    <2>3. CASE ~AnswerInFlight
      <3>1. ~RequestSector
        BY <2>1 DEF RequestSector
      <3> QED
        BY <1>1, <1>2, <2>1, <2>3, <3>1 DEF Timely
    <2> QED
      BY <2>2, <2>3
  <1> QED
    BY <1>3, <1>4, <1>5, <1>6, <1>7, <1>8, <1>9
       DEF Next, CpuContinues, CpuProceeds, MqttStep

\* A read that succeeds returns the sector that was asked for, and the cache
\* holds every sector under its own number, whatever is lost on the way to
\* and from the server and however late the cache answers, as long as the wait
\* for a sector ends by its signal or after its eight seconds, and no answer
\* takes longer.
THEOREM SlowAndLossyReadsAreRight ==
    ASSUME Faults \subseteq {"slowM4", "loss"}
    PROVE  Spec => []RightSectorEver
  <1>1. TimelyInv /\ [Next]_vars => TimelyInv'
    BY TimelyStep, InvStep DEF TimelyInv
  <1>2. TimelyInv => RightSectorEver
    BY DEF TimelyInv, Timely, Inv, ReadInv, RightSectorEver, BufferRight, CacheSideRight
  <1> QED
    BY <1>1, <1>2, TimelyInit, PTL DEF Spec

-----------------------------------------------------------------------------
(***************************************************************************)
(* Without faults every read succeeds and returns what was last written,   *)
(* so that the virtual disk implements SectorStore.  Reads never overlap   *)
(* then, because each one ends only when its answer has come (Served); no  *)
(* answer of the cache is left behind (CacheTalk); and what is on its way  *)
(* to a store is either the newest content of its sector or followed by a  *)
(* newer one, so that a store with nothing of a sector on its way to it    *)
(* holds the newest (CacheFresh, ServerFresh, AnswerFresh).                *)
(***************************************************************************)
Newest(s, data) == data = Stamp(s, latest[s])

IsCacheWrite(q, i, s) == q[i].type = "DISK_IC_WRITE" /\ q[i].sector_number = s

IsDiskWrite(q, i, s) == q[i].topic = "write" /\ q[i].offset = s

\* The answer a read waits for is on its way, or has come.
Served ==
    /\ AnswerInFlight => cpuPc \in {"wait", "waiting"}
    /\ cpuPc \in {"wait", "waiting"} => AnswerInFlight \/ vdisk_sector.dirty
    /\ cpuPc = "check" => vdisk_sector.dirty
    /\ mqttPc = "signal" => vdisk_sector.dirty
    /\ cpuPc = "waiting" /\ woken => ~AnswerInFlight

\* The M4 has one question to answer at most, that of the read the CPU is in.
CacheTalk ==
    /\ cpuPc # "cacheWait" =>
         toA7 = <<>> /\ \A i \in DOMAIN toM4 : toM4[i].type = "DISK_IC_WRITE"
    /\ \A i \in DOMAIN toM4 : toM4[i].type = "DISK_IC_READ" =>
         i = Len(toM4) /\ toA7 = <<>>
    /\ Len(toA7) <= 1

\* A content on its way to the cache is its sector's newest, or followed by a
\* newer one.
CacheWritesFresh ==
    \A i \in DOMAIN toM4, s \in Sectors : IsCacheWrite(toM4, i, s) =>
        \/ Newest(s, toM4[i].sector)
        \/ \E j \in DOMAIN toM4 : i < j /\ IsCacheWrite(toM4, j, s)

\* So is an entry of the cache.
CacheEntriesFresh ==
    \A i \in DOMAIN cache :
        \/ Newest(cache[i].sector_number_key, cache[i].sector)
        \/ \E j \in DOMAIN toM4 : IsCacheWrite(toM4, j, cache[i].sector_number_key)

CacheAnswersFresh ==
    \A i \in DOMAIN toA7 : toA7[i].cached =>
        Newest(toA7[i].sector_number, toA7[i].sector)

CacheFresh ==
    /\ UniqueKeys(cache)
    /\ CacheWritesFresh
    /\ CacheEntriesFresh
    /\ CacheAnswersFresh

\* The same of the server, which answers a read after the writes before it.
ReadIsLast == \A i \in DOMAIN toServer : IsRead(toServer, i) => i = Len(toServer)

ServerWritesFresh ==
    \A i \in DOMAIN toServer, s \in Sectors : IsDiskWrite(toServer, i, s) =>
        \/ Newest(s, toServer[i].data)
        \/ \E j \in DOMAIN toServer : i < j /\ IsDiskWrite(toServer, j, s)

StoreFresh ==
    \A s \in Sectors :
        \/ Newest(s, store[s])
        \/ \E j \in DOMAIN toServer : IsDiskWrite(toServer, j, s)

ServerFresh == ReadIsLast /\ ServerWritesFresh /\ StoreFresh

\* The sector on its way to the CPU, or handed to it, is the newest.
AnswerFresh ==
    /\ \A i \in DOMAIN toDevice : Newest(toDevice[i].offset, toDevice[i].data)
    /\ mqttPc # "idle" => Newest(inbound.offset, inbound.data)
    /\ cpuPc # "idle" /\ vdisk_sector.dirty => Newest(current, vdisk_sector.data)

Faultless == mqtt_connected /\ ~overlapped /\ outcome # "failed"

\* Every read is served.
ServedInv == Inv /\ Faultless /\ Served

\* And it is served with the newest content.
FreshInv == ServedInv /\ CacheTalk /\ CacheFresh /\ ServerFresh /\ AnswerFresh

\* The steps that are left without faults.
FaultlessStep ==
    \/ \E s \in Sectors : WriteSector(s) \/ BeginRead(s)
    \/ CacheHit \/ CacheMiss \/ RequestSector \/ WaitForSector
    \/ EndWait /\ (woken \/ ~AnswerInFlight)
    \/ ReadFailed \/ SectorArrived \/ TakeSector
    \/ MqttStep \/ M4Step \/ ServerStep
    \/ UNCHANGED vars

LEMMA NoFaultsStep ==
    ASSUME Faults = {}, [Next]_vars
    PROVE  FaultlessStep
  BY DEF Next, FaultlessStep, CpuContinues, CpuProceeds, CacheTimeout, Woken,
         TimeoutOver, SpuriousWakeup, Network, LoseRequest, LoseSector,
         ConnectionChange

\* The ring has room for what the CPU puts in it.
LEMMA RingHasRoom ==
    ASSUME Faults = {}, MailboxReady, NEW m
    PROVE  Posted(toM4, m) = Append(toM4, m) /\ Len(toM4) < MAILBOX_SLOTS
  BY DEF MailboxReady, Posted

\* Without faults no connection is lost, no reads overlap and none fails.
LEMMA FaultlessKept ==
    ASSUME Faults = {}, Inv, Faultless, Served, [Next]_vars
    PROVE  Faultless'
  <1> USE DEF cpuVars, sharedVars, mqttVars, m4Vars, serverVars, ghostVars
  <1>0. FaultlessStep
    BY NoFaultsStep
  <1>1. ASSUME NEW s \in Sectors, WriteSector(s) PROVE Faultless'
    BY <1>1 DEF WriteSector, Faultless
  <1>2. ASSUME NEW s \in Sectors, BeginRead(s) PROVE Faultless'
    <2>1. ~AnswerInFlight
      BY <1>2 DEF BeginRead, Served
    <2> QED
      BY <1>2, <2>1 DEF BeginRead, Faultless
  <1>3. CASE ReadFailed
    BY <1>3 DEF ReadFailed, Served
  <1>4. ASSUME UNCHANGED <<mqtt_connected, overlapped>>,
               outcome' \in {outcome, "ok"}
        PROVE  Faultless'
    BY <1>4 DEF Faultless
  <1>5. CASE CacheHit \/ CacheMiss \/ RequestSector \/ WaitForSector \/ EndWait
    <2>1. UNCHANGED <<mqtt_connected, overlapped>> /\ outcome' \in {outcome, "ok"}
      BY <1>5 DEF CacheHit, CacheMiss, RequestSector, WaitForSector, EndWait
    <2> QED
      BY <1>4, <2>1
  <1>6. CASE SectorArrived \/ TakeSector \/ UNCHANGED vars
    <2>1. UNCHANGED <<mqtt_connected, overlapped>> /\ outcome' \in {outcome, "ok"}
      BY <1>6 DEF SectorArrived, TakeSector, vars
    <2> QED
      BY <1>4, <2>1
  <1>7. CASE MqttStep \/ M4Step \/ ServerStep
    <2>1. UNCHANGED <<mqtt_connected, overlapped, outcome>>
      BY <1>7 DEF MqttStep, Receive, ForgetRequest, TakeLock, CopyIn, Signal,
            M4Step, M4Read, M4Write, ServerStep, ServerRead, ServerWrite
    <2> QED
      BY <1>4, <2>1
  <1> QED
    BY <1>0, <1>1, <1>2, <1>3, <1>5, <1>6, <1>7 DEF FaultlessStep

\* Without faults every read is served.
LEMMA ServedStep ==
    ASSUME Faults = {}, ServedInv, [Next]_vars
    PROVE  Served'
  <1> USE DEF cpuVars, sharedVars, mqttVars, m4Vars, serverVars, ghostVars
  <1>0. FaultlessStep
    BY NoFaultsStep
  <1>1. /\ TypeOK /\ OneAnswer /\ Handshake /\ RequestKnown /\ Served
        /\ mqtt_connected
        /\ toServer \in Seq(DiskRequest) /\ toDevice \in Seq(SectorMessage)
    BY DEF ServedInv, Inv, Faultless, ReadInv, TypeOK
  <1>2. ASSUME ~AnswerInFlight, ~RequestSector, UNCHANGED <<mqttPc>>,
               cpuPc' \in {"idle", "cacheWait", "request", "copyOut"}
        PROVE  Served'
    <2>1. ~AnswerInFlight'
      BY <1>1, <1>2, NoAnswerStep
    <2>2. mqttPc = "idle"
      BY <1>2 DEF AnswerInFlight
    <2> QED
      BY <1>2, <2>1, <2>2 DEF Served
  <1>3. ASSUME NEW s \in Sectors, WriteSector(s) \/ BeginRead(s) PROVE Served'
    <2>1. cpuPc = "idle" /\ cpuPc' \in {"idle", "cacheWait", "request"} /\ UNCHANGED mqttPc
      BY <1>3 DEF WriteSector, BeginRead
    <2>2. ~AnswerInFlight
      BY <1>1, <2>1 DEF Served
    <2> QED
      BY <1>2, <2>1, <2>2 DEF RequestSector
  <1>4. CASE CacheHit \/ CacheMiss \/ ReadFailed \/ SectorArrived \/ TakeSector
    <2>1. /\ cpuPc \in {"cacheWait", "check", "copyOut"} /\ UNCHANGED mqttPc
          /\ cpuPc' \in {"idle", "request", "copyOut"}
      BY <1>4 DEF CacheHit, CacheMiss, ReadFailed, SectorArrived, TakeSector
    <2>2. ~AnswerInFlight
      BY <1>1, <2>1 DEF Served
    <2> QED
      BY <1>2, <2>1, <2>2 DEF RequestSector
  <1>5. CASE RequestSector
    <2>1. DiskRead(current) \in DiskRequest /\ DiskRead(current).topic = "read"
      BY <1>1, ContentTypes, MessageTypes DEF DiskRead, TypeOK
    <2>2. toServer' = Append(toServer, DiskRead(current))
      BY <1>1, <1>5 DEF RequestSector, Published
    <2>3. Len(toServer) + 1 \in DOMAIN toServer'
          /\ toServer'[Len(toServer) + 1] = DiskRead(current)
      BY <1>1, <2>1, <2>2, AppendFacts
    <2>4. AnswerInFlight'
      BY <2>1, <2>3 DEF AnswerInFlight
    <2>5. cpuPc = "request" /\ cpuPc' = "wait" /\ UNCHANGED mqttPc
      BY <1>5 DEF RequestSector
    <2>6. mqttPc = "idle"
      BY <1>1, <2>5 DEF Served, AnswerInFlight
    <2> QED
      BY <2>4, <2>5, <2>6 DEF Served
  <1>6. CASE WaitForSector
    <2>1. /\ cpuPc = "wait" /\ cpuPc' = "waiting" /\ ~woken'
          /\ UNCHANGED <<toServer, toDevice, mqttPc, vdisk_sector>>
      BY <1>6 DEF WaitForSector
    <2> QED
      BY <1>1, <2>1 DEF Served, AnswerInFlight
  <1>7. CASE EndWait /\ (woken \/ ~AnswerInFlight)
    <2>1. /\ cpuPc = "waiting" /\ cpuPc' = "check"
          /\ UNCHANGED <<toServer, toDevice, mqttPc, vdisk_sector>>
      BY <1>7 DEF EndWait
    <2>2. ~AnswerInFlight
      BY <1>1, <1>7, <2>1 DEF Served
    <2> QED
      BY <1>1, <2>1, <2>2 DEF Served, AnswerInFlight
  <1>8. CASE Receive
    <2>1. /\ mqttPc = "idle" /\ toDevice # <<>>
          /\ mqttPc' = IF Head(toDevice).offset = sector_requested
                       THEN "matched" ELSE "idle"
          /\ UNCHANGED <<cpuPc, woken, vdisk_sector>>
      BY <1>8 DEF Receive
    <2>2. AnswerInFlight /\ cpuPc \in {"wait", "waiting"}
      BY <1>1, <2>1 DEF Served, AnswerInFlight
    <2>3. ~vdisk_sector.dirty /\ AnswersCurrent
      BY <1>1, <2>1, <2>2 DEF Handshake, Answered
    <2>4. sector_requested = current
      BY <1>1, <2>1, <2>2, <2>3 DEF RequestKnown
    <2>5. Head(toDevice).offset = current
      BY <1>1, <2>1, <2>3, TailFacts DEF AnswersCurrent
    <2>6. mqttPc' = "matched"
      BY <2>1, <2>4, <2>5
    <2>7. AnswerInFlight'
      BY <2>6 DEF AnswerInFlight
    <2> QED
      BY <1>1, <2>1, <2>2, <2>6, <2>7 DEF Served
  <1>9. CASE ForgetRequest \/ TakeLock \/ CopyIn
    <2>1. /\ mqttPc # "idle" /\ mqttPc' # "idle" /\ UNCHANGED <<cpuPc, woken>>
          /\ \/ UNCHANGED vdisk_sector /\ mqttPc' # "signal"
             \/ vdisk_sector'.dirty
      BY <1>9 DEF ForgetRequest, TakeLock, CopyIn
    <2>2. AnswerInFlight /\ AnswerInFlight'
      BY <2>1 DEF AnswerInFlight
    <2> QED
      BY <1>1, <2>1, <2>2 DEF Served
  <1>10. CASE Signal
    <2>1. /\ mqttPc = "signal" /\ mqttPc' = "idle"
          /\ UNCHANGED <<cpuPc, vdisk_sector, toServer, toDevice>>
      BY <1>10 DEF Signal
    <2>2. cpuPc \in {"wait", "waiting"} /\ vdisk_sector.dirty
      BY <1>1, <2>1 DEF Served, AnswerInFlight
    <2>3. Answered
      BY <1>1, <2>2 DEF Handshake
    <2>4. ~AnswerInFlight'
      BY <2>1, <2>3 DEF Answered, AnswerInFlight, IsRead
    <2> QED
      BY <2>1, <2>2, <2>4 DEF Served
  <1>11. CASE M4Step \/ UNCHANGED vars
    <2>1. UNCHANGED <<toServer, toDevice, mqttPc, cpuPc, vdisk_sector, woken>>
      BY <1>11 DEF M4Step, M4Read, M4Write, vars
    <2> QED
      BY <1>1, <2>1 DEF Served, AnswerInFlight
  <1>12. CASE ServerStep
    <2>1. /\ toServer # <<>> /\ toServer' = Tail(toServer)
          /\ UNCHANGED <<mqttPc, cpuPc, vdisk_sector, woken>>
      BY <1>12 DEF ServerStep, ServerRead, ServerWrite
    <2>2. /\ 1 \in DOMAIN toServer /\ Head(toServer) = toServer[1]
          /\ DOMAIN toServer' = 1 .. Len(toServer) - 1 /\ Len(toServer) \in Nat
          /\ DOMAIN toServer = 1 .. Len(toServer)
          /\ \A i \in 1 .. Len(toServer) - 1 : toServer'[i] = toServer[i + 1]
      BY <1>1, <2>1, TailFacts
    <2>3. AnswerInFlight' = AnswerInFlight
      <3>1. CASE ServerRead
        <4>1. AnswerInFlight
          BY <2>2, <3>1 DEF ServerRead, AnswerInFlight
        <4>2. toDevice' # <<>>
          <5> DEFINE answer == [offset |-> Head(toServer).offset,
                                data |-> store[Head(toServer).offset]]
          <5>1. toDevice' = Append(toDevice, answer)
            BY <3>1 DEF ServerRead
          <5> HIDE DEF answer
          <5> QED
            BY <1>1, <5>1
        <4>3. AnswerInFlight'
          BY <4>2 DEF AnswerInFlight
        <4> QED
          BY <4>1, <4>3 DEF AnswerInFlight
      <3>2. CASE ServerWrite
        <4>1. ~IsRead(toServer, 1) /\ UNCHANGED toDevice
          BY <2>2, <3>2 DEF ServerWrite, IsRead
        <4>2. (\E i \in DOMAIN toServer : IsRead(toServer, i))
                <=> (\E i \in DOMAIN toServer' : IsRead(toServer', i))
          <5>1. ASSUME NEW i \in DOMAIN toServer, IsRead(toServer, i)
                PROVE  \E j \in DOMAIN toServer' : IsRead(toServer', j)
            <6>1. i # 1
              BY <4>1, <5>1
            <6>2. i - 1 \in DOMAIN toServer' /\ toServer'[i - 1] = toServer[i]
              BY <2>2, <6>1
            <6> QED
              BY <5>1, <6>2 DEF IsRead
          <5>2. ASSUME NEW i \in DOMAIN toServer', IsRead(toServer', i)
                PROVE  \E j \in DOMAIN toServer : IsRead(toServer, j)
            <6>1. i + 1 \in DOMAIN toServer /\ toServer'[i] = toServer[i + 1]
              BY <2>2
            <6> QED
              BY <5>2, <6>1 DEF IsRead
          <5> QED
            BY <5>1, <5>2
        <4>3. AnswerInFlight <=> (\E i \in DOMAIN toServer : IsRead(toServer, i))
                                  \/ toDevice # <<>> \/ mqttPc # "idle"
          BY DEF AnswerInFlight, IsRead
        <4>4. AnswerInFlight' <=> (\E i \in DOMAIN toServer' : IsRead(toServer', i))
                                   \/ toDevice' # <<>> \/ mqttPc' # "idle"
          BY DEF AnswerInFlight, IsRead
        <4>5. AnswerInFlight' <=> AnswerInFlight
          BY <2>1, <4>1, <4>2, <4>3, <4>4
        <4> QED
          BY <4>5 DEF AnswerInFlight
      <3> QED
        BY <1>12, <3>1, <3>2 DEF ServerStep
    <2> QED
      BY <1>1, <2>1, <2>3 DEF Served
  <1> QED
    BY <1>0, <1>3, <1>4, <1>5, <1>6, <1>7, <1>8, <1>9, <1>10, <1>11, <1>12
       DEF FaultlessStep, MqttStep

LEMMA ServedInvInit == Init => ServedInv
  <1> SUFFICES ASSUME Init PROVE ServedInv
    OBVIOUS
  <1>1. Faultless
    BY DEF Init, Faultless
  <1>2. Served
    BY DEF Init, Served, AnswerInFlight
  <1> QED
    BY <1>1, <1>2, InvInit DEF ServedInv

LEMMA ServedInvStep ==
    ASSUME Faults = {}, ServedInv, [Next]_vars
    PROVE  ServedInv'
  <1>1. Inv /\ Faultless /\ Served
    BY DEF ServedInv
  <1>2. Inv'
    BY <1>1, InvStep
  <1>3. Faultless'
    BY <1>1, FaultlessKept
  <1>4. Served'
    BY ServedStep
  <1> QED
    BY <1>2, <1>3, <1>4 DEF ServedInv

\* Without faults no read fails: the wait for a sector, ended by the signal or
\* by the timeout, finds the sector there, and no earlier answer is in the way.
THEOREM FaultlessReadsSucceed ==
    ASSUME Faults = {}
    PROVE  Spec => []NoReadFails
  <1>1. ServedInv /\ [Next]_vars => ServedInv'
    BY ServedInvStep
  <1>2. ServedInv => NoReadFails
    BY DEF ServedInv, Faultless, NoReadFails
  <1> QED
    BY <1>1, <1>2, ServedInvInit, PTL DEF Spec

-----------------------------------------------------------------------------
\* Only a write of the CPU changes what is newest.
LEMMA LatestKept ==
    ASSUME FaultlessStep, \A s \in Sectors : ~WriteSector(s)
    PROVE  UNCHANGED latest
  <1> USE DEF cpuVars, sharedVars, mqttVars, m4Vars, serverVars, ghostVars
  <1>1. CASE \E s \in Sectors : BeginRead(s)
    BY <1>1 DEF BeginRead
  <1>2. CASE CacheHit \/ CacheMiss \/ RequestSector \/ WaitForSector \/ EndWait
    BY <1>2 DEF CacheHit, CacheMiss, RequestSector, WaitForSector, EndWait
  <1>3. CASE ReadFailed \/ SectorArrived \/ TakeSector \/ UNCHANGED vars
    BY <1>3 DEF ReadFailed, SectorArrived, TakeSector, vars
  <1>4. CASE MqttStep \/ M4Step \/ ServerStep
    BY <1>4 DEF MqttStep, Receive, ForgetRequest, TakeLock, CopyIn, Signal,
          M4Step, M4Read, M4Write, ServerStep, ServerRead, ServerWrite
  <1> QED
    BY <1>1, <1>2, <1>3, <1>4 DEF FaultlessStep

\* What the CPU puts in the ring of the M4.
LEMMA CacheWritePosted ==
    ASSUME TypeOK, NEW s \in Sectors, NEW d \in Content,
           toM4' = Append(toM4, CacheWrite(s, d))
    PROVE  /\ Len(toM4) \in Nat
           /\ DOMAIN toM4 = 1 .. Len(toM4)
           /\ DOMAIN toM4' = 1 .. Len(toM4) + 1
           /\ \A i \in 1 .. Len(toM4) : toM4'[i] = toM4[i]
           /\ toM4'[Len(toM4) + 1].type = "DISK_IC_WRITE"
           /\ toM4'[Len(toM4) + 1].sector_number = s
           /\ toM4'[Len(toM4) + 1].sector = d
  <1> DEFINE m == CacheWrite(s, d)
  <1>1. /\ m \in CacheRequest /\ m.type = "DISK_IC_WRITE"
        /\ m.sector_number = s /\ m.sector = d
    BY MessageTypes DEF CacheWrite
  <1>2. toM4 \in Seq(CacheRequest) /\ toM4' = Append(toM4, m)
    BY DEF TypeOK
  <1> HIDE DEF m
  <1> QED
    BY <1>1, <1>2, AppendFacts

LEMMA CacheReadPosted ==
    ASSUME TypeOK, NEW s \in Sectors, toM4' = Append(toM4, CacheRead(s))
    PROVE  /\ Len(toM4) \in Nat
           /\ DOMAIN toM4 = 1 .. Len(toM4)
           /\ DOMAIN toM4' = 1 .. Len(toM4) + 1
           /\ Len(toM4') = Len(toM4) + 1
           /\ \A i \in 1 .. Len(toM4) : toM4'[i] = toM4[i]
           /\ toM4'[Len(toM4) + 1].type = "DISK_IC_READ"
  <1> DEFINE m == CacheRead(s)
  <1>1. m \in CacheRequest /\ m.type = "DISK_IC_READ"
    BY ContentTypes, MessageTypes DEF CacheRead
  <1>2. toM4 \in Seq(CacheRequest) /\ toM4' = Append(toM4, m)
    BY DEF TypeOK
  <1> HIDE DEF m
  <1> QED
    BY <1>1, <1>2, AppendFacts

\* What the M4 takes out of it.
LEMMA M4Takes ==
    ASSUME TypeOK, M4Step
    PROVE  /\ Len(toM4) \in Nat /\ Len(toM4) >= 1
           /\ DOMAIN toM4 = 1 .. Len(toM4)
           /\ toM4' = Tail(toM4)
           /\ Len(toM4') = Len(toM4) - 1
           /\ DOMAIN toM4' = 1 .. Len(toM4) - 1
           /\ \A i \in 1 .. Len(toM4) - 1 : toM4'[i] = toM4[i + 1]
           /\ Head(toM4) = toM4[1] /\ Head(toM4) \in CacheRequest
           /\ Head(toM4).sector_number \in Sectors /\ Head(toM4).sector \in Content
           /\ cpuPc' = cpuPc /\ latest' = latest
  <1>1. /\ toM4 # <<>> /\ toM4' = Tail(toM4) /\ toM4 \in Seq(CacheRequest)
        /\ cpuPc' = cpuPc /\ latest' = latest
    BY DEF M4Step, M4Read, M4Write, TypeOK, cpuVars, ghostVars
  <1>2. Head(toM4) \in CacheRequest
    BY <1>1, TailFacts
  <1>3. Head(toM4).sector_number \in Sectors /\ Head(toM4).sector \in Content
    BY <1>2 DEF CacheRequest
  <1> QED
    BY <1>1, <1>2, <1>3, TailFacts

\* What TakeSector hands on: nothing is being copied in.
LEMMA TakenSector ==
    ASSUME ServedInv, TakeSector
    PROVE  /\ vdisk_sector.dirty /\ vdisk_sector.data \in Content
           /\ sectorData' = vdisk_sector.data
           /\ Faults = {} => toM4' = Append(toM4, CacheWrite(current, vdisk_sector.data))
           /\ UNCHANGED <<current, latest, toA7, cache>>
           /\ cpuPc # "idle" /\ cpuPc # "cacheWait" /\ cpuPc' = "idle"
  <1>1. Handshake /\ Served /\ cpuPc = "copyOut" /\ TypeOK
    BY DEF ServedInv, Inv, Faultless, ReadInv, TakeSector
  <1>2. vdisk_sector.dirty /\ mqttPc # "copyIn"
    BY <1>1 DEF Handshake, Answered
  <1>3. CopiedOut = {vdisk_sector.data}
    BY <1>2 DEF CopiedOut
  <1>4. /\ sectorData' = vdisk_sector.data
        /\ toM4' = Posted(toM4, CacheWrite(current, vdisk_sector.data))
        /\ MailboxReady
    BY <1>3 DEF TakeSector
  <1>5. UNCHANGED <<current, latest, toA7, cache>> /\ cpuPc' = "idle"
    BY DEF TakeSector, ghostVars
  <1>6. vdisk_sector.data \in Content
    BY <1>1 DEF TypeOK
  <1>7. Faults = {} => toM4' = Append(toM4, CacheWrite(current, vdisk_sector.data))
    BY <1>4, RingHasRoom
  <1> QED
    BY <1>1, <1>2, <1>4, <1>5, <1>6, <1>7

\* What WriteSector sends.
LEMMA WrittenSector ==
    ASSUME Faults = {}, ServedInv, NEW s \in Sectors, WriteSector(s)
    PROVE  /\ latest[s] + 1 \in Nat
           /\ latest' \in [Sectors -> Nat]
           /\ latest'[s] = latest[s] + 1
           /\ \A t \in Sectors : t # s => latest'[t] = latest[t]
           /\ Stamp(s, latest[s] + 1) \in Content
           /\ toM4' = Append(toM4, CacheWrite(s, Stamp(s, latest[s] + 1)))
           /\ toServer' = Append(toServer, DiskWrite(s, Stamp(s, latest[s] + 1)))
           /\ UNCHANGED <<cpuPc, toA7, cache, toDevice, store, mqttPc, inbound>>
           /\ cpuPc = "idle" /\ ~AnswerInFlight
  <1>1. TypeOK /\ Served /\ mqtt_connected
    BY DEF ServedInv, Inv, Faultless
  <1>2. latest \in [Sectors -> Nat]
    BY <1>1 DEF TypeOK
  <1>3. latest' = [latest EXCEPT ![s] = latest[s] + 1]
    BY DEF WriteSector
  <1>4. /\ latest[s] + 1 \in Nat /\ latest' \in [Sectors -> Nat]
        /\ latest'[s] = latest[s] + 1
        /\ \A t \in Sectors : t # s => latest'[t] = latest[t]
    BY <1>2, <1>3
  <1>5. Stamp(s, latest[s] + 1) \in Content
    BY <1>4, ContentTypes
  <1>6. /\ toM4' = Append(toM4, CacheWrite(s, Stamp(s, latest[s] + 1)))
        /\ toServer' = Append(toServer, DiskWrite(s, Stamp(s, latest[s] + 1)))
    BY <1>1, RingHasRoom DEF WriteSector, Published
  <1>7. UNCHANGED <<cpuPc, toA7, cache, toDevice, store, mqttPc, inbound>>
    BY DEF WriteSector, mqttVars
  <1>8. cpuPc = "idle" /\ ~AnswerInFlight
    BY <1>1 DEF WriteSector, Served
  <1> QED
    BY <1>4, <1>5, <1>6, <1>7, <1>8

-----------------------------------------------------------------------------
\* The steps that leave the cache's side alone.
LEMMA CacheSideUntouched ==
    ASSUME FaultlessStep, ~M4Step, ~CacheHit, ~CacheMiss, ~TakeSector,
           \A s \in Sectors : ~WriteSector(s) /\ ~BeginRead(s)
    PROVE  /\ UNCHANGED <<toM4, toA7, cache, latest>>
           /\ cpuPc' = "cacheWait" <=> cpuPc = "cacheWait"
  <1> USE DEF cpuVars, sharedVars, mqttVars, m4Vars, serverVars, ghostVars
  <1>1. CASE RequestSector \/ WaitForSector \/ EndWait
    BY <1>1 DEF RequestSector, WaitForSector, EndWait
  <1>2. CASE ReadFailed \/ SectorArrived \/ UNCHANGED vars
    BY <1>2 DEF ReadFailed, SectorArrived, vars
  <1>3. CASE MqttStep \/ ServerStep
    BY <1>3 DEF MqttStep, Receive, ForgetRequest, TakeLock, CopyIn, Signal,
          ServerStep, ServerRead, ServerWrite
  <1> QED
    BY <1>1, <1>2, <1>3 DEF FaultlessStep

\* The M4 has one question to answer at most, and the A7 one answer to read.
LEMMA CacheTalkStep ==
    ASSUME Faults = {}, ServedInv, CacheTalk, [Next]_vars
    PROVE  CacheTalk'
  <1> USE DEF cpuVars, sharedVars, mqttVars, serverVars, ghostVars
  <1>0. FaultlessStep /\ TypeOK
    BY NoFaultsStep DEF ServedInv, Inv
  <1>1. ASSUME NEW s \in Sectors, NEW d \in Content, cpuPc # "cacheWait",
               toM4' = Append(toM4, CacheWrite(s, d)),
               UNCHANGED toA7, cpuPc' # "cacheWait"
        PROVE  CacheTalk'
    BY <1>0, <1>1, CacheWritePosted DEF CacheTalk
  <1>2. ASSUME NEW s \in Sectors, WriteSector(s) PROVE CacheTalk'
    BY <1>1, <1>2, WrittenSector
  <1>3. CASE TakeSector
    <2>1. current \in Sectors
      BY <1>0 DEF TypeOK
    <2> QED
      BY <1>1, <1>3, <2>1, TakenSector
  <1>4. ASSUME NEW s \in Sectors, BeginRead(s) PROVE CacheTalk'
    <2>1. toM4' = Append(toM4, CacheRead(s)) /\ cpuPc' = "cacheWait"
      BY <1>4, RingHasRoom DEF BeginRead
    <2>2. UNCHANGED toA7 /\ cpuPc = "idle"
      BY <1>4 DEF BeginRead
    <2> QED
      BY <1>0, <2>1, <2>2, CacheReadPosted DEF CacheTalk
  <1>5. CASE CacheHit \/ CacheMiss
    <2>1. toA7 # <<>> /\ toA7' = Tail(toA7) /\ UNCHANGED toM4 /\ toA7 \in Seq(CacheReply)
      BY <1>0, <1>5 DEF CacheHit, CacheMiss, TypeOK
    <2>2. toA7' \in Seq(CacheReply) /\ Len(toA7') = 0
      <3>1. Len(toA7) <= 1
        BY DEF CacheTalk
      <3>2. /\ toA7' \in Seq(CacheReply)
            /\ Len(toA7) \in Nat /\ Len(toA7) >= 1
            /\ Len(toA7') = Len(toA7) - 1
        BY <2>1, TailFacts
      <3> QED
        BY <3>1, <3>2
    <2>3. toA7' = <<>>
      BY <2>2
    <2>4. \A i \in DOMAIN toM4 : toM4[i].type = "DISK_IC_WRITE"
      <3>1. \A i \in DOMAIN toM4 : toM4[i] \in CacheRequest
        BY <1>0 DEF TypeOK
      <3>2. \A i \in DOMAIN toM4 : toM4[i].type \in {"DISK_IC_READ", "DISK_IC_WRITE"}
        BY <3>1 DEF CacheRequest
      <3> QED
        BY <2>1, <3>2 DEF CacheTalk
    <2> QED
      BY <2>1, <2>2, <2>3, <2>4 DEF CacheTalk
  <1>6. CASE M4Read
    <2>1. toM4[1].type = "DISK_IC_READ"
      BY <1>0, <1>6, M4Takes DEF M4Step, M4Read
    <2>2. 1 = Len(toM4) /\ toA7 = <<>>
      BY <1>0, <1>6, <2>1, M4Takes DEF M4Step, CacheTalk
    <2>3. cpuPc = "cacheWait"
      BY <1>0, <1>6, <2>1, M4Takes DEF M4Step, CacheTalk
    <2>4. DOMAIN toM4' = {} /\ cpuPc' = "cacheWait"
      BY <1>0, <1>6, <2>2, <2>3, M4Takes DEF M4Step
    <2>5. Len(toA7') <= 1
      <3> DEFINE reply == IF InCache(cache, Head(toM4).sector_number)
                          THEN HitReply(Head(toM4).sector_number) ELSE MissReply
      <3>1. toA7' = Posted(<<>>, reply)
        BY <1>6, <2>2 DEF M4Read
      <3> HIDE DEF reply
      <3>2. CASE toA7' = Append(<<>>, reply)
        BY <3>2
      <3>3. CASE toA7' = <<>>
        BY <3>3
      <3> QED
        BY <3>1, <3>2, <3>3 DEF Posted
    <2> QED
      BY <2>4, <2>5 DEF CacheTalk
  <1>7. CASE M4Write
    <2>1. UNCHANGED toA7
      BY <1>7 DEF M4Write
    <2> QED
      BY <1>0, <1>7, <2>1, M4Takes DEF M4Step, CacheTalk
  <1>8. ASSUME UNCHANGED <<toM4, toA7>>, cpuPc' = "cacheWait" <=> cpuPc = "cacheWait"
        PROVE  CacheTalk'
    BY <1>8 DEF CacheTalk
  <1> QED
    BY <1>0, <1>2, <1>3, <1>4, <1>5, <1>6, <1>7, <1>8, CacheSideUntouched DEF M4Step

\* The entries of the table.
LEMMA CachedEntries ==
    ASSUME TypeOK, NEW i \in DOMAIN cache
    PROVE  cache[i].sector_number_key \in Sectors /\ cache[i].sector \in Content
  <1>1. cache[i] \in CacheEntry(Sectors, Content)
    BY DEF TypeOK
  <1> QED
    BY <1>1 DEF CacheEntry

\* A message put in the ring leaves what is in it fresh.
LEMMA FreshWriteToCache ==
    ASSUME TypeOK, CacheFresh, NEW s \in Sectors, NEW d \in Content,
           toM4' = Append(toM4, CacheWrite(s, d)), UNCHANGED cache,
           d = Stamp(s, latest'[s]),
           \A t \in Sectors : t # s => latest'[t] = latest[t]
    PROVE  CacheWritesFresh' /\ CacheEntriesFresh'
  <1>1. /\ Len(toM4) \in Nat
        /\ DOMAIN toM4 = 1 .. Len(toM4)
        /\ DOMAIN toM4' = 1 .. Len(toM4) + 1
        /\ \A i \in 1 .. Len(toM4) : toM4'[i] = toM4[i]
        /\ IsCacheWrite(toM4', Len(toM4) + 1, s)
        /\ toM4'[Len(toM4) + 1].sector = d
        /\ toM4'[Len(toM4) + 1].sector_number = s
    BY CacheWritePosted DEF IsCacheWrite
  <1>2. \A i \in DOMAIN cache : cache[i].sector_number_key \in Sectors
    BY CachedEntries
  <1>3. CacheWritesFresh'
    <2> SUFFICES ASSUME NEW i \in DOMAIN toM4', NEW t \in Sectors,
                        IsCacheWrite(toM4', i, t)
                 PROVE  \/ toM4'[i].sector = Stamp(t, latest'[t])
                        \/ \E j \in DOMAIN toM4' : i < j /\ IsCacheWrite(toM4', j, t)
      BY DEF CacheWritesFresh, Newest, IsCacheWrite
    <2>1. CASE t = s
      BY <1>1, <2>1
    <2>2. CASE t # s
      <3>1. i \in DOMAIN toM4 /\ toM4'[i] = toM4[i] /\ IsCacheWrite(toM4, i, t)
        BY <1>1, <2>2 DEF IsCacheWrite
      <3>2. CASE Newest(t, toM4[i].sector)
        BY <2>2, <3>1, <3>2 DEF Newest
      <3>3. ASSUME NEW j \in DOMAIN toM4, i < j, IsCacheWrite(toM4, j, t)
            PROVE  j \in DOMAIN toM4' /\ IsCacheWrite(toM4', j, t)
        BY <1>1, <3>3 DEF IsCacheWrite
      <3> QED
        BY <3>1, <3>2, <3>3 DEF CacheFresh, CacheWritesFresh
    <2> QED
      BY <2>1, <2>2
  <1>4. CacheEntriesFresh'
    <2> SUFFICES ASSUME NEW i \in DOMAIN cache
                 PROVE  \/ cache[i].sector = Stamp(cache[i].sector_number_key,
                                                   latest'[cache[i].sector_number_key])
                        \/ \E j \in DOMAIN toM4' :
                             IsCacheWrite(toM4', j, cache[i].sector_number_key)
      BY DEF CacheEntriesFresh, Newest, IsCacheWrite
    <2> DEFINE key == cache[i].sector_number_key
    <2>1. CASE key = s
      BY <1>1, <2>1
    <2>2. CASE key # s
      <3>1. CASE Newest(key, cache[i].sector)
        BY <1>2, <2>2, <3>1 DEF Newest
      <3>2. ASSUME NEW j \in DOMAIN toM4, IsCacheWrite(toM4, j, key)
            PROVE  j \in DOMAIN toM4' /\ IsCacheWrite(toM4', j, key)
        BY <1>1, <3>2 DEF IsCacheWrite
      <3> QED
        BY <3>1, <3>2 DEF CacheFresh, CacheEntriesFresh
    <2> QED
      BY <2>1, <2>2
  <1> QED
    BY <1>3, <1>4

\* The M4 finds in its table, when no write is left in its ring, the newest.
LEMMA FreshAnswerOfCache ==
    ASSUME TypeOK, CacheTalk, CacheFresh, M4Read
    PROVE  CacheFresh'
  <1> DEFINE s == Head(toM4).sector_number
  <1>1. /\ toM4[1].type = "DISK_IC_READ" /\ 1 \in DOMAIN toM4
        /\ latest' = latest /\ s \in Sectors
        /\ DOMAIN toM4 = 1 .. Len(toM4) /\ DOMAIN toM4' = 1 .. Len(toM4) - 1
        /\ Len(toM4) \in Nat
    BY M4Takes DEF M4Step, M4Read
  <1> HIDE DEF s
  <1>2. 1 = Len(toM4) /\ toA7 = <<>>
    BY <1>1 DEF CacheTalk
  <1>3. \A i \in DOMAIN toM4, t \in Sectors : ~IsCacheWrite(toM4, i, t)
    <2>1. \A i \in DOMAIN toM4 : i = 1
      BY <1>1, <1>2
    <2> QED
      BY <1>1, <2>1 DEF IsCacheWrite
  <1>4. cache \in Seq(CacheEntry(Sectors, Content))
    BY DEF TypeOK
  <1>5. \A i \in DOMAIN cache : cache[i] \in CacheEntry(Sectors, Content)
    BY <1>4
  <1>6. \A i \in DOMAIN cache : Newest(cache[i].sector_number_key, cache[i].sector)
    <2> SUFFICES ASSUME NEW i \in DOMAIN cache
                 PROVE  Newest(cache[i].sector_number_key, cache[i].sector)
      OBVIOUS
    <2>1. cache[i].sector_number_key \in Sectors
      BY <1>5 DEF CacheEntry
    <2> QED
      BY <1>3, <2>1 DEF CacheFresh, CacheEntriesFresh
  <1>7. cache' = FindInCache(cache, s)
    BY DEF M4Read, s
  <1>8. /\ UniqueKeys(cache')
        /\ \A i \in DOMAIN cache' : \E j \in DOMAIN cache : cache'[i] = cache[j]
    BY <1>4, <1>7, FindInCacheKeepsEntries DEF CacheFresh
  <1>9. CacheEntriesFresh'
    <2> SUFFICES ASSUME NEW i \in DOMAIN cache'
                 PROVE  cache'[i].sector = Stamp(cache'[i].sector_number_key,
                                                 latest'[cache'[i].sector_number_key])
      BY DEF CacheEntriesFresh, Newest
    <2> QED
      BY <1>1, <1>6, <1>8 DEF Newest
  <1>10. CacheWritesFresh'
    <2>1. \A i \in DOMAIN toM4' : FALSE
      <3>1. DOMAIN toM4' = 1 .. Len(toM4) - 1
        BY <1>1
      <3>2. Len(toM4) - 1 = 0
        BY <1>2
      <3>3. DOMAIN toM4' = 1 .. 0
        BY <3>1, <3>2
      <3> QED
        BY <3>3
    <2> QED
      BY <2>1 DEF CacheWritesFresh
  <1>11. CacheAnswersFresh'
    <2>1. CASE InCache(cache, s)
      <3> DEFINE at == IndexOf(cache, s)
                 reply == HitReply(s)
      <3>1. at \in DOMAIN cache /\ cache[at].sector_number_key = s
        BY <2>1, IndexOfFound
      <3>2. reply.sector_number = s /\ reply.sector = Stamp(s, latest[s])
        BY <1>6, <3>1 DEF HitReply, CachedSector, Newest
      <3>3. toA7' = Posted(<<>>, reply)
        BY <1>2, <2>1 DEF M4Read, s
      <3> HIDE DEF reply
      <3>4. \A i \in DOMAIN toA7' : toA7'[i] = reply
        <4>1. CASE toA7' = Append(<<>>, reply)
          BY <4>1
        <4>2. CASE toA7' = <<>>
          BY <4>2
        <4> QED
          BY <3>3, <4>1, <4>2 DEF Posted
      <3> QED
        BY <1>1, <3>2, <3>4 DEF CacheAnswersFresh, Newest
    <2>2. CASE ~InCache(cache, s)
      <3>1. toA7' = Posted(<<>>, MissReply)
        BY <1>2, <2>2 DEF M4Read, s
      <3>2. \A i \in DOMAIN toA7' : toA7'[i] = MissReply
        <4> DEFINE reply == MissReply
        <4> HIDE DEF reply
        <4>0. toA7' = Posted(<<>>, reply)
          BY <3>1 DEF reply
        <4>1. CASE toA7' = Append(<<>>, reply)
          <5>1. \A i \in DOMAIN toA7' : toA7'[i] = reply
            BY <4>1
          <5> QED
            BY <5>1 DEF reply
        <4>2. CASE toA7' = <<>>
          BY <4>2
        <4> QED
          BY <4>0, <4>1, <4>2 DEF Posted
      <3>3. ~MissReply.cached
        BY DEF MissReply
      <3> QED
        BY <3>2, <3>3 DEF CacheAnswersFresh
    <2> QED
      BY <2>1, <2>2
  <1> QED
    BY <1>8, <1>9, <1>10, <1>11 DEF CacheFresh

\* A write the M4 takes is entered under its key, and nowhere else.
LEMMA FreshWriteInCache ==
    ASSUME TypeOK, CacheFresh, M4Write
    PROVE  CacheFresh'
  <1> DEFINE s == Head(toM4).sector_number
             d == Head(toM4).sector
  <1>1. /\ Len(toM4) \in Nat /\ Len(toM4) >= 1
        /\ DOMAIN toM4 = 1 .. Len(toM4)
        /\ DOMAIN toM4' = 1 .. Len(toM4) - 1
        /\ \A i \in 1 .. Len(toM4) - 1 : toM4'[i] = toM4[i + 1]
        /\ toM4[1] = Head(toM4)
        /\ s \in Sectors /\ d \in Content /\ latest' = latest
    BY M4Takes DEF M4Step
  <1>2. cache \in Seq(CacheEntry(Sectors, Content)) /\ UniqueKeys(cache)
    BY DEF TypeOK, CacheFresh
  <1>3. /\ IsCacheWrite(toM4, 1, s) /\ toM4[1].sector = d
        /\ toA7' = toA7 /\ cache' = AddToCache(cache, s, d)
    BY <1>1 DEF M4Write, IsCacheWrite
  <1> HIDE DEF s, d
  <1>4. /\ \A i \in DOMAIN cache' :
             \/ \E j \in DOMAIN cache : cache'[i] = cache[j]
             \/ cache'[i] = [sector_number_key |-> s, sector |-> d]
        /\ UniqueKeys(cache')
        /\ \A i \in DOMAIN cache' :
             cache'[i].sector_number_key = s => cache'[i].sector = d
    BY <1>1, <1>2, <1>3, AddToCacheKeepsEntries
  <1>5. \A j \in DOMAIN toM4, t \in Sectors :
          IsCacheWrite(toM4, j, t) /\ j # 1 =>
            j - 1 \in DOMAIN toM4' /\ IsCacheWrite(toM4', j - 1, t)
    BY <1>1 DEF IsCacheWrite
  <1>6. CacheWritesFresh'
    <2> SUFFICES ASSUME NEW i \in DOMAIN toM4', NEW t \in Sectors,
                        IsCacheWrite(toM4', i, t)
                 PROVE  \/ toM4'[i].sector = Stamp(t, latest'[t])
                        \/ \E j \in DOMAIN toM4' : i < j /\ IsCacheWrite(toM4', j, t)
      BY DEF CacheWritesFresh, Newest, IsCacheWrite
    <2>1. /\ i + 1 \in DOMAIN toM4 /\ toM4'[i] = toM4[i + 1]
          /\ IsCacheWrite(toM4, i + 1, t)
      BY <1>1 DEF IsCacheWrite
    <2>2. CASE Newest(t, toM4[i + 1].sector)
      BY <1>1, <2>1, <2>2 DEF Newest
    <2>3. ASSUME NEW j \in DOMAIN toM4, i + 1 < j, IsCacheWrite(toM4, j, t)
          PROVE  j - 1 \in DOMAIN toM4' /\ i < j - 1 /\ IsCacheWrite(toM4', j - 1, t)
      <3>1. j # 1 /\ i < j - 1
        BY <1>1, <2>3
      <3> QED
        BY <1>5, <2>3, <3>1
    <2> QED
      BY <2>1, <2>2, <2>3 DEF CacheFresh, CacheWritesFresh
  <1>7. CacheEntriesFresh'
    <2> SUFFICES ASSUME NEW i \in DOMAIN cache'
                 PROVE  \/ cache'[i].sector = Stamp(cache'[i].sector_number_key,
                                                    latest'[cache'[i].sector_number_key])
                        \/ \E j \in DOMAIN toM4' :
                             IsCacheWrite(toM4', j, cache'[i].sector_number_key)
      BY DEF CacheEntriesFresh, Newest, IsCacheWrite
    <2>1. CASE cache'[i].sector_number_key = s
      <3>1. cache'[i].sector = d
        BY <1>4, <2>1
      <3>2. CASE Newest(s, toM4[1].sector)
        BY <1>1, <1>3, <2>1, <3>1, <3>2 DEF Newest
      <3>3. ASSUME NEW j \in DOMAIN toM4, 1 < j, IsCacheWrite(toM4, j, s)
            PROVE  j - 1 \in DOMAIN toM4' /\ IsCacheWrite(toM4', j - 1, s)
        <4>1. j # 1
          BY <3>3
        <4> QED
          BY <1>1, <1>5, <3>3, <4>1
      <3>4. \/ Newest(s, toM4[1].sector)
            \/ \E j \in DOMAIN toM4 : 1 < j /\ IsCacheWrite(toM4, j, s)
        <4>1. 1 \in DOMAIN toM4
          BY <1>1
        <4> QED
          BY <1>1, <1>3, <4>1 DEF CacheFresh, CacheWritesFresh
      <3> QED
        BY <2>1, <3>2, <3>3, <3>4
    <2>2. CASE cache'[i].sector_number_key # s
      <3>1. PICK k \in DOMAIN cache : cache'[i] = cache[k]
        BY <1>4, <2>2
      <3>2. cache[k].sector_number_key \in Sectors
        <4>1. cache[k] \in CacheEntry(Sectors, Content)
          BY <1>2
        <4> QED
          BY <4>1 DEF CacheEntry
      <3> DEFINE key == cache[k].sector_number_key
      <3>3. CASE Newest(key, cache[k].sector)
        BY <1>1, <3>1, <3>3 DEF Newest
      <3>4. ASSUME NEW j \in DOMAIN toM4, IsCacheWrite(toM4, j, key)
            PROVE  j - 1 \in DOMAIN toM4' /\ IsCacheWrite(toM4', j - 1, key)
        <4>1. j # 1
          BY <1>3, <2>2, <3>1, <3>4 DEF IsCacheWrite
        <4> QED
          BY <1>5, <3>2, <3>4, <4>1
      <3> QED
        BY <3>1, <3>3, <3>4 DEF CacheFresh, CacheEntriesFresh
    <2> QED
      BY <2>1, <2>2
  <1>8. CacheAnswersFresh'
    BY <1>1, <1>3 DEF CacheFresh, CacheAnswersFresh, Newest
  <1> QED
    BY <1>4, <1>6, <1>7, <1>8 DEF CacheFresh

\* What goes towards the cache, is held there and comes back is fresh.
LEMMA CacheFreshStep ==
    ASSUME Faults = {}, ServedInv, CacheTalk, CacheFresh, AnswerFresh, [Next]_vars
    PROVE  CacheFresh'
  <1> USE DEF cpuVars, sharedVars, mqttVars, serverVars, ghostVars
  <1>0. FaultlessStep /\ TypeOK
    BY NoFaultsStep DEF ServedInv, Inv
  <1>1. ASSUME NEW s \in Sectors, WriteSector(s) PROVE CacheFresh'
    <2>1. CacheWritesFresh' /\ CacheEntriesFresh'
      BY <1>0, <1>1, WrittenSector, FreshWriteToCache
    <2>2. UNCHANGED cache /\ toA7' = <<>>
      BY <1>1, WrittenSector DEF CacheTalk
    <2> QED
      BY <2>1, <2>2 DEF CacheFresh, CacheAnswersFresh
  <1>2. CASE TakeSector
    <2>1. current \in Sectors
      BY <1>0 DEF TypeOK
    <2>2. vdisk_sector.data = Stamp(current, latest'[current])
      BY <1>2, TakenSector DEF AnswerFresh, Newest
    <2>3. CacheWritesFresh' /\ CacheEntriesFresh'
      BY <1>0, <1>2, <2>1, <2>2, TakenSector, FreshWriteToCache
    <2>4. UNCHANGED <<cache, toA7, latest>>
      BY <1>2, TakenSector
    <2> QED
      BY <2>3, <2>4 DEF CacheFresh, CacheAnswersFresh, Newest
  <1>3. ASSUME NEW s \in Sectors, BeginRead(s) PROVE CacheFresh'
    <2>1. toM4' = Append(toM4, CacheRead(s)) /\ UNCHANGED <<toA7, cache, latest>>
      BY <1>3, RingHasRoom DEF BeginRead
    <2>2. /\ Len(toM4) \in Nat /\ DOMAIN toM4 = 1 .. Len(toM4)
          /\ DOMAIN toM4' = 1 .. Len(toM4) + 1
          /\ \A i \in 1 .. Len(toM4) : toM4'[i] = toM4[i]
          /\ toM4'[Len(toM4) + 1].type = "DISK_IC_READ"
      BY <1>0, <2>1, CacheReadPosted
    <2>3. \A j \in DOMAIN toM4, t \in Sectors :
            IsCacheWrite(toM4, j, t) => j \in DOMAIN toM4' /\ IsCacheWrite(toM4', j, t)
      BY <2>2 DEF IsCacheWrite
    <2>4. CacheWritesFresh'
      <3> SUFFICES ASSUME NEW i \in DOMAIN toM4', NEW t \in Sectors,
                          IsCacheWrite(toM4', i, t)
                   PROVE  \/ toM4'[i].sector = Stamp(t, latest'[t])
                          \/ \E j \in DOMAIN toM4' : i < j /\ IsCacheWrite(toM4', j, t)
        BY DEF CacheWritesFresh, Newest, IsCacheWrite
      <3>1. i \in DOMAIN toM4 /\ toM4'[i] = toM4[i] /\ IsCacheWrite(toM4, i, t)
        BY <2>2 DEF IsCacheWrite
      <3> QED
        BY <2>1, <2>3, <3>1 DEF CacheFresh, CacheWritesFresh, Newest
    <2>5. CacheEntriesFresh'
      <3> SUFFICES ASSUME NEW i \in DOMAIN cache
                   PROVE  \/ cache[i].sector = Stamp(cache[i].sector_number_key,
                                                     latest'[cache[i].sector_number_key])
                          \/ \E j \in DOMAIN toM4' :
                               IsCacheWrite(toM4', j, cache[i].sector_number_key)
        BY <2>1 DEF CacheEntriesFresh, Newest, IsCacheWrite
      <3>1. cache[i].sector_number_key \in Sectors
        BY <1>0, CachedEntries
      <3> QED
        BY <2>1, <2>3, <3>1 DEF CacheFresh, CacheEntriesFresh, Newest
    <2> QED
      BY <2>1, <2>4, <2>5 DEF CacheFresh, CacheAnswersFresh, Newest
  <1>4. CASE CacheHit \/ CacheMiss
    <2>1. /\ toA7 # <<>> /\ toA7' = Tail(toA7) /\ UNCHANGED <<toM4, cache, latest>>
          /\ toA7 \in Seq(CacheReply)
      BY <1>0, <1>4 DEF CacheHit, CacheMiss, TypeOK
    <2>2. \A i \in DOMAIN toA7' : i + 1 \in DOMAIN toA7 /\ toA7'[i] = toA7[i + 1]
      BY <2>1, TailFacts
    <2> QED
      BY <2>1, <2>2 DEF CacheFresh, CacheWritesFresh, CacheEntriesFresh,
         CacheAnswersFresh, Newest, IsCacheWrite
  <1>5. ASSUME UNCHANGED <<toM4, toA7, cache, latest>> PROVE CacheFresh'
    BY <1>5 DEF CacheFresh, CacheWritesFresh, CacheEntriesFresh,
       CacheAnswersFresh, Newest, IsCacheWrite
  <1> QED
    BY <1>0, <1>1, <1>2, <1>3, <1>4, <1>5, CacheSideUntouched, FreshAnswerOfCache,
       FreshWriteInCache DEF M4Step

-----------------------------------------------------------------------------
\* What the CPU publishes.
LEMMA DiskWritePublished ==
    ASSUME TypeOK, NEW s \in Sectors, NEW d \in Content,
           toServer' = Append(toServer, DiskWrite(s, d))
    PROVE  /\ Len(toServer) \in Nat
           /\ DOMAIN toServer = 1 .. Len(toServer)
           /\ DOMAIN toServer' = 1 .. Len(toServer) + 1
           /\ Len(toServer') = Len(toServer) + 1
           /\ \A i \in 1 .. Len(toServer) : toServer'[i] = toServer[i]
           /\ toServer'[Len(toServer) + 1].topic = "write"
           /\ toServer'[Len(toServer) + 1].offset = s
           /\ toServer'[Len(toServer) + 1].data = d
  <1> DEFINE m == DiskWrite(s, d)
  <1>1. m \in DiskRequest /\ m.topic = "write" /\ m.offset = s /\ m.data = d
    BY MessageTypes DEF DiskWrite
  <1>2. toServer \in Seq(DiskRequest) /\ toServer' = Append(toServer, m)
    BY DEF TypeOK
  <1> HIDE DEF m
  <1> QED
    BY <1>1, <1>2, AppendFacts

LEMMA DiskReadPublished ==
    ASSUME ServedInv, RequestSector
    PROVE  /\ Len(toServer) \in Nat
           /\ DOMAIN toServer = 1 .. Len(toServer)
           /\ DOMAIN toServer' = 1 .. Len(toServer) + 1
           /\ Len(toServer') = Len(toServer) + 1
           /\ \A i \in 1 .. Len(toServer) : toServer'[i] = toServer[i]
           /\ toServer'[Len(toServer) + 1].topic = "read"
           /\ UNCHANGED <<store, latest, toDevice, mqttPc, inbound, current, vdisk_sector>>
           /\ cpuPc = "request" /\ ~AnswerInFlight
  <1> DEFINE m == DiskRead(current)
  <1>0. TypeOK /\ Served /\ mqtt_connected
    BY DEF ServedInv, Inv, Faultless
  <1>1. m \in DiskRequest /\ m.topic = "read"
    BY <1>0, ContentTypes, MessageTypes DEF DiskRead, TypeOK
  <1>2. toServer \in Seq(DiskRequest) /\ toServer' = Append(toServer, m)
    BY <1>0 DEF TypeOK, RequestSector, Published
  <1>3. /\ UNCHANGED <<store, latest, toDevice, mqttPc, inbound, current, vdisk_sector>>
        /\ cpuPc = "request"
    BY DEF RequestSector, mqttVars, ghostVars
  <1>4. ~AnswerInFlight
    BY <1>0, <1>3 DEF Served
  <1> HIDE DEF m
  <1> QED
    BY <1>1, <1>2, <1>3, <1>4, AppendFacts

\* What the server takes.
LEMMA ServerTakes ==
    ASSUME TypeOK, ServerStep
    PROVE  /\ Len(toServer) \in Nat /\ Len(toServer) >= 1
           /\ DOMAIN toServer = 1 .. Len(toServer)
           /\ Len(toServer') = Len(toServer) - 1
           /\ DOMAIN toServer' = 1 .. Len(toServer) - 1
           /\ \A i \in 1 .. Len(toServer) - 1 : toServer'[i] = toServer[i + 1]
           /\ Head(toServer) = toServer[1] /\ Head(toServer) \in DiskRequest
           /\ Head(toServer).offset \in Sectors /\ Head(toServer).data \in Content
           /\ UNCHANGED <<latest, mqttPc, inbound, cpuPc, current, vdisk_sector>>
  <1>1. /\ toServer # <<>> /\ toServer' = Tail(toServer) /\ toServer \in Seq(DiskRequest)
        /\ UNCHANGED <<latest, mqttPc, inbound, cpuPc, current, vdisk_sector>>
    BY DEF ServerStep, ServerRead, ServerWrite, TypeOK, cpuVars, sharedVars, mqttVars,
           ghostVars
  <1>2. Head(toServer) \in DiskRequest
    BY <1>1, TailFacts
  <1>3. Head(toServer).offset \in Sectors /\ Head(toServer).data \in Content
    BY <1>2 DEF DiskRequest
  <1> QED
    BY <1>1, <1>2, <1>3, TailFacts

\* The steps that leave the server's side alone.
LEMMA ServerSideUntouched ==
    ASSUME FaultlessStep, ~ServerStep, ~RequestSector,
           \A s \in Sectors : ~WriteSector(s)
    PROVE  UNCHANGED <<toServer, store, latest>>
  <1> USE DEF cpuVars, sharedVars, mqttVars, m4Vars, serverVars, ghostVars
  <1>1. CASE \E s \in Sectors : BeginRead(s)
    BY <1>1 DEF BeginRead
  <1>2. CASE CacheHit \/ CacheMiss \/ WaitForSector \/ EndWait
    BY <1>2 DEF CacheHit, CacheMiss, WaitForSector, EndWait
  <1>3. CASE ReadFailed \/ SectorArrived \/ TakeSector \/ UNCHANGED vars
    BY <1>3 DEF ReadFailed, SectorArrived, TakeSector, vars
  <1>4. CASE MqttStep \/ M4Step
    BY <1>4 DEF MqttStep, Receive, ForgetRequest, TakeLock, CopyIn, Signal,
          M4Step, M4Read, M4Write
  <1> QED
    BY <1>1, <1>2, <1>3, <1>4 DEF FaultlessStep

\* A write published leaves the server's side fresh.
LEMMA FreshWriteToServer ==
    ASSUME Faults = {}, ServedInv, ServerFresh, NEW s \in Sectors, WriteSector(s)
    PROVE  ServerFresh'
  <1> DEFINE d == Stamp(s, latest[s] + 1)
  <1>0. TypeOK
    BY DEF ServedInv, Inv
  <1>1. /\ d \in Content /\ toServer' = Append(toServer, DiskWrite(s, d))
        /\ d = Stamp(s, latest'[s]) /\ UNCHANGED store
        /\ \A t \in Sectors : t # s => latest'[t] = latest[t]
        /\ ~AnswerInFlight
    BY WrittenSector
  <1> HIDE DEF d
  <1>2. /\ Len(toServer) \in Nat
        /\ DOMAIN toServer = 1 .. Len(toServer)
        /\ DOMAIN toServer' = 1 .. Len(toServer) + 1
        /\ \A i \in 1 .. Len(toServer) : toServer'[i] = toServer[i]
        /\ toServer'[Len(toServer) + 1].topic = "write"
        /\ toServer'[Len(toServer) + 1].offset = s
        /\ toServer'[Len(toServer) + 1].data = d
    BY <1>0, <1>1, DiskWritePublished
  <1>3. IsDiskWrite(toServer', Len(toServer) + 1, s)
    BY <1>2 DEF IsDiskWrite
  <1>4. \A j \in DOMAIN toServer, t \in Sectors : IsDiskWrite(toServer, j, t) =>
          j \in DOMAIN toServer' /\ IsDiskWrite(toServer', j, t)
    BY <1>2 DEF IsDiskWrite
  <1>5. ReadIsLast'
    <2> SUFFICES ASSUME NEW i \in DOMAIN toServer', IsRead(toServer', i)
                 PROVE  FALSE
      BY DEF ReadIsLast, IsRead
    <2>1. i \in DOMAIN toServer /\ IsRead(toServer, i)
      BY <1>2 DEF IsRead
    <2> QED
      BY <1>1, <2>1 DEF AnswerInFlight, IsRead
  <1>6. ServerWritesFresh'
    <2> SUFFICES ASSUME NEW i \in DOMAIN toServer', NEW t \in Sectors,
                        IsDiskWrite(toServer', i, t)
                 PROVE  \/ toServer'[i].data = Stamp(t, latest'[t])
                        \/ \E j \in DOMAIN toServer' : i < j /\ IsDiskWrite(toServer', j, t)
      BY DEF ServerWritesFresh, Newest, IsDiskWrite
    <2>1. CASE t = s
      BY <1>1, <1>2, <1>3, <2>1
    <2>2. CASE t # s
      <3>1. i \in DOMAIN toServer /\ toServer'[i] = toServer[i] /\ IsDiskWrite(toServer, i, t)
        BY <1>2, <2>2 DEF IsDiskWrite
      <3> QED
        BY <1>1, <1>4, <2>2, <3>1 DEF ServerFresh, ServerWritesFresh, Newest
    <2> QED
      BY <2>1, <2>2
  <1>7. StoreFresh'
    <2> SUFFICES ASSUME NEW t \in Sectors
                 PROVE  \/ store[t] = Stamp(t, latest'[t])
                        \/ \E j \in DOMAIN toServer' : IsDiskWrite(toServer', j, t)
      BY <1>1 DEF StoreFresh, Newest, IsDiskWrite
    <2>1. CASE t = s
      BY <1>2, <1>3, <2>1
    <2>2. CASE t # s
      BY <1>1, <1>4, <2>2 DEF ServerFresh, StoreFresh, Newest
    <2> QED
      BY <2>1, <2>2
  <1> QED
    BY <1>5, <1>6, <1>7 DEF ServerFresh

LEMMA FreshReadOfServer ==
    ASSUME ServedInv, ServerFresh, RequestSector
    PROVE  ServerFresh'
  <1>1. /\ Len(toServer) \in Nat
        /\ DOMAIN toServer = 1 .. Len(toServer)
        /\ DOMAIN toServer' = 1 .. Len(toServer) + 1
        /\ Len(toServer') = Len(toServer) + 1
        /\ \A i \in 1 .. Len(toServer) : toServer'[i] = toServer[i]
        /\ toServer'[Len(toServer) + 1].topic = "read"
        /\ UNCHANGED <<store, latest>>
        /\ ~AnswerInFlight
    BY DiskReadPublished
  <1>2. \A j \in DOMAIN toServer, t \in Sectors : IsDiskWrite(toServer, j, t) =>
          j \in DOMAIN toServer' /\ IsDiskWrite(toServer', j, t)
    BY <1>1 DEF IsDiskWrite
  <1>3. ReadIsLast'
    <2> SUFFICES ASSUME NEW i \in DOMAIN toServer', IsRead(toServer', i),
                        i # Len(toServer) + 1
                 PROVE  FALSE
      BY <1>1 DEF ReadIsLast, IsRead
    <2>1. i \in DOMAIN toServer /\ IsRead(toServer, i)
      BY <1>1 DEF IsRead
    <2> QED
      BY <1>1, <2>1 DEF AnswerInFlight, IsRead
  <1>4. ServerWritesFresh'
    <2> SUFFICES ASSUME NEW i \in DOMAIN toServer', NEW t \in Sectors,
                        IsDiskWrite(toServer', i, t)
                 PROVE  \/ toServer'[i].data = Stamp(t, latest'[t])
                        \/ \E j \in DOMAIN toServer' : i < j /\ IsDiskWrite(toServer', j, t)
      BY DEF ServerWritesFresh, Newest, IsDiskWrite
    <2>1. i \in DOMAIN toServer /\ toServer'[i] = toServer[i] /\ IsDiskWrite(toServer, i, t)
      BY <1>1 DEF IsDiskWrite
    <2> QED
      BY <1>1, <1>2, <2>1 DEF ServerFresh, ServerWritesFresh, Newest
  <1>5. StoreFresh'
    <2> SUFFICES ASSUME NEW t \in Sectors
                 PROVE  \/ store[t] = Stamp(t, latest'[t])
                        \/ \E j \in DOMAIN toServer' : IsDiskWrite(toServer', j, t)
      BY <1>1 DEF StoreFresh, Newest, IsDiskWrite
    <2> QED
      BY <1>1, <1>2 DEF ServerFresh, StoreFresh, Newest
  <1> QED
    BY <1>3, <1>4, <1>5 DEF ServerFresh

\* The server applies its requests in order.
LEMMA FreshServer ==
    ASSUME TypeOK, ServerFresh, ServerStep
    PROVE  ServerFresh'
  <1> DEFINE s == Head(toServer).offset
             d == Head(toServer).data
  <1>1. /\ Len(toServer) \in Nat /\ Len(toServer) >= 1
        /\ DOMAIN toServer = 1 .. Len(toServer)
        /\ Len(toServer') = Len(toServer) - 1
        /\ DOMAIN toServer' = 1 .. Len(toServer) - 1
        /\ \A i \in 1 .. Len(toServer) - 1 : toServer'[i] = toServer[i + 1]
        /\ Head(toServer) = toServer[1] /\ s \in Sectors /\ d \in Content
        /\ latest' = latest
    BY ServerTakes
  <1>2. \/ ~IsDiskWrite(toServer, 1, s) /\ store' = store
        \/ IsDiskWrite(toServer, 1, s) /\ store' = [store EXCEPT ![s] = d]
    BY <1>1 DEF ServerStep, ServerRead, ServerWrite, IsDiskWrite
  <1>3. toServer[1].offset = s /\ toServer[1].data = d
    BY <1>1
  <1> HIDE DEF s, d
  <1>4. \A j \in DOMAIN toServer, t \in Sectors :
          IsDiskWrite(toServer, j, t) /\ j # 1 =>
            j - 1 \in DOMAIN toServer' /\ IsDiskWrite(toServer', j - 1, t)
    BY <1>1 DEF IsDiskWrite
  <1>5. ReadIsLast'
    <2> SUFFICES ASSUME NEW i \in DOMAIN toServer', IsRead(toServer', i)
                 PROVE  i = Len(toServer')
      BY DEF ReadIsLast, IsRead
    <2>1. i + 1 \in DOMAIN toServer /\ IsRead(toServer, i + 1)
      BY <1>1 DEF IsRead
    <2>2. i + 1 = Len(toServer)
      BY <2>1 DEF ServerFresh, ReadIsLast
    <2> QED
      BY <1>1, <2>2
  <1>6. ServerWritesFresh'
    <2> SUFFICES ASSUME NEW i \in DOMAIN toServer', NEW t \in Sectors,
                        IsDiskWrite(toServer', i, t)
                 PROVE  \/ toServer'[i].data = Stamp(t, latest'[t])
                        \/ \E j \in DOMAIN toServer' : i < j /\ IsDiskWrite(toServer', j, t)
      BY DEF ServerWritesFresh, Newest, IsDiskWrite
    <2>1. /\ i + 1 \in DOMAIN toServer /\ toServer'[i] = toServer[i + 1]
          /\ IsDiskWrite(toServer, i + 1, t)
      BY <1>1 DEF IsDiskWrite
    <2>2. CASE Newest(t, toServer[i + 1].data)
      BY <1>1, <2>1, <2>2 DEF Newest
    <2>3. ASSUME NEW j \in DOMAIN toServer, i + 1 < j, IsDiskWrite(toServer, j, t)
          PROVE  j - 1 \in DOMAIN toServer' /\ i < j - 1 /\ IsDiskWrite(toServer', j - 1, t)
      <3>1. j # 1 /\ i < j - 1
        BY <1>1, <2>3
      <3> QED
        BY <1>4, <2>3, <3>1
    <2> QED
      BY <2>1, <2>2, <2>3 DEF ServerFresh, ServerWritesFresh
  <1>7. StoreFresh'
    <2> SUFFICES ASSUME NEW t \in Sectors
                 PROVE  \/ store'[t] = Stamp(t, latest'[t])
                        \/ \E j \in DOMAIN toServer' : IsDiskWrite(toServer', j, t)
      BY DEF StoreFresh, Newest, IsDiskWrite
    <2>0. store \in [Sectors -> Content] /\ 1 \in DOMAIN toServer
      BY <1>1 DEF TypeOK
    <2>1. CASE IsDiskWrite(toServer, 1, t)
      <3>1. t = s /\ store'[t] = d
        BY <1>2, <1>3, <2>0, <2>1 DEF IsDiskWrite
      <3>2. \/ Newest(t, toServer[1].data)
            \/ \E j \in DOMAIN toServer : 1 < j /\ IsDiskWrite(toServer, j, t)
        BY <2>0, <2>1 DEF ServerFresh, ServerWritesFresh
      <3>3. CASE Newest(t, toServer[1].data)
        BY <1>1, <1>3, <3>1, <3>3 DEF Newest
      <3>4. ASSUME NEW j \in DOMAIN toServer, 1 < j, IsDiskWrite(toServer, j, t)
            PROVE  j - 1 \in DOMAIN toServer' /\ IsDiskWrite(toServer', j - 1, t)
        <4>1. j # 1
          BY <3>4
        <4> QED
          BY <1>4, <3>4, <4>1
      <3> QED
        BY <3>2, <3>3, <3>4
    <2>2. CASE ~IsDiskWrite(toServer, 1, t)
      <3>1. store'[t] = store[t]
        BY <1>2, <2>0, <2>2
      <3>2. ASSUME NEW j \in DOMAIN toServer, IsDiskWrite(toServer, j, t)
            PROVE  j - 1 \in DOMAIN toServer' /\ IsDiskWrite(toServer', j - 1, t)
        BY <1>4, <2>2, <3>2
      <3>3. CASE Newest(t, store[t])
        BY <1>1, <3>1, <3>3 DEF Newest
      <3> QED
        BY <3>2, <3>3 DEF ServerFresh, StoreFresh
    <2> QED
      BY <2>1, <2>2
  <1> QED
    BY <1>5, <1>6, <1>7 DEF ServerFresh

\* What goes towards the server and is held there is fresh.
LEMMA ServerFreshStep ==
    ASSUME Faults = {}, ServedInv, ServerFresh, [Next]_vars
    PROVE  ServerFresh'
  <1>0. FaultlessStep /\ TypeOK
    BY NoFaultsStep DEF ServedInv, Inv
  <1>1. ASSUME UNCHANGED <<toServer, store, latest>> PROVE ServerFresh'
    BY <1>1 DEF ServerFresh, ReadIsLast, ServerWritesFresh, StoreFresh, Newest,
       IsDiskWrite, IsRead
  <1> QED
    BY <1>0, <1>1, ServerSideUntouched, FreshWriteToServer, FreshReadOfServer, FreshServer

-----------------------------------------------------------------------------
\* The sector on its way to the CPU is the newest.
LEMMA AnswerFreshStep ==
    ASSUME Faults = {}, ServedInv, ServerFresh, AnswerFresh, [Next]_vars
    PROVE  AnswerFresh'
  <1> USE DEF cpuVars, sharedVars, mqttVars, m4Vars, serverVars, ghostVars
  <1>0. /\ FaultlessStep /\ TypeOK /\ Served /\ Handshake
        /\ toServer \in Seq(DiskRequest) /\ toDevice \in Seq(SectorMessage)
    BY NoFaultsStep DEF ServedInv, Inv, Faultless, ReadInv, TypeOK
  <1>1. ASSUME NEW s \in Sectors, WriteSector(s) PROVE AnswerFresh'
    <2>1. UNCHANGED <<toDevice, mqttPc, cpuPc>> /\ cpuPc = "idle" /\ ~AnswerInFlight
      BY <1>1, WrittenSector
    <2> QED
      BY <2>1 DEF AnswerInFlight, AnswerFresh
  <1>2. ASSUME NEW s \in Sectors, BeginRead(s) PROVE AnswerFresh'
    <2>1. ~AnswerInFlight
      BY <1>0, <1>2 DEF BeginRead, Served
    <2>2. UNCHANGED <<toDevice, mqttPc>>
      BY <1>2, FlightUnchanged
    <2>3. ~vdisk_sector'.dirty
      BY <1>0, <1>2 DEF BeginRead, TypeOK
    <2> QED
      BY <2>1, <2>2, <2>3 DEF AnswerInFlight, AnswerFresh
  <1>3. ASSUME UNCHANGED <<latest, toDevice, mqttPc, inbound, current, vdisk_sector>>,
               cpuPc' # "idle" => cpuPc # "idle"
        PROVE  AnswerFresh'
    BY <1>3 DEF AnswerFresh, Newest
  <1>4. ASSUME UNCHANGED latest, RequestSector PROVE AnswerFresh'
    BY <1>3, <1>4, DiskReadPublished
  <1>5. ASSUME UNCHANGED latest, CpuContinues, ~RequestSector PROVE AnswerFresh'
    <2>1. UNCHANGED <<toDevice, mqttPc, inbound>>
      BY <1>5, FlightUnchanged
    <2>2. UNCHANGED <<current, vdisk_sector>> /\ (cpuPc' # "idle" => cpuPc # "idle")
      BY <1>5, CpuPath
    <2> QED
      BY <1>3, <1>5, <2>1, <2>2
  <1>6. ASSUME UNCHANGED latest, Receive PROVE AnswerFresh'
    <2>1. /\ toDevice # <<>> /\ inbound' = Head(toDevice) /\ toDevice' = Tail(toDevice)
          /\ UNCHANGED <<cpuPc, current, vdisk_sector>>
      BY <1>6 DEF Receive
    <2>2. /\ 1 \in DOMAIN toDevice /\ inbound' = toDevice[1]
          /\ \A i \in DOMAIN toDevice' :
               i + 1 \in DOMAIN toDevice /\ toDevice'[i] = toDevice[i + 1]
      BY <1>0, <2>1, TailFacts
    <2> QED
      BY <1>6, <2>1, <2>2 DEF AnswerFresh, Newest
  <1>7. ASSUME UNCHANGED latest, ForgetRequest \/ TakeLock \/ Signal PROVE AnswerFresh'
    <2>1. /\ UNCHANGED <<toDevice, inbound, cpuPc, current, vdisk_sector>>
          /\ mqttPc # "idle"
      BY <1>7 DEF ForgetRequest, TakeLock, Signal
    <2> QED
      BY <1>7, <2>1 DEF AnswerFresh, Newest
  <1>8. ASSUME UNCHANGED latest, CopyIn PROVE AnswerFresh'
    <2>1. /\ mqttPc # "idle" /\ vdisk_sector'.data = inbound.data
          /\ UNCHANGED <<toDevice, inbound, cpuPc, current>>
      BY <1>8 DEF CopyIn
    <2>2. AnswersCurrent
      BY <1>0, <2>1 DEF Served, AnswerInFlight, Handshake
    <2>3. inbound.offset = current
      BY <2>1, <2>2 DEF AnswersCurrent
    <2> QED
      BY <1>8, <2>1, <2>3 DEF AnswerFresh, Newest
  <1>9. ASSUME UNCHANGED latest, M4Step \/ UNCHANGED vars PROVE AnswerFresh'
    <2>1. UNCHANGED <<toDevice, mqttPc, inbound, current, vdisk_sector, cpuPc>>
      BY <1>9, FlightUnchanged, OtherActorsStep
    <2> QED
      BY <1>3, <1>9, <2>1
  <1>10. CASE ServerRead
    <2> DEFINE s == Head(toServer).offset
               answer == [offset |-> s, data |-> store[s]]
    <2>1. /\ DOMAIN toServer = 1 .. Len(toServer) /\ Len(toServer) \in Nat
          /\ Len(toServer) >= 1 /\ Head(toServer) = toServer[1] /\ s \in Sectors
          /\ UNCHANGED <<latest, mqttPc, inbound, cpuPc, current, vdisk_sector>>
      BY <1>0, <1>10, ServerTakes DEF ServerStep
    <2>2. IsRead(toServer, 1) /\ 1 \in DOMAIN toServer
      BY <1>10, <2>1 DEF ServerRead, IsRead
    <2>3. 1 = Len(toServer)
      BY <2>2 DEF ServerFresh, ReadIsLast
    <2>4. \A j \in DOMAIN toServer : ~IsDiskWrite(toServer, j, s)
      <3>1. \A j \in DOMAIN toServer : j = 1
        <4>1. DOMAIN toServer = 1 .. Len(toServer)
          BY <2>1
        <4>2. DOMAIN toServer = 1 .. 1
          BY <2>3, <4>1
        <4> QED
          BY <4>2
      <3> QED
        BY <2>2, <3>1 DEF IsRead, IsDiskWrite
    <2>5. Newest(s, store[s])
      BY <2>1, <2>4 DEF ServerFresh, StoreFresh
    <2>6. answer \in SectorMessage /\ toDevice' = Append(toDevice, answer)
      BY <1>0, <1>10, <2>1 DEF ServerRead, SectorMessage, TypeOK
    <2>7. answer.data = Stamp(answer.offset, latest[answer.offset])
      BY <2>5 DEF Newest
    <2> HIDE DEF answer, s
    <2>8. \A i \in DOMAIN toDevice' :
            (i \in DOMAIN toDevice /\ toDevice'[i] = toDevice[i]) \/ toDevice'[i] = answer
      BY <1>0, <2>6, AppendFacts
    <2> QED
      BY <2>1, <2>7, <2>8 DEF AnswerFresh, Newest
  <1>11. CASE ServerWrite
    <2>1. UNCHANGED <<latest, mqttPc, inbound, cpuPc, current, vdisk_sector>>
      BY <1>0, <1>11, ServerTakes DEF ServerStep
    <2>2. UNCHANGED toDevice
      BY <1>11 DEF ServerWrite
    <2> QED
      BY <1>3, <2>1, <2>2
  <1>12. CASE ~(\E s \in Sectors : WriteSector(s) \/ BeginRead(s))
    <2>1. UNCHANGED latest
      BY <1>0, <1>12, LatestKept
    <2>2. ~Network
      BY DEF Network, LoseRequest, LoseSector, ConnectionChange
    <2> QED
      BY <1>4, <1>5, <1>6, <1>7, <1>8, <1>9, <1>10, <1>11, <1>12, <2>1, <2>2
         DEF Next, MqttStep, ServerStep
  <1> QED
    BY <1>1, <1>2, <1>12

LEMMA FreshInvInit == Init => FreshInv
  <1> SUFFICES ASSUME Init PROVE FreshInv
    OBVIOUS
  <1>1. ServedInv
    BY ServedInvInit
  <1>2. /\ cpuPc = "idle" /\ mqttPc = "idle" /\ toM4 = <<>> /\ toA7 = <<>>
        /\ cache = <<>> /\ toServer = <<>> /\ toDevice = <<>>
    BY DEF Init
  <1>3. CacheTalk
    BY <1>2 DEF CacheTalk
  <1>4. CacheFresh
    BY <1>2 DEF CacheFresh, UniqueKeys, CacheWritesFresh, CacheEntriesFresh,
       CacheAnswersFresh
  <1>5. ServerFresh
    <2>1. StoreFresh
      BY DEF Init, StoreFresh, Newest
    <2> QED
      BY <1>2, <2>1 DEF ServerFresh, ReadIsLast, ServerWritesFresh
  <1>6. AnswerFresh
    BY <1>2 DEF AnswerFresh
  <1> QED
    BY <1>1, <1>3, <1>4, <1>5, <1>6 DEF FreshInv

LEMMA FreshInvStep ==
    ASSUME Faults = {}, FreshInv, [Next]_vars
    PROVE  FreshInv'
  <1>1. ServedInv /\ CacheTalk /\ CacheFresh /\ ServerFresh /\ AnswerFresh
    BY DEF FreshInv
  <1>2. ServedInv'
    BY <1>1, ServedInvStep
  <1>3. CacheTalk'
    BY <1>1, CacheTalkStep
  <1>4. CacheFresh'
    BY <1>1, CacheFreshStep
  <1>5. ServerFresh'
    BY <1>1, ServerFreshStep
  <1>6. AnswerFresh'
    BY <1>1, AnswerFreshStep
  <1> QED
    BY <1>2, <1>3, <1>4, <1>5, <1>6 DEF FreshInv

-----------------------------------------------------------------------------
\* The refinement, step by step.  A write is a write of the store, a request begins a read.
LEMMA WriteRefines ==
    ASSUME Faults = {}, FreshInv, NEW s \in Sectors, WriteSector(s)
    PROVE  Store!StoreWrite(s)
  <1>1. cpuPc = "idle" /\ cpuPc' = "idle"
    BY DEF WriteSector
  <1>2. latest' = [latest EXCEPT ![s] = @ + 1]
    BY DEF WriteSector
  <1>3. sectorData' = [of |-> s, version |-> latest[s] + 1]
    BY DEF WriteSector, Stamp
  <1> QED
    BY <1>1, <1>2, <1>3 DEF Store!StoreWrite

LEMMA BeginReadRefines ==
    ASSUME FreshInv, NEW s \in Sectors, BeginRead(s)
    PROVE  Store!StoreBeginRead(s)
  <1>1. /\ cpuPc = "idle" /\ cpuPc' # "idle" /\ current' = s
        /\ UNCHANGED <<latest, sectorData>>
    BY DEF BeginRead
  <1> QED
    BY <1>1 DEF Store!StoreBeginRead

\* A read ends with the newest content in the buffer, whether the cache or the
\* server had it.
LEMMA EndReadRefines ==
    ASSUME FreshInv, CacheHit \/ TakeSector
    PROVE  Store!StoreEndRead
  <1>0. TypeOK /\ ServedInv
    BY DEF FreshInv, ServedInv, Inv
  <1>1. current \in Sectors /\ current # UINT32_MAX
    BY <1>0, DiskAssumption DEF TypeOK
  <1>2. sectorData' = Stamp(current, latest[current]) /\ UNCHANGED latest
        /\ cpuPc # "idle" /\ cpuPc' = "idle"
    <2>1. CASE CacheHit
      <3>1. /\ toA7 # <<>> /\ sectorData' = Head(toA7).sector
            /\ Head(toA7).cached /\ Head(toA7).sector_number = current
            /\ UNCHANGED latest /\ cpuPc = "cacheWait" /\ cpuPc' = "idle"
        BY <2>1 DEF CacheHit, IsHit, ghostVars
      <3>2. toA7 \in Seq(CacheReply)
        BY <1>0 DEF TypeOK
      <3>3. 1 \in DOMAIN toA7 /\ Head(toA7) = toA7[1]
        BY <3>1, <3>2, TailFacts
      <3>4. Newest(current, toA7[1].sector)
        BY <3>1, <3>3 DEF FreshInv, CacheFresh, CacheAnswersFresh
      <3> QED
        BY <3>1, <3>3, <3>4 DEF Newest
    <2>2. CASE TakeSector
      <3>1. /\ vdisk_sector.dirty /\ sectorData' = vdisk_sector.data
            /\ UNCHANGED latest /\ cpuPc # "idle" /\ cpuPc' = "idle"
        BY <1>0, <2>2, TakenSector
      <3>2. Newest(current, vdisk_sector.data)
        BY <3>1 DEF FreshInv, AnswerFresh
      <3> QED
        BY <3>1, <3>2 DEF Newest
    <2> QED
      BY <2>1, <2>2
  <1> QED
    BY <1>1, <1>2 DEF Store!StoreEndRead, Store!Stored, Stamp

\* Everything else happens out of the store's sight.
LEMMA OtherStepsStutter ==
    ASSUME Faults = {}, FreshInv, FaultlessStep, ~CacheHit, ~TakeSector,
           \A s \in Sectors : ~WriteSector(s) /\ ~BeginRead(s)
    PROVE  UNCHANGED Store!storeVars
  <1> USE DEF cpuVars, sharedVars, mqttVars, m4Vars, serverVars, ghostVars
  <1>1. CASE CacheMiss \/ RequestSector \/ WaitForSector \/ EndWait \/ SectorArrived
    <2>1. /\ cpuPc # "idle" /\ cpuPc' # "idle"
          /\ UNCHANGED <<current, sectorData, latest>>
      BY <1>1 DEF CacheMiss, RequestSector, WaitForSector, EndWait, SectorArrived
    <2> QED
      BY <2>1 DEF Store!storeVars
  <1>2. CASE ReadFailed
    BY <1>2 DEF ReadFailed, FreshInv, ServedInv, Served
  <1>3. CASE MqttStep \/ M4Step \/ ServerStep \/ UNCHANGED vars
    <2>1. UNCHANGED <<cpuPc, current, sectorData, latest>>
      BY <1>3 DEF MqttStep, Receive, ForgetRequest, TakeLock, CopyIn, Signal,
            M4Step, M4Read, M4Write, ServerStep, ServerRead, ServerWrite, vars
    <2> QED
      BY <2>1 DEF Store!storeVars
  <1> QED
    BY <1>1, <1>2, <1>3 DEF FaultlessStep

\* Without faults the virtual disk, with its cache, its server, two mailboxes
\* and two threads, is the store of SectorStore: a read returns what was last
\* written.
THEOREM VirtualDiskIsAStore ==
    ASSUME Faults = {}
    PROVE  Spec => ReadsReturnLastWrite
  <1>1. Init => Store!StoreInit
    BY DEF Init, Store!StoreInit
  <1>2. FreshInv /\ [Next]_vars => [Store!StoreNext]_(Store!storeVars)
    <2> SUFFICES ASSUME FreshInv, [Next]_vars
                 PROVE  [Store!StoreNext]_(Store!storeVars)
      OBVIOUS
    <2>1. FaultlessStep
      BY NoFaultsStep
    <2>2. ASSUME NEW s \in Sectors, WriteSector(s) PROVE Store!StoreNext
      BY <2>2, WriteRefines DEF Store!StoreNext
    <2>3. ASSUME NEW s \in Sectors, BeginRead(s) PROVE Store!StoreNext
      BY <2>3, BeginReadRefines DEF Store!StoreNext
    <2>4. CASE CacheHit \/ TakeSector
      BY <2>4, EndReadRefines DEF Store!StoreNext
    <2> QED
      BY <2>1, <2>2, <2>3, <2>4, OtherStepsStutter
  <1>3. FreshInv /\ [Next]_vars => FreshInv'
    BY FreshInvStep
  <1> QED
    BY <1>1, <1>2, <1>3, FreshInvInit, PTL DEF Spec, ReadsReturnLastWrite, Store!StoreSpec
=============================================================================
