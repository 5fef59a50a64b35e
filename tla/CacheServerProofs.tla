------------------------- MODULE CacheServerProofs -------------------------
(***************************************************************************)
(* The cache server keeps its table typed, within its limit, free of       *)
(* duplicates, coherent with the writes it has received and ordered by     *)
(* use, and is told of every message until its counter can have wrapped;   *)
(* for every number of sectors, table size, ring size and width of the     *)
(* counter.                                                                *)
(***************************************************************************)
EXTENDS CacheServer, DiskCacheProofs

\* The A7's messages and the interrupt do not touch the table.
LEMMA A7PublishType ==
    ASSUME TypeOK, NEW m \in Message, A7Publish(m)
    PROVE  TypeOK'
  BY AppendFacts DEF TypeOK, A7Publish, ghosts

LEMMA InterruptType ==
    ASSUME TypeOK, Interrupt
    PROVE  TypeOK'
  <1>1. SEMA_VALUES \in Nat /\ SEMA_VALUES > 0 /\ blockDeqSema + 1 \in Nat
    BY CacheServerAssumption DEF TypeOK
  <1>2. (blockDeqSema + 1) % SEMA_VALUES \in 0 .. SEMA_VALUES - 1
    BY <1>1
  <1>3. UNCHANGED <<cache, mailbox, reply, sent, written, touched, clock>>
    BY DEF Interrupt, ghosts
  <1> QED
    BY <1>2, <1>3 DEF TypeOK, Interrupt

GhostsTyped ==
    /\ written \in [Keys -> Versions \cup {"never"}]
    /\ touched \in [Keys -> Nat]
    /\ clock \in Nat

\* Handling a message keeps the server's state typed.
LEMMA ServeReadType ==
    ASSUME TypeOK, mailbox # <<>>, ServeRead(Head(mailbox))
    PROVE  /\ cache' \in Seq(CacheEntry(Keys, Versions))
           /\ reply' \in Reply
           /\ GhostsTyped'
  <1> DEFINE key == Head(mailbox).sector_number
  <1>1. Head(mailbox) \in Message /\ Head(mailbox).disk_ic_msg_type = "DISK_IC_READ"
    BY TailFacts DEF TypeOK, ServeRead
  <1>2. key \in Keys
    BY <1>1 DEF Message
  <1>3. cache' = FindInCache(cache, key) /\ reply' = ReadReply(key)
    BY DEF ServeRead
  <1>4. cache \in Seq(CacheEntry(Keys, Versions))
    BY DEF TypeOK
  <1> HIDE DEF key
  <1>5. cache' \in Seq(CacheEntry(Keys, Versions))
    BY <1>3, <1>4, FindInCacheKeepsEntries
  <1>6. reply' \in Reply
    <2>1. CASE InCache(cache, key)
      <3>1. cache[IndexOf(cache, key)] \in CacheEntry(Keys, Versions)
        BY <1>4, <2>1, IndexOfFound
      <3>2. CachedSector(cache, key) \in Versions
        BY <3>1 DEF CachedSector, CacheEntry
      <3> QED
        BY <1>2, <1>3, <2>1, <3>2 DEF ReadReply, Reply
    <2>2. CASE ~InCache(cache, key)
      BY <1>3, <2>2 DEF ReadReply, Reply
    <2> QED
      BY <2>1, <2>2
  <1>7. GhostsTyped'
    BY <1>2 DEF ServeRead, Touch, TypeOK, key, GhostsTyped
  <1> QED
    BY <1>5, <1>6, <1>7

LEMMA ServeWriteType ==
    ASSUME TypeOK, mailbox # <<>>, ServeWrite(Head(mailbox))
    PROVE  /\ cache' \in Seq(CacheEntry(Keys, Versions))
           /\ reply' \in Reply
           /\ GhostsTyped'
           /\ Head(mailbox).sector_number \in Keys
           /\ Head(mailbox).sector \in Versions
  <1>1. Head(mailbox) \in Message /\ Head(mailbox).disk_ic_msg_type = "DISK_IC_WRITE"
    BY TailFacts DEF TypeOK, ServeWrite
  <1>2. Head(mailbox).sector_number \in Keys /\ Head(mailbox).sector \in Versions
    BY <1>1 DEF Message
  <1>3. cache' \in Seq(CacheEntry(Keys, Versions))
    BY <1>2, AddToCacheKeepsEntries DEF ServeWrite, TypeOK
  <1>4. GhostsTyped'
    BY <1>2 DEF ServeWrite, Touch, TypeOK, GhostsTyped
  <1> QED
    BY <1>2, <1>3, <1>4 DEF ServeWrite, TypeOK

LEMMA ProcessInboundType ==
    ASSUME TypeOK, ProcessInbound
    PROVE  TypeOK'
  <1>1. mailbox' \in Seq(Message)
    BY TailFacts DEF TypeOK, ProcessInbound
  <1>2. CASE ServeRead(Head(mailbox))
    BY <1>1, <1>2, ServeReadType DEF TypeOK, ProcessInbound, GhostsTyped
  <1>3. CASE ServeWrite(Head(mailbox))
    BY <1>1, <1>3, ServeWriteType DEF TypeOK, ProcessInbound, GhostsTyped
  <1> QED
    BY <1>2, <1>3 DEF ProcessInbound

\* The state of the cache server, its table and its ring always have their types.
THEOREM CacheServerTyped == Spec => []TypeOK
  <1>1. Init => TypeOK
    <2>1. 0 \in 0 .. SEMA_VALUES - 1
      BY CacheServerAssumption
    <2>2. NoReply \in Reply
      BY DEF Reply
    <2>3. <<>> \in Seq(CacheEntry(Keys, Versions)) /\ <<>> \in Seq(Message)
      OBVIOUS
    <2>4. /\ [k \in Keys |-> "never"] \in [Keys -> Versions \cup {"never"}]
          /\ [k \in Keys |-> 0] \in [Keys -> Nat]
      OBVIOUS
    <2> SUFFICES ASSUME Init PROVE TypeOK
      OBVIOUS
    <2>5. cache \in Seq(CacheEntry(Keys, Versions)) /\ mailbox \in Seq(Message)
      BY <2>3 DEF Init
    <2>6. reply \in Reply /\ blockDeqSema \in 0 .. SEMA_VALUES - 1
      BY <2>1, <2>2 DEF Init
    <2>7. written \in [Keys -> Versions \cup {"never"}] /\ touched \in [Keys -> Nat]
      BY <2>4 DEF Init
    <2> QED
      BY <2>5, <2>6, <2>7 DEF Init, TypeOK
  <1>2. TypeOK /\ [Next]_vars => TypeOK'
    <2> SUFFICES ASSUME TypeOK, [Next]_vars PROVE TypeOK'
      OBVIOUS
    <2>1. CASE \E m \in Message : A7Publish(m)
      BY <2>1, A7PublishType
    <2>2. CASE Interrupt
      BY <2>2, InterruptType
    <2>3. CASE ProcessInbound
      BY <2>3, ProcessInboundType
    <2>4. CASE UNCHANGED vars
      BY <2>4 DEF vars, ghosts, TypeOK
    <2> QED
      BY <2>1, <2>2, <2>3, <2>4 DEF Next
  <1> QED
    BY <1>1, <1>2, PTL DEF Spec

-----------------------------------------------------------------------------
\* Within the limit and without duplicates: the two are inductive together
\* with coherence, since an overwrite in place reaches every copy of a sector
\* only if there is one.
TableInv == CacheBounded /\ CacheCoherent

LEMMA ServeKeepsTable ==
    ASSUME TypeOK, TableInv, ProcessInbound
    PROVE  TableInv'
  <1> DEFINE m == Head(mailbox)
             E == CacheEntry(Keys, Versions)
  <1>0. cache \in Seq(E) /\ Len(cache) \in Nat
    BY DEF TypeOK
  <1>1. CASE ServeRead(m)
    <2>1. cache' = FindInCache(cache, m.sector_number)
      BY <1>1 DEF ServeRead
    <2>2. written' = written
      BY <1>1 DEF ServeRead
    <2>3. /\ Len(cache') = Len(cache)
          /\ \A i \in DOMAIN cache' : \E j \in DOMAIN cache : cache'[i] = cache[j]
          /\ UniqueKeys(cache) => UniqueKeys(cache')
      BY <1>0, <2>1, FindInCacheKeepsEntries
    <2>4. CacheCoherent'
      BY <2>2, <2>3 DEF TableInv, CacheCoherent
    <2> QED
      BY <2>3, <2>4 DEF TableInv, CacheBounded, UniqueKeys
  <1>2. CASE ServeWrite(m)
    <2> DEFINE key == m.sector_number
               entry == [sector_number_key |-> key, sector |-> m.sector]
    <2>1. cache' = AddToCache(cache, key, m.sector)
      BY <1>2 DEF ServeWrite
    <2>2. key \in Keys /\ m.sector \in Versions
      BY <1>2, ServeWriteType DEF ProcessInbound
    <2>3. /\ Len(cache) < MAX_CACHE_ITEMS => Len(cache') < MAX_CACHE_ITEMS
          /\ \A i \in DOMAIN cache' :
                (\E j \in DOMAIN cache : cache'[i] = cache[j]) \/ cache'[i] = entry
          /\ UniqueKeys(cache) => UniqueKeys(cache')
          /\ UniqueKeys(cache) => \A i \in DOMAIN cache' :
                cache'[i].sector_number_key = key => cache'[i].sector = m.sector
      BY <1>0, <2>1, <2>2, AddToCacheKeepsEntries
    <2>4. written' = [written EXCEPT ![key] = m.sector]
      BY <1>2, <2>2 DEF ServeWrite, TypeOK
    <2>5. written \in [Keys -> Versions \cup {"never"}]
      BY DEF TypeOK
    <2>6. ASSUME NEW i \in DOMAIN cache'
          PROVE  cache'[i].sector = written'[cache'[i].sector_number_key]
      <3>1. CASE cache'[i].sector_number_key = key
        BY <2>2, <2>3, <2>4, <2>5, <3>1 DEF TableInv, CacheBounded
      <3>2. CASE cache'[i].sector_number_key # key
        <4>1. PICK j \in DOMAIN cache : cache'[i] = cache[j]
          BY <2>3, <3>2
        <4>2. cache[j] \in E
          BY <1>0
        <4>3. cache[j].sector_number_key \in Keys
          BY <4>2 DEF CacheEntry
        <4> QED
          BY <2>4, <2>5, <3>2, <4>1, <4>3 DEF TableInv, CacheCoherent
      <3> QED
        BY <3>1, <3>2
    <2> QED
      BY <2>3, <2>6 DEF TableInv, CacheBounded, CacheCoherent, UniqueKeys
  <1> QED
    BY <1>1, <1>2 DEF ProcessInbound

LEMMA TableInvariant == Spec => []TableInv
  <1>1. Init => TableInv
    BY CacheAssumption DEF Init, TableInv, CacheBounded, CacheCoherent, UniqueKeys
  <1>2. TypeOK /\ TableInv /\ [Next]_vars => TableInv'
    <2> SUFFICES ASSUME TypeOK, TableInv, [Next]_vars PROVE TableInv'
      OBVIOUS
    <2>1. CASE \E m \in Message : A7Publish(m)
      BY <2>1 DEF A7Publish, ghosts, TableInv, CacheBounded, CacheCoherent, UniqueKeys
    <2>2. CASE Interrupt
      BY <2>2 DEF Interrupt, ghosts, TableInv, CacheBounded, CacheCoherent, UniqueKeys
    <2>3. CASE ProcessInbound
      BY <2>3, ServeKeepsTable
    <2>4. CASE UNCHANGED vars
      BY <2>4 DEF vars, ghosts, TableInv, CacheBounded, CacheCoherent, UniqueKeys
    <2> QED
      BY <2>1, <2>2, <2>3, <2>4 DEF Next
  <1> QED
    BY <1>1, <1>2, CacheServerTyped, PTL DEF Spec

\* The table is always below MAX_CACHE_ITEMS and holds no sector twice.
THEOREM TableWithinLimit == Spec => []CacheBounded
  <1>1. TableInv => CacheBounded
    BY DEF TableInv
  <1> QED
    BY <1>1, TableInvariant, PTL

\* A cached sector always is the one last written under its number.
THEOREM TableCoherent == Spec => []CacheCoherent
  <1>1. TableInv => CacheCoherent
    BY DEF TableInv
  <1> QED
    BY <1>1, TableInvariant, PTL

-----------------------------------------------------------------------------
(***************************************************************************)
(* The order of the table is the order of use.  Inductive with it: no      *)
(* sector was touched later than the clock says, so that the one touched   *)
(* now comes after every other.                                            *)
(***************************************************************************)
InOrder(table, when) ==
    \A i, j \in DOMAIN table :
        i < j => when[table[i].sector_number_key] < when[table[j].sector_number_key]

TouchedByNow == \A k \in Keys : touched[k] <= clock

OrderInv == OldestFirst /\ TouchedByNow

\* The entry touched now goes behind the others.
LEMMA TouchedComesLast ==
    ASSUME NEW table \in Seq(CacheEntry(Keys, Versions)),
           NEW rest \in Seq(CacheEntry(Keys, Versions)),
           NEW entry \in CacheEntry(Keys, Versions),
           table = Append(rest, entry),
           NEW when \in [Keys -> Nat], NEW now \in Nat,
           InOrder(rest, when), \A k \in Keys : when[k] <= now,
           \A i \in DOMAIN rest :
             rest[i].sector_number_key # entry.sector_number_key
    PROVE  InOrder(table, [when EXCEPT ![entry.sector_number_key] = now + 1])
  <1> DEFINE key   == entry.sector_number_key
             later == [when EXCEPT ![key] = now + 1]
  <1>1. /\ Len(rest) \in Nat /\ DOMAIN rest = 1 .. Len(rest)
        /\ DOMAIN table = 1 .. Len(rest) + 1
        /\ \A i \in 1 .. Len(rest) : table[i] = rest[i]
        /\ table[Len(rest) + 1] = entry
    BY AppendFacts
  <1>2. key \in Keys /\ \A i \in DOMAIN rest : rest[i].sector_number_key \in Keys
    <2>1. \A i \in DOMAIN rest : rest[i] \in CacheEntry(Keys, Versions)
      OBVIOUS
    <2> QED
      BY <2>1 DEF CacheEntry
  <1>3. later[key] = now + 1 /\ \A k \in Keys : k # key => later[k] = when[k]
    BY <1>2
  <1> HIDE DEF later
  <1> SUFFICES ASSUME NEW i \in DOMAIN table, NEW j \in DOMAIN table, i < j
               PROVE  later[table[i].sector_number_key] < later[table[j].sector_number_key]
    BY DEF InOrder, later
  <1>4. i \in DOMAIN rest /\ table[i] = rest[i]
    BY <1>1
  <1>5. later[rest[i].sector_number_key] = when[rest[i].sector_number_key]
    BY <1>2, <1>3, <1>4
  <1>6. CASE j \in DOMAIN rest
    <2>1. later[rest[j].sector_number_key] = when[rest[j].sector_number_key]
      BY <1>2, <1>3, <1>6
    <2>2. table[j] = rest[j]
      BY <1>1, <1>6
    <2> QED
      BY <1>4, <1>5, <1>6, <2>1, <2>2 DEF InOrder
  <1>7. CASE j = Len(rest) + 1
    <2>1. later[table[j].sector_number_key] = now + 1
      BY <1>1, <1>3, <1>7
    <2>2. when[rest[i].sector_number_key] <= now /\ when[rest[i].sector_number_key] \in Nat
      BY <1>2, <1>4
    <2> QED
      BY <1>4, <1>5, <2>1, <2>2
  <1> QED
    BY <1>1, <1>6, <1>7

\* Taking an entry out, or the oldest one, leaves the others in their order.
LEMMA WithoutInOrder ==
    ASSUME NEW table \in Seq(CacheEntry(Keys, Versions)), NEW at \in DOMAIN table,
           NEW when, InOrder(table, when)
    PROVE  InOrder(Without(table, at), when)
  <1>1. /\ Len(table) \in Nat /\ DOMAIN table = 1 .. Len(table)
        /\ DOMAIN Without(table, at) = 1 .. Len(table) - 1
        /\ \A j \in 1 .. Len(table) - 1 :
             Without(table, at)[j] = IF j < at THEN table[j] ELSE table[j + 1]
    BY WithoutFacts
  <1> DEFINE from(i) == IF i < at THEN i ELSE i + 1
  <1>2. \A i \in DOMAIN Without(table, at) :
          from(i) \in DOMAIN table /\ Without(table, at)[i] = table[from(i)]
    BY <1>1
  <1>3. \A i, j \in DOMAIN Without(table, at) : i < j => from(i) < from(j)
    BY <1>1
  <1> HIDE DEF from
  <1> QED
    BY <1>2, <1>3 DEF InOrder

LEMMA PrunedInOrder ==
    ASSUME NEW table \in Seq(CacheEntry(Keys, Versions)), NEW when,
           InOrder(table, when)
    PROVE  InOrder(Pruned(table), when)
  <1>1. CASE Len(table) >= MAX_CACHE_ITEMS
    <2>1. table # <<>>
      BY <1>1, CacheAssumption
    <2>2. /\ Len(table) \in Nat /\ DOMAIN table = 1 .. Len(table)
          /\ DOMAIN Tail(table) = 1 .. Len(table) - 1
          /\ \A i \in 1 .. Len(table) - 1 : Tail(table)[i] = table[i + 1]
      BY <2>1, TailFacts
    <2>3. InOrder(Tail(table), when)
      <3> SUFFICES ASSUME NEW i \in 1 .. Len(table) - 1, NEW j \in 1 .. Len(table) - 1,
                          i < j
                   PROVE  when[table[i + 1].sector_number_key]
                            < when[table[j + 1].sector_number_key]
        BY <2>2 DEF InOrder
      <3>1. i + 1 \in DOMAIN table /\ j + 1 \in DOMAIN table /\ i + 1 < j + 1
        BY <2>2
      <3> QED
        BY <3>1 DEF InOrder
    <2> QED
      BY <1>1, <2>3 DEF Pruned
  <1>2. CASE ~(Len(table) >= MAX_CACHE_ITEMS)
    BY <1>2 DEF Pruned
  <1> QED
    BY <1>1, <1>2

\* The clock runs ahead of every touch.
LEMMA TouchKeepsTime ==
    ASSUME TypeOK, TouchedByNow, NEW key \in Keys, Touch(key)
    PROVE  TouchedByNow'
  <1>1. clock \in Nat /\ touched \in [Keys -> Nat]
    BY DEF TypeOK
  <1>2. clock' = clock + 1 /\ touched' = [touched EXCEPT ![key] = clock + 1]
    BY DEF Touch
  <1> SUFFICES ASSUME NEW k \in Keys PROVE touched'[k] <= clock'
    BY DEF TouchedByNow
  <1>3. touched[k] <= clock /\ touched[k] \in Nat
    BY <1>1 DEF TouchedByNow
  <1> QED
    BY <1>1, <1>2, <1>3

LEMMA ServeReadInOrder ==
    ASSUME TypeOK, TableInv, OrderInv, mailbox # <<>>, ServeRead(Head(mailbox))
    PROVE  OrderInv'
  <1> DEFINE key == Head(mailbox).sector_number
             E   == CacheEntry(Keys, Versions)
  <1>1. key \in Keys
    <2>1. Head(mailbox) \in Message /\ Head(mailbox).disk_ic_msg_type = "DISK_IC_READ"
      BY TailFacts DEF TypeOK, ServeRead
    <2> QED
      BY <2>1 DEF Message
  <1>2. /\ cache \in Seq(E) /\ touched \in [Keys -> Nat] /\ clock \in Nat
        /\ cache' \in Seq(E) /\ UniqueKeys(cache)
        /\ InOrder(cache, touched) /\ TouchedByNow
    BY ServeReadType DEF TypeOK, TableInv, CacheBounded, OrderInv, OldestFirst, InOrder
  <1>3. cache' = FindInCache(cache, key)
        /\ IF InCache(cache, key) THEN Touch(key) ELSE UNCHANGED <<touched, clock>>
    BY DEF ServeRead
  <1> HIDE DEF key
  <1>4. CASE InCache(cache, key)
    <2> DEFINE at   == IndexOf(cache, key)
               rest == Without(cache, at)
    <2>1. at \in DOMAIN cache /\ cache[at].sector_number_key = key
      BY <1>4, IndexOfFound
    <2>2. cache' = Append(rest, cache[at])
      BY <1>3, <1>4 DEF FindInCache
    <2>3. rest \in Seq(E) /\ cache[at] \in E
      BY <1>2, <2>1, WithoutFacts
    <2>4. InOrder(rest, touched)
      BY <1>2, <2>1, WithoutInOrder
    <2>5. \A i \in DOMAIN rest : rest[i].sector_number_key # key
      <3>1. /\ Len(cache) \in Nat /\ DOMAIN cache = 1 .. Len(cache)
            /\ DOMAIN rest = 1 .. Len(cache) - 1
            /\ \A j \in 1 .. Len(cache) - 1 :
                 rest[j] = IF j < at THEN cache[j] ELSE cache[j + 1]
        BY <1>2, <2>1, WithoutFacts
      <3> HIDE DEF at, rest
      <3>2. \A i \in DOMAIN rest :
              \E k \in DOMAIN cache : k # at /\ rest[i] = cache[k]
        <4> SUFFICES ASSUME NEW i \in DOMAIN rest
                     PROVE  \E k \in DOMAIN cache : k # at /\ rest[i] = cache[k]
          OBVIOUS
        <4>1. CASE i < at
          <5>1. i \in DOMAIN cache /\ i # at /\ rest[i] = cache[i]
            BY <2>1, <3>1, <4>1
          <5> QED
            BY <5>1
        <4>2. CASE ~(i < at)
          <5>1. i + 1 \in DOMAIN cache /\ i + 1 # at /\ rest[i] = cache[i + 1]
            BY <2>1, <3>1, <4>2
          <5> QED
            BY <5>1
        <4> QED
          BY <4>1, <4>2
      <3> QED
        BY <1>2, <2>1, <3>2 DEF UniqueKeys
    <2>6. \A k \in Keys : touched[k] <= clock
      BY <1>2 DEF TouchedByNow
    <2> HIDE DEF at, rest, E
    <2>7. InOrder(cache', [touched EXCEPT ![cache[at].sector_number_key] = clock + 1])
      BY <1>2, <2>1, <2>2, <2>3, <2>4, <2>5, <2>6, TouchedComesLast DEF E
    <2>8. touched' = [touched EXCEPT ![key] = clock + 1]
      BY <1>3, <1>4 DEF Touch
    <2>9. OldestFirst'
      BY <2>1, <2>7, <2>8 DEF OldestFirst, InOrder
    <2>10. TouchedByNow'
      BY <1>1, <1>2, <1>3, <1>4, TouchKeepsTime
    <2> QED
      BY <2>9, <2>10 DEF OrderInv
  <1>5. CASE ~InCache(cache, key)
    <2>1. UNCHANGED <<cache, touched, clock>>
      BY <1>3, <1>5 DEF FindInCache
    <2> QED
      BY <2>1 DEF OrderInv, OldestFirst, TouchedByNow
  <1> QED
    BY <1>4, <1>5

LEMMA ServeWriteInOrder ==
    ASSUME TypeOK, OrderInv, mailbox # <<>>, ServeWrite(Head(mailbox))
    PROVE  OrderInv'
  <1> DEFINE key   == Head(mailbox).sector_number
             data  == Head(mailbox).sector
             E     == CacheEntry(Keys, Versions)
             added == Inserted(cache, key, data)
  <1>1. key \in Keys /\ data \in Versions
    BY ServeWriteType
  <1>2. /\ cache \in Seq(E) /\ touched \in [Keys -> Nat] /\ clock \in Nat
        /\ InOrder(cache, touched) /\ TouchedByNow
    BY DEF TypeOK, OrderInv, OldestFirst, InOrder
  <1>3. /\ cache' = Pruned(added)
        /\ IF InCache(cache, key) THEN UNCHANGED <<touched, clock>> ELSE Touch(key)
    BY DEF ServeWrite, AddToCache
  <1> HIDE DEF key, data
  <1>4. added \in Seq(E)
    BY <1>1, <1>2, InsertedKeepsEntries
  <1>5. CASE InCache(cache, key)
    <2> DEFINE at == IndexOf(cache, key)
    <2>1. at \in DOMAIN cache
      BY <1>5, IndexOfFound
    <2>2. added = [cache EXCEPT ![at].sector = data]
      BY <1>5 DEF Inserted
    <2> HIDE DEF at
    <2>3. /\ DOMAIN added = DOMAIN cache
          /\ \A i \in DOMAIN cache : added[i].sector_number_key = cache[i].sector_number_key
      <3>1. \A i \in DOMAIN cache : cache[i] \in E
        BY <1>2
      <3>2. [cache[at] EXCEPT !.sector = data].sector_number_key = cache[at].sector_number_key
        BY <2>1, <3>1 DEF CacheEntry
      <3> DEFINE entry == [cache[at] EXCEPT !.sector = data]
      <3>3. added = [cache EXCEPT ![at] = entry]
        BY <2>2
      <3> HIDE DEF entry, added
      <3>4. DOMAIN added = DOMAIN cache
            /\ \A i \in DOMAIN cache : added[i] = IF i = at THEN entry ELSE cache[i]
        BY <1>2, <2>1, <3>3
      <3> QED
        BY <2>1, <3>2, <3>4 DEF entry
    <2> HIDE DEF added
    <2>4. InOrder(added, touched)
      BY <1>2, <2>3 DEF InOrder
    <2>5. InOrder(cache', touched)
      BY <1>3, <1>4, <2>4, PrunedInOrder
    <2>6. UNCHANGED <<touched, clock>>
      BY <1>3, <1>5
    <2> QED
      BY <1>2, <2>5, <2>6 DEF OrderInv, OldestFirst, InOrder, TouchedByNow
  <1>6. CASE ~InCache(cache, key)
    <2> DEFINE entry == [sector_number_key |-> key, sector |-> data]
    <2>1. added = Append(cache, entry)
      BY <1>6 DEF Inserted
    <2>2. entry \in E /\ entry.sector_number_key = key
      BY <1>1 DEF CacheEntry
    <2>3. \A i \in DOMAIN cache : cache[i].sector_number_key # key
      BY <1>6 DEF InCache
    <2>4. \A k \in Keys : touched[k] <= clock
      BY <1>2 DEF TouchedByNow
    <2> HIDE DEF entry, added, E
    <2>5. InOrder(added, [touched EXCEPT ![entry.sector_number_key] = clock + 1])
      BY <1>2, <1>4, <2>1, <2>2, <2>3, <2>4, TouchedComesLast DEF E
    <2>6. touched' = [touched EXCEPT ![key] = clock + 1]
      BY <1>3, <1>6 DEF Touch
    <2>7. InOrder(added, touched')
      BY <2>2, <2>5, <2>6
    <2>8. InOrder(cache', touched')
      BY <1>3, <1>4, <2>7, PrunedInOrder DEF E
    <2>9. TouchedByNow'
      BY <1>1, <1>2, <1>3, <1>6, TouchKeepsTime
    <2> QED
      BY <2>8, <2>9 DEF OrderInv, OldestFirst, InOrder
  <1> QED
    BY <1>5, <1>6

\* The entry the prune removes is the one that was neither found nor inserted
\* for the longest time.
THEOREM OldestIsPruned == Spec => []OldestFirst
  <1>1. Init => OrderInv
    BY DEF Init, OrderInv, OldestFirst, TouchedByNow
  <1>2. TypeOK /\ TableInv /\ OrderInv /\ [Next]_vars => OrderInv'
    <2> SUFFICES ASSUME TypeOK, TableInv, OrderInv, [Next]_vars PROVE OrderInv'
      OBVIOUS
    <2>1. ASSUME UNCHANGED <<cache, touched, clock>> PROVE OrderInv'
      BY <2>1 DEF OrderInv, OldestFirst, TouchedByNow
    <2>2. CASE \E m \in Message : A7Publish(m)
      BY <2>1, <2>2 DEF A7Publish, ghosts
    <2>3. CASE Interrupt \/ UNCHANGED vars
      BY <2>1, <2>3 DEF Interrupt, ghosts, vars
    <2>4. CASE ProcessInbound
      BY <2>4, ServeReadInOrder, ServeWriteInOrder DEF ProcessInbound
    <2> QED
      BY <2>2, <2>3, <2>4 DEF Next
  <1>3. OrderInv => OldestFirst
    BY DEF OrderInv
  <1> QED
    BY <1>1, <1>2, <1>3, CacheServerTyped, TableInvariant, PTL DEF Spec

-----------------------------------------------------------------------------
(***************************************************************************)
(* Nothing is left in the ring before the counter can have wrapped: every  *)
(* interrupt, taken or latched, was raised by a message of its own, so     *)
(* that the counter is at most the number of messages and stays below      *)
(* SEMA_VALUES; and it is never taken down, so that once the first message *)
(* was sent it is above 0, or its interrupt is still latched.              *)
(***************************************************************************)
RaisedSoFar == blockDeqSema + (IF irq THEN 1 ELSE 0)

CounterInv ==
    /\ mailbox # <<>> => sent > 0
    /\ sent < SEMA_VALUES => RaisedSoFar <= sent
    /\ sent > 0 /\ sent < SEMA_VALUES => RaisedSoFar > 0

LEMMA InterruptKeepsCount ==
    ASSUME TypeOK, CounterInv, Interrupt
    PROVE  CounterInv'
  <1>1. /\ SEMA_VALUES \in Nat /\ sent \in Nat
        /\ blockDeqSema \in 0 .. SEMA_VALUES - 1
    BY CacheServerAssumption DEF TypeOK
  <1>2. /\ irq /\ ~irq' /\ mailbox' = mailbox /\ sent' = sent
        /\ blockDeqSema' = (blockDeqSema + 1) % SEMA_VALUES
    BY DEF Interrupt
  <1>3. CASE sent < SEMA_VALUES
    <2>1. blockDeqSema + 1 <= sent
      BY <1>2, <1>3 DEF CounterInv, RaisedSoFar
    <2>2. blockDeqSema + 1 \in 0 .. SEMA_VALUES - 1
      BY <1>1, <1>3, <2>1
    <2>3. blockDeqSema' = blockDeqSema + 1
      BY <1>1, <1>2, <2>2
    <2> QED
      BY <1>1, <1>2, <2>1, <2>3 DEF CounterInv, RaisedSoFar
  <1>4. CASE ~(sent < SEMA_VALUES)
    BY <1>2, <1>4 DEF CounterInv
  <1> QED
    BY <1>3, <1>4

LEMMA CounterInvariant == Spec => []CounterInv
  <1>1. Init => CounterInv
    BY DEF Init, CounterInv, RaisedSoFar
  <1>2. TypeOK /\ CounterInv /\ [Next]_vars => CounterInv'
    <2> SUFFICES ASSUME TypeOK, CounterInv, [Next]_vars PROVE CounterInv'
      OBVIOUS
    <2>0. /\ SEMA_VALUES \in Nat /\ sent \in Nat
          /\ blockDeqSema \in 0 .. SEMA_VALUES - 1 /\ irq \in BOOLEAN
      BY CacheServerAssumption DEF TypeOK
    <2>1. ASSUME NEW m \in Message, A7Publish(m) PROVE CounterInv'
      <3>1. irq' /\ sent' = sent + 1 /\ blockDeqSema' = blockDeqSema
        BY <2>1 DEF A7Publish
      <3> QED
        BY <2>0, <3>1 DEF CounterInv, RaisedSoFar
    <2>2. CASE Interrupt
      BY <2>2, InterruptKeepsCount
    <2>3. CASE ProcessInbound
      <3>1. mailbox # <<>> /\ UNCHANGED <<irq, blockDeqSema, sent>>
        BY <2>3 DEF ProcessInbound
      <3> QED
        BY <3>1 DEF CounterInv, RaisedSoFar
    <2>4. CASE UNCHANGED vars
      BY <2>4 DEF vars, CounterInv, RaisedSoFar
    <2> QED
      BY <2>1, <2>2, <2>3, <2>4 DEF Next
  <1> QED
    BY <1>1, <1>2, CacheServerTyped, PTL DEF Spec

\* Until the counter can have wrapped, no message lies in the ring unannounced.
THEOREM MessagesAreAnnounced == Spec => []NoneLeftEarly
  <1>1. TypeOK /\ CounterInv => NoneLeftEarly
    BY DEF TypeOK, CounterInv, RaisedSoFar, NoneLeftEarly
  <1> QED
    BY <1>1, CacheServerTyped, CounterInvariant, PTL
=============================================================================
