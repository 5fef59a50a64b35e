----------------------------- MODULE DiskCache -----------------------------
(***************************************************************************)
(* The sector cache the M4 core keeps for the A7 (AltairRT_disk_cache_     *)
(* server/main.c).  The code's uthash table is iterated in insertion       *)
(* order, so the cache is a sequence of entries, oldest insertion first.   *)
(* Every operator maps a cache to a cache; the modules that own a cache    *)
(* (CacheServer, VirtualDisk) apply them in their actions.                 *)
(***************************************************************************)
EXTENDS Naturals, Sequences

CONSTANTS
    MAX_CACHE_ITEMS     \* 800 in the code

ASSUME CacheAssumption == MAX_CACHE_ITEMS \in Nat \ {0}

CacheEntry(Keys, Data) == [sector_number_key : Keys, sector : Data]

\* HASH_FIND_INT: is there an entry for the key, and where is it.
InCache(cache, key) == \E i \in DOMAIN cache : cache[i].sector_number_key = key

IndexOf(cache, key) ==
    CHOOSE i \in DOMAIN cache : cache[i].sector_number_key = key

\* No sector number has two entries.
UniqueKeys(cache) ==
    \A i, j \in DOMAIN cache :
        cache[i].sector_number_key = cache[j].sector_number_key => i = j

CachedSector(cache, key) == cache[IndexOf(cache, key)].sector

\* HASH_DELETE of the entry at i: the later entries keep their order.
Without(cache, i) ==
    [j \in 1 .. Len(cache) - 1 |-> IF j < i THEN cache[j] ELSE cache[j + 1]]

-----------------------------------------------------------------------------
(***************************************************************************)
(* find_in_cache: a hit is deleted and added again, which makes it the     *)
(* newest insertion; a miss leaves the table alone.                        *)
(***************************************************************************)
\* Mutant: a hit does not move the entry.
FindInCacheInPlace(cache, key) == cache

FindInCache(cache, key) ==
    IF InCache(cache, key)
    THEN Append(Without(cache, IndexOf(cache, key)), cache[IndexOf(cache, key)])
    ELSE cache

(***************************************************************************)
(* add_to_cache: the entry of a known key is overwritten where it stands,  *)
(* an unknown key is inserted last.  Then, if the table has reached        *)
(* MAX_CACHE_ITEMS, the oldest insertion is pruned.                        *)
(***************************************************************************)
Inserted(cache, key, sector) ==
    IF InCache(cache, key)
    THEN [cache EXCEPT ![IndexOf(cache, key)].sector = sector]
    ELSE Append(cache, [sector_number_key |-> key, sector |-> sector])

Pruned(cache) == IF Len(cache) >= MAX_CACHE_ITEMS THEN Tail(cache) ELSE cache

\* Mutant: the memcpy of line 76 moved inside the insertion branch.
AddToCacheKeepsOld(cache, key, sector) ==
    IF InCache(cache, key) THEN cache ELSE Pruned(Inserted(cache, key, sector))

\* Mutant: pruned only past the limit.
AddToCachePrunesLate(cache, key, sector) ==
    LET added == Inserted(cache, key, sector)
    IN  IF Len(added) > MAX_CACHE_ITEMS THEN Tail(added) ELSE added

AddToCache(cache, key, sector) == Pruned(Inserted(cache, key, sector))
=============================================================================
