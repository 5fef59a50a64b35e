-------------------------- MODULE DiskCacheProofs --------------------------
(***************************************************************************)
(* What the operations of the M4's sector cache preserve, for every table  *)
(* size and every set of sector numbers and contents.  Also the few facts  *)
(* about queues that the proofs about channels and rings use.              *)
(***************************************************************************)
EXTENDS DiskCache, TLAPS

-----------------------------------------------------------------------------
\* Appending to a queue: its type, length and elements.
LEMMA AppendFacts ==
    ASSUME NEW S, NEW q \in Seq(S), NEW e \in S
    PROVE  /\ Append(q, e) \in Seq(S)
           /\ Len(q) \in Nat
           /\ Len(Append(q, e)) = Len(q) + 1
           /\ DOMAIN Append(q, e) = 1 .. Len(q) + 1
           /\ DOMAIN q = 1 .. Len(q)
           /\ \A i \in 1 .. Len(q) : Append(q, e)[i] = q[i]
           /\ Append(q, e)[Len(q) + 1] = e
  OBVIOUS

\* Taking the head off a queue.
LEMMA TailFacts ==
    ASSUME NEW S, NEW q \in Seq(S), q # <<>>
    PROVE  /\ Tail(q) \in Seq(S)
           /\ Head(q) \in S
           /\ Head(q) = q[1]
           /\ Len(q) \in Nat
           /\ Len(q) >= 1
           /\ Len(Tail(q)) = Len(q) - 1
           /\ DOMAIN Tail(q) = 1 .. Len(q) - 1
           /\ DOMAIN q = 1 .. Len(q)
           /\ \A i \in 1 .. Len(q) - 1 : Tail(q)[i] = q[i + 1]
  OBVIOUS
-----------------------------------------------------------------------------
\* IndexOf finds an entry of the key.
LEMMA IndexOfFound ==
    ASSUME NEW cache, NEW key, InCache(cache, key)
    PROVE  /\ IndexOf(cache, key) \in DOMAIN cache
           /\ cache[IndexOf(cache, key)].sector_number_key = key
  BY DEF InCache, IndexOf

\* Removing an entry leaves a sequence of the others.
LEMMA WithoutFacts ==
    ASSUME NEW S, NEW cache \in Seq(S), NEW i \in DOMAIN cache
    PROVE  /\ Without(cache, i) \in Seq(S)
           /\ Len(Without(cache, i)) = Len(cache) - 1
           /\ Len(cache) \in Nat
           /\ Len(cache) >= 1
           /\ DOMAIN Without(cache, i) = 1 .. Len(cache) - 1
           /\ \A j \in 1 .. Len(cache) - 1 :
                Without(cache, i)[j] = IF j < i THEN cache[j] ELSE cache[j + 1]
  <1>1. Len(cache) \in Nat /\ DOMAIN cache = 1 .. Len(cache) /\ i \in 1 .. Len(cache)
    OBVIOUS
  <1>2. \A j \in 1 .. Len(cache) : cache[j] \in S
    OBVIOUS
  <1>3. Without(cache, i) \in [1 .. Len(cache) - 1 -> S]
    BY <1>1, <1>2 DEF Without
  <1>4. Len(cache) - 1 \in Nat
    BY <1>1
  <1>5. Without(cache, i) \in Seq(S) /\ Len(Without(cache, i)) = Len(cache) - 1
    BY <1>3, <1>4
  <1> QED
    BY <1>1, <1>3, <1>4, <1>5 DEF Without

-----------------------------------------------------------------------------
\* find_in_cache only reorders: it adds no entry, keeps the number of entries
\* and keeps the keys unique.
THEOREM FindInCacheKeepsEntries ==
    ASSUME NEW K, NEW D, NEW cache \in Seq(CacheEntry(K, D)), NEW key
    PROVE  /\ FindInCache(cache, key) \in Seq(CacheEntry(K, D))
           /\ Len(FindInCache(cache, key)) = Len(cache)
           /\ \A i \in DOMAIN FindInCache(cache, key) :
                \E j \in DOMAIN cache : FindInCache(cache, key)[i] = cache[j]
           /\ UniqueKeys(cache) => UniqueKeys(FindInCache(cache, key))
  <1>1. CASE ~InCache(cache, key)
    BY <1>1 DEF FindInCache
  <1>2. CASE InCache(cache, key)
    <2> DEFINE at   == IndexOf(cache, key)
               rest == Without(cache, at)
               new  == Append(rest, cache[at])
               E    == CacheEntry(K, D)
    <2>1. at \in DOMAIN cache
      BY <1>2, IndexOfFound
    <2>2. /\ rest \in Seq(E)
          /\ Len(rest) = Len(cache) - 1
          /\ Len(cache) \in Nat /\ Len(cache) >= 1
          /\ \A j \in 1 .. Len(cache) - 1 :
                rest[j] = IF j < at THEN cache[j] ELSE cache[j + 1]
      BY <2>1, WithoutFacts
    <2>3. at \in 1 .. Len(cache) /\ cache[at] \in E /\ DOMAIN cache = 1 .. Len(cache)
      BY <2>1
    <2> HIDE DEF at, rest, E
    <2>4. /\ new \in Seq(E)
          /\ Len(new) = Len(cache)
          /\ DOMAIN new = 1 .. Len(cache)
          /\ \A i \in 1 .. Len(cache) - 1 : new[i] = rest[i]
          /\ new[Len(cache)] = cache[at]
      BY <2>2, <2>3, AppendFacts
    <2>5. FindInCache(cache, key) = new
      BY <1>2 DEF FindInCache, at, rest
    <2> HIDE DEF new
    <2> DEFINE from(i) == IF i = Len(cache) THEN at
                          ELSE IF i < at THEN i ELSE i + 1
    <2>6. \A i \in 1 .. Len(cache) : from(i) \in 1 .. Len(cache) /\ new[i] = cache[from(i)]
      BY <2>2, <2>3, <2>4
    <2>7. \A i, j \in 1 .. Len(cache) : from(i) = from(j) => i = j
      BY <2>2, <2>3
    <2> HIDE DEF from
    <2>8. UniqueKeys(cache) => UniqueKeys(new)
      <3> SUFFICES ASSUME UniqueKeys(cache), NEW i \in 1 .. Len(cache),
                          NEW j \in 1 .. Len(cache),
                          new[i].sector_number_key = new[j].sector_number_key
                   PROVE  i = j
        BY <2>4 DEF UniqueKeys
      <3>1. cache[from(i)].sector_number_key = cache[from(j)].sector_number_key
        BY <2>6
      <3>2. from(i) = from(j)
        BY <2>3, <2>6, <3>1 DEF UniqueKeys
      <3> QED
        BY <2>7, <3>2
    <2>9. \A i \in DOMAIN new : \E j \in DOMAIN cache : new[i] = cache[j]
      BY <2>3, <2>4, <2>6
    <2> QED
      BY <2>4, <2>5, <2>8, <2>9 DEF E
  <1> QED
    BY <1>1, <1>2

\* Before the prune add_to_cache has one entry more at most; every entry is an
\* old one or the one added, and the keys stay unique.
LEMMA InsertedKeepsEntries ==
    ASSUME NEW K, NEW D, NEW cache \in Seq(CacheEntry(K, D)),
           NEW key \in K, NEW sector \in D
    PROVE  /\ Inserted(cache, key, sector) \in Seq(CacheEntry(K, D))
           /\ Len(cache) \in Nat
           /\ Len(Inserted(cache, key, sector)) \in {Len(cache), Len(cache) + 1}
           /\ \A i \in DOMAIN Inserted(cache, key, sector) :
                \/ \E j \in DOMAIN cache : Inserted(cache, key, sector)[i] = cache[j]
                \/ Inserted(cache, key, sector)[i]
                        = [sector_number_key |-> key, sector |-> sector]
           /\ UniqueKeys(cache) => UniqueKeys(Inserted(cache, key, sector))
           /\ UniqueKeys(cache) =>
                \A i \in DOMAIN Inserted(cache, key, sector) :
                    Inserted(cache, key, sector)[i].sector_number_key = key
                        => Inserted(cache, key, sector)[i].sector = sector
  <1> DEFINE E     == CacheEntry(K, D)
             entry == [sector_number_key |-> key, sector |-> sector]
             new   == Inserted(cache, key, sector)
  <1>0. entry \in E
    BY DEF CacheEntry
  <1>1. CASE InCache(cache, key)
    <2> DEFINE at == IndexOf(cache, key)
    <2>1. at \in DOMAIN cache /\ cache[at].sector_number_key = key
      BY <1>1, IndexOfFound
    <2>2. new = [cache EXCEPT ![at].sector = sector]
      BY <1>1 DEF Inserted
    <2>3. cache[at] \in E
      BY <2>1
    <2>4. [cache[at] EXCEPT !.sector = sector] = entry
      BY <2>1, <2>3 DEF CacheEntry
    <2> HIDE DEF at, entry, E
    <2>5. new = [cache EXCEPT ![at] = entry]
      BY <2>2, <2>4
    <2> HIDE DEF new
    <2>6. /\ new \in Seq(E) /\ Len(new) = Len(cache) /\ DOMAIN new = DOMAIN cache
          /\ Len(cache) \in Nat
          /\ \A i \in DOMAIN cache : new[i] = IF i = at THEN entry ELSE cache[i]
      BY <1>0, <2>1, <2>5 DEF E
    <2>7. \A i \in DOMAIN cache : new[i].sector_number_key = cache[i].sector_number_key
      BY <2>1, <2>6 DEF entry
    <2>8. UniqueKeys(cache) => UniqueKeys(new)
      BY <2>6, <2>7 DEF UniqueKeys
    <2>9. UniqueKeys(cache) => \A i \in DOMAIN new : new[i].sector_number_key = key => i = at
      BY <2>1, <2>6, <2>7 DEF UniqueKeys
    <2>10. entry.sector = sector
      BY DEF entry
    <2>11. UniqueKeys(cache) =>
             \A i \in DOMAIN new : new[i].sector_number_key = key => new[i].sector = sector
      BY <2>1, <2>6, <2>9, <2>10
    <2> QED
      BY <2>6, <2>8, <2>11 DEF new, E, entry
  <1>2. CASE ~InCache(cache, key)
    <2>1. new = Append(cache, entry)
      BY <1>2 DEF Inserted
    <2>2. entry.sector_number_key = key
      OBVIOUS
    <2> HIDE DEF entry, E
    <2> HIDE DEF new
    <2>3. /\ new \in Seq(E) /\ Len(cache) \in Nat /\ Len(new) = Len(cache) + 1
          /\ DOMAIN new = 1 .. Len(cache) + 1 /\ DOMAIN cache = 1 .. Len(cache)
          /\ \A i \in 1 .. Len(cache) : new[i] = cache[i]
          /\ new[Len(cache) + 1] = entry
      BY <1>0, <2>1, AppendFacts DEF E
    <2>4. \A i \in 1 .. Len(cache) : cache[i].sector_number_key # key
      BY <1>2, <2>3 DEF InCache
    <2>5. UniqueKeys(cache) => UniqueKeys(new)
      <3> SUFFICES ASSUME UniqueKeys(cache), NEW i \in DOMAIN new, NEW j \in DOMAIN new,
                          new[i].sector_number_key = new[j].sector_number_key
                   PROVE  i = j
        BY DEF UniqueKeys
      <3>1. CASE i \in 1 .. Len(cache) /\ j \in 1 .. Len(cache)
        BY <3>1, <2>3 DEF UniqueKeys
      <3>2. CASE i = Len(cache) + 1 /\ j \in 1 .. Len(cache)
        BY <3>2, <2>2, <2>3, <2>4
      <3>3. CASE i \in 1 .. Len(cache) /\ j = Len(cache) + 1
        BY <3>3, <2>2, <2>3, <2>4
      <3> QED
        BY <3>1, <3>2, <3>3, <2>3
    <2>6. \A i \in DOMAIN new : (\E j \in DOMAIN cache : new[i] = cache[j]) \/ new[i] = entry
      BY <2>3
    <2>7. entry.sector = sector
      BY DEF entry
    <2>8. \A i \in DOMAIN new : new[i].sector_number_key = key => new[i].sector = sector
      BY <2>3, <2>4, <2>7
    <2> QED
      BY <2>3, <2>5, <2>6, <2>8 DEF new, E, entry
  <1> QED
    BY <1>1, <1>2

\* add_to_cache: every entry is an old one or the one added, the keys stay
\* unique, what is held under the key is the sector added, and a table that
\* was within its limit stays within it.
THEOREM AddToCacheKeepsEntries ==
    ASSUME NEW K, NEW D, NEW cache \in Seq(CacheEntry(K, D)),
           NEW key \in K, NEW sector \in D
    PROVE  /\ AddToCache(cache, key, sector) \in Seq(CacheEntry(K, D))
           /\ Len(cache) < MAX_CACHE_ITEMS
                => Len(AddToCache(cache, key, sector)) < MAX_CACHE_ITEMS
           /\ \A i \in DOMAIN AddToCache(cache, key, sector) :
                \/ \E j \in DOMAIN cache : AddToCache(cache, key, sector)[i] = cache[j]
                \/ AddToCache(cache, key, sector)[i]
                        = [sector_number_key |-> key, sector |-> sector]
           /\ UniqueKeys(cache) => UniqueKeys(AddToCache(cache, key, sector))
           /\ UniqueKeys(cache) =>
                \A i \in DOMAIN AddToCache(cache, key, sector) :
                    AddToCache(cache, key, sector)[i].sector_number_key = key
                        => AddToCache(cache, key, sector)[i].sector = sector
  <1> DEFINE added == Inserted(cache, key, sector)
             new   == AddToCache(cache, key, sector)
             E     == CacheEntry(K, D)
  <1>1. /\ added \in Seq(E) /\ Len(cache) \in Nat
        /\ Len(added) \in {Len(cache), Len(cache) + 1}
        /\ \A i \in DOMAIN added :
             \/ \E j \in DOMAIN cache : added[i] = cache[j]
             \/ added[i] = [sector_number_key |-> key, sector |-> sector]
        /\ UniqueKeys(cache) => UniqueKeys(added)
        /\ UniqueKeys(cache) => \A i \in DOMAIN added :
             added[i].sector_number_key = key => added[i].sector = sector
    BY InsertedKeepsEntries
  <1>2. new = IF Len(added) >= MAX_CACHE_ITEMS THEN Tail(added) ELSE added
    BY DEF AddToCache, Pruned
  <1>3. MAX_CACHE_ITEMS \in Nat /\ MAX_CACHE_ITEMS >= 1
    BY CacheAssumption
  <1> HIDE DEF added, new, E
  <1>4. CASE Len(added) >= MAX_CACHE_ITEMS
    <2>1. added # <<>>
      BY <1>1, <1>3, <1>4
    <2>2. /\ new \in Seq(E) /\ Len(new) = Len(added) - 1 /\ Len(added) \in Nat
          /\ DOMAIN new = 1 .. Len(added) - 1 /\ DOMAIN added = 1 .. Len(added)
          /\ \A i \in 1 .. Len(added) - 1 : new[i] = added[i + 1]
      BY <1>1, <1>2, <1>4, <2>1, TailFacts
    <2>3. UniqueKeys(added) => UniqueKeys(new)
      <3> SUFFICES ASSUME UniqueKeys(added), NEW i \in 1 .. Len(added) - 1,
                          NEW j \in 1 .. Len(added) - 1,
                          new[i].sector_number_key = new[j].sector_number_key
                   PROVE  i = j
        BY <2>2 DEF UniqueKeys
      <3>1. /\ i + 1 \in DOMAIN added /\ j + 1 \in DOMAIN added
            /\ added[i + 1].sector_number_key = added[j + 1].sector_number_key
        BY <2>2
      <3>2. i + 1 = j + 1
        BY <3>1 DEF UniqueKeys
      <3> QED
        BY <2>2, <3>2
    <2>4. Len(cache) < MAX_CACHE_ITEMS => Len(new) < MAX_CACHE_ITEMS
      BY <1>1, <1>3, <2>2
    <2>5. \A i \in DOMAIN new :
            \/ \E j \in DOMAIN cache : new[i] = cache[j]
            \/ new[i] = [sector_number_key |-> key, sector |-> sector]
      <3> SUFFICES ASSUME NEW i \in DOMAIN new
                   PROVE  \/ \E j \in DOMAIN cache : new[i] = cache[j]
                          \/ new[i] = [sector_number_key |-> key, sector |-> sector]
        OBVIOUS
      <3>1. i + 1 \in DOMAIN added /\ new[i] = added[i + 1]
        BY <2>2
      <3> QED
        BY <1>1, <3>1
    <2>6. UniqueKeys(cache) =>
            \A i \in DOMAIN new : new[i].sector_number_key = key => new[i].sector = sector
      <3> SUFFICES ASSUME UniqueKeys(cache), NEW i \in DOMAIN new,
                          new[i].sector_number_key = key
                   PROVE  new[i].sector = sector
        OBVIOUS
      <3>1. i + 1 \in DOMAIN added /\ new[i] = added[i + 1]
        BY <2>2
      <3> QED
        BY <1>1, <3>1
    <2> QED
      BY <1>1, <2>2, <2>3, <2>4, <2>5, <2>6 DEF new, E
  <1>5. CASE ~(Len(added) >= MAX_CACHE_ITEMS)
    BY <1>1, <1>2, <1>3, <1>5 DEF new, E
  <1> QED
    BY <1>4, <1>5
=============================================================================
