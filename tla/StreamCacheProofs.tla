--------------------------- MODULE StreamCacheProofs ---------------------------
(***************************************************************************)
(* Proofs about StreamCache for any names, IDs, URLs, sizes and TTL: types *)
(* and that what comes from a cache is what was last put there.  Then about*)
(* StreamLookup, the one who fills those caches, for any services and      *)
(* search results: which song it may take, and when it may give up.        *)
(***************************************************************************)
EXTENDS StreamCache, LookupInstance, FiniteSetTheorems, SequenceTheorems, WellFoundedInduction, TLAPS

\* The constants of StreamCacheAssumption.
LEMMA Constants ==
  /\ IdSlots \in Nat \ {0} /\ StreamSlots \in Nat \ {0} /\ TTL \in Nat \ {0}
  /\ None \notin Name /\ None \notin Id /\ None \notin URL
BY StreamCacheAssumption DEF StreamCacheAssumption

-------------------------------------------------------------------------------
(* Both caches.                                                            *)

\* No two slots have one key, or a lookup would find the older of two entries.
Distinct(cache) ==
  \A i, j \in DOMAIN cache :
    cache[i].key # None /\ cache[i].key = cache[j].key => i = j

\* What a lookup finds.
LEMMA FirstWith ==
  ASSUME NEW D \in SUBSET Int, NEW cache, DOMAIN cache = D, Distinct(cache),
         NEW k, k # None, With(cache, k) # {}
  PROVE  /\ First(With(cache, k)) \in D
         /\ cache[First(With(cache, k))].key = k
         /\ \A j \in D : cache[j].key = k => j = First(With(cache, k))
<1>1. PICK i \in D : cache[i].key = k
  BY DEF With
<1>2. \A j \in D : cache[j].key = k => j = i
  BY <1>1 DEF Distinct
<1>3. With(cache, k) = {i}
  BY <1>1, <1>2 DEF With
<1>4. First(With(cache, k)) = i
  <2>1. \E m \in With(cache, k) : \A j \in With(cache, k) : m <= j
    BY <1>1, <1>3
  <2>2. First(With(cache, k)) \in With(cache, k)
    BY <2>1 DEF First
  <2> QED
    BY <2>2, <1>3
<1> QED
  BY <1>1, <1>2, <1>4

\* The cache after k was stored.
Stored(cache, next, k, v) == [cache EXCEPT ![SlotFor(cache, next, k)] = Entry(k, v)]

\* Storing an entry: it is the only one of its key, and the others are as before,
\* but for the one that is overwritten.
LEMMA Put ==
  ASSUME NEW D \in SUBSET Int, NEW cache, DOMAIN cache = D, Distinct(cache),
         NEW next \in D, NEW k, k # None, NEW v, NEW new,
         new = Stored(cache, next, k, v)
  PROVE  /\ SlotFor(cache, next, k) \in D
         /\ Distinct(new)
         /\ \A i \in D : new[i] = Entry(k, v) \/ (new[i] = cache[i] /\ cache[i].key # k)
<1>1. PICK s : s = SlotFor(cache, next, k)
  OBVIOUS
<1>2. s \in D /\ \A j \in D : cache[j].key = k => j = s
  <2>1. CASE With(cache, k) # {}
    BY <1>1, <2>1, FirstWith DEF SlotFor
  <2>2. CASE With(cache, k) = {}
    BY <1>1, <2>2 DEF SlotFor, With
  <2> QED
    BY <2>1, <2>2
<1>3. new = [cache EXCEPT ![s] = Entry(k, v)] /\ Entry(k, v).key = k
  BY <1>1 DEF Entry, Stored
<1>4. Distinct(new)
  BY <1>2, <1>3 DEF Distinct
<1> QED
  BY <1>1, <1>2, <1>3, <1>4

\* The index stays within the array.
LEMMA AdvanceInRange ==
  ASSUME NEW N \in Nat \ {0}, NEW cache, DOMAIN cache = 0 .. N - 1,
         NEW next \in 0 .. N - 1, NEW k
  PROVE  Advance(cache, next, k) \in 0 .. N - 1
<1>1. Cardinality(0 .. N - 1) = N
  BY FS_Interval
<1>2. (next + 1) % N \in 0 .. N - 1
  OBVIOUS
<1> QED
  BY <1>1, <1>2 DEF Advance

-------------------------------------------------------------------------------
(* The inductive invariant.                                                *)

\* What the work on a song has found out so far.
Locals ==
  /\ pc # "idle" => name \in Name
  /\ pc \in {"stream", "resolve", "download"} => id \in Id
  /\ pc = "download" => url \in URL

\* Every entry is the last that was found for its key; without http_init there
\* are none, and nobody looks.
IdsTrue ==
  ready =>
    /\ Distinct(idCache)
    /\ \A i \in 0 .. IdSlots - 1 :
         idCache[i].key # None =>
           /\ idCache[i].val = foundId[idCache[i].key]
           /\ idCache[i].val # None

StreamsTrue ==
  ready =>
    /\ Distinct(streamCache)
    /\ \A i \in 0 .. StreamSlots - 1 :
         streamCache[i].key # None =>
           /\ streamCache[i].val = foundURL[streamCache[i].key]
           /\ streamCache[i].val # None
           /\ streamCache[i].age = foundAge[streamCache[i].key]

IInv == TypeOK /\ Locals /\ IdsTrue /\ StreamsTrue

LEMMA InitIInv == Init => IInv
<1> SUFFICES ASSUME Init PROVE IInv
  OBVIOUS
<1>1. Empty \in Slot(Name, Id) /\ Empty \in Slot(Id, URL) /\ Empty.key = None
  BY Constants DEF Empty, Slot
<1>2. \A i \in 0 .. IdSlots - 1 : idCache[i] = Empty
  BY DEF Init
<1>3. \A i \in 0 .. StreamSlots - 1 : streamCache[i] = Empty
  BY DEF Init
<1>4. idCache \in [0 .. IdSlots - 1 -> Slot(Name, Id)]
      /\ streamCache \in [0 .. StreamSlots - 1 -> Slot(Id, URL)]
  BY <1>1 DEF Init
<1>5. idNext \in 0 .. IdSlots - 1 /\ streamNext \in 0 .. StreamSlots - 1
  BY Constants DEF Init
<1>6. foundAge \in [Id -> 0 .. TTL] /\ foundId \in [Name -> Id \cup {None}]
      /\ foundURL \in [Id -> URL \cup {None}] /\ foundSince \in [Name -> SUBSET Name]
  BY Constants DEF Init
<1>7. TypeOK
  BY <1>4, <1>5, <1>6 DEF Init, TypeOK
<1>8. Distinct(idCache) /\ Distinct(streamCache)
  BY <1>1, <1>2, <1>3, <1>4 DEF Distinct
<1> QED
  BY <1>1, <1>2, <1>3, <1>7, <1>8 DEF Init, IInv, Locals, IdsTrue, StreamsTrue

\* What leaves the cache of IDs and its history alone leaves IdsTrue alone.
LEMMA SameIds ==
  ASSUME TypeOK, IdsTrue, UNCHANGED idVars
  PROVE  /\ IdsTrue'
         /\ idCache' \in [0 .. IdSlots - 1 -> Slot(Name, Id)]
         /\ idNext' \in 0 .. IdSlots - 1
         /\ foundId' \in [Name -> Id \cup {None}]
         /\ foundSince' \in [Name -> SUBSET Name]
<1>1. idCache' = idCache /\ idNext' = idNext /\ foundId' = foundId
      /\ foundSince' = foundSince
  BY DEF idVars
<1> QED
  BY <1>1 DEF TypeOK, IdsTrue, Distinct

LEMMA SameStreams ==
  ASSUME TypeOK, StreamsTrue, UNCHANGED streamVars
  PROVE  /\ StreamsTrue'
         /\ streamCache' \in [0 .. StreamSlots - 1 -> Slot(Id, URL)]
         /\ streamNext' \in 0 .. StreamSlots - 1
         /\ foundURL' \in [Id -> URL \cup {None}] /\ foundAge' \in [Id -> 0 .. TTL]
<1>1. streamCache' = streamCache /\ streamNext' = streamNext
      /\ foundURL' = foundURL /\ foundAge' = foundAge
  BY DEF streamVars
<1> QED
  BY <1>1 DEF TypeOK, StreamsTrue, Distinct

\* What the cache gives for a name, and for an ID.
LEMMA IdHitIsTrue ==
  ASSUME IInv, IdHit
  PROVE  id' = foundId[name] /\ id' \in Id
<1>1. name \in Name /\ name # None
  BY Constants DEF IdHit, IInv, Locals
<1>2. PICK s : s = First(With(idCache, name))
  OBVIOUS
<1>3. s \in 0 .. IdSlots - 1 /\ idCache[s].key = name
  BY <1>1, <1>2, FirstWith, Constants DEF IdHit, IInv, TypeOK, IdsTrue
<1>4. id' = idCache[s].val /\ ready
  BY <1>2 DEF IdHit
<1> QED
  BY <1>1, <1>3, <1>4 DEF IInv, TypeOK, IdsTrue

LEMMA StreamHitIsGood ==
  ASSUME IInv, StreamHit
  PROVE  url' = foundURL[id] /\ url' \in URL /\ foundAge[id] < TTL
<1>1. id \in Id /\ id # None
  BY Constants DEF StreamHit, IInv, Locals
<1>2. PICK s : s = First(With(streamCache, id))
  OBVIOUS
<1>3. s \in 0 .. StreamSlots - 1 /\ streamCache[s].key = id
  BY <1>1, <1>2, FirstWith, Constants DEF StreamHit, IInv, TypeOK, StreamsTrue
<1>4. url' = streamCache[s].val /\ streamCache[s].age < TTL /\ ready
  BY <1>2 DEF StreamHit, StreamSlot, Fresh
<1> QED
  BY <1>1, <1>3, <1>4 DEF IInv, TypeOK, StreamsTrue

-------------------------------------------------------------------------------
(* The actions keep the invariant.                                         *)

\* What the work on a song changes when it ends.
LEMMA DoneIInv ==
  ASSUME IInv, Done, UNCHANGED idVars, StreamsTrue',
         streamCache' \in [0 .. StreamSlots - 1 -> Slot(Id, URL)], UNCHANGED streamNext,
         foundURL' \in [Id -> URL \cup {None}], UNCHANGED foundAge
  PROVE  IInv'
<1>1. pc' = "idle" /\ name' = None /\ id' = None /\ url' = None
  BY DEF Done
<1>2. streamNext' \in 0 .. StreamSlots - 1 /\ foundAge' \in [Id -> 0 .. TTL]
  BY DEF IInv, TypeOK
<1>3. TypeOK'
  BY <1>1, <1>2, SameIds DEF IInv, TypeOK
<1> QED
  BY <1>1, <1>3, SameIds DEF IInv, Locals

\* Storing the ID that was found.
LEMMA SearchFindsCache ==
  ASSUME IInv, NEW d \in Id, SearchFinds(d)
  PROVE  /\ idCache' \in [0 .. IdSlots - 1 -> Slot(Name, Id)]
         /\ idNext' \in 0 .. IdSlots - 1
         /\ IdsTrue'
<1>1. name \in Name /\ name # None /\ d # None
  BY Constants DEF SearchFinds, IInv, Locals
<1>2. foundId' = [foundId EXCEPT ![name] = d]
  BY DEF SearchFinds
<1>3. CASE ready
  <2>1. PICK c, n, k : c = idCache /\ n = idNext /\ k = name
    OBVIOUS
  <2>2. PICK c2, n2 : c2 = idCache' /\ n2 = idNext'
    OBVIOUS
  <2>3. c2 = Stored(c, n, k, d) /\ n2 = Advance(c, n, k)
    BY <1>3, <2>1, <2>2 DEF SearchFinds, Stored
  <2>4. Entry(k, d) \in Slot(Name, Id) /\ Entry(k, d).key = k /\ Entry(k, d).val = d
    BY <1>1, <2>1, Constants DEF Entry, Slot
  <2>5. c \in [0 .. IdSlots - 1 -> Slot(Name, Id)] /\ n \in 0 .. IdSlots - 1
        /\ Distinct(c) /\ k # None /\ IdSlots \in Nat \ {0}
    BY <1>1, <1>3, <2>1, Constants DEF IInv, TypeOK, IdsTrue
  <2>6. /\ SlotFor(c, n, k) \in 0 .. IdSlots - 1
        /\ Distinct(c2)
        /\ \A i \in 0 .. IdSlots - 1 :
             c2[i] = Entry(k, d) \/ (c2[i] = c[i] /\ c[i].key # k)
    <3>1. PICK D : D = 0 .. IdSlots - 1
      OBVIOUS
    <3>2. /\ D \in SUBSET Int /\ DOMAIN c = D /\ n \in D
          /\ Distinct(c) /\ k # None /\ c2 = Stored(c, n, k, d)
      BY <2>3, <2>5, <3>1
    <3>3. SlotFor(c, n, k) \in D /\ Distinct(c2)
      BY <3>2, Put
    <3>4. \A i \in D : c2[i] = Entry(k, d) \/ (c2[i] = c[i] /\ c[i].key # k)
      BY <3>2, Put
    <3> QED
      BY <2>5, <3>1, <3>3, <3>4
  <2>7. n2 \in 0 .. IdSlots - 1
    BY <2>3, <2>5, AdvanceInRange
  <2>8. c2 \in [0 .. IdSlots - 1 -> Slot(Name, Id)]
    BY <2>3, <2>4, <2>5, <2>6 DEF Stored
  <2>9. ASSUME NEW i \in 0 .. IdSlots - 1, c2[i].key # None
        PROVE  c2[i].val = foundId'[c2[i].key] /\ c2[i].val # None
    <3>1. CASE c2[i] = Entry(k, d)
      BY <1>1, <1>2, <2>1, <2>4, <3>1 DEF IInv, TypeOK
    <3>2. CASE c2[i] = c[i] /\ c[i].key # k
      <4>1. c[i].val = foundId[c[i].key] /\ c[i].val # None
        BY <1>3, <2>1, <2>9, <3>2 DEF IInv, IdsTrue
      <4>2. c[i].key \in Name
        BY <2>5, <2>9, <3>2 DEF Slot
      <4> QED
        BY <1>2, <2>1, <3>2, <4>1, <4>2 DEF IInv, TypeOK
    <3> QED
      BY <2>6, <3>1, <3>2
  <2> QED
    BY <2>2, <2>6, <2>7, <2>8, <2>9 DEF IdsTrue
<1>4. CASE ~ready
  BY <1>4 DEF SearchFinds, IInv, TypeOK, IdsTrue, ready
<1> QED
  BY <1>3, <1>4

LEMMA SearchFindsIInv == ASSUME IInv, NEW d \in Id, SearchFinds(d) PROVE IInv'
<1>1. name \in Name
  BY DEF SearchFinds, IInv, Locals
<1>2. foundId' \in [Name -> Id \cup {None}] /\ foundSince' \in [Name -> SUBSET Name]
  BY <1>1 DEF SearchFinds, IInv, TypeOK
<1>3. pc' = "stream" /\ id' = d /\ name' = name /\ url' = url /\ UNCHANGED streamVars
  BY DEF SearchFinds
<1>4. TypeOK'
  BY <1>2, <1>3, SearchFindsCache, SameStreams DEF IInv, TypeOK
<1> QED
  BY <1>1, <1>3, <1>4, SearchFindsCache, SameStreams DEF IInv, Locals

\* Storing the URL that was resolved.
LEMMA ResolvesCache ==
  ASSUME IInv, NEW u \in URL, Resolves(u)
  PROVE  /\ streamCache' \in [0 .. StreamSlots - 1 -> Slot(Id, URL)]
         /\ streamNext' \in 0 .. StreamSlots - 1
         /\ StreamsTrue'
<1>1. id \in Id /\ id # None /\ u # None
  BY Constants DEF Resolves, IInv, Locals
<1>2. foundURL' = [foundURL EXCEPT ![id] = u] /\ foundAge' = [foundAge EXCEPT ![id] = 0]
  BY DEF Resolves
<1>3. CASE ready
  <2>1. PICK c, n, k : c = streamCache /\ n = streamNext /\ k = id
    OBVIOUS
  <2>2. PICK c2, n2 : c2 = streamCache' /\ n2 = streamNext'
    OBVIOUS
  <2>3. c2 = Stored(c, n, k, u) /\ n2 = Advance(c, n, k)
    BY <1>3, <2>1, <2>2 DEF Resolves, Stored
  <2>4. /\ Entry(k, u) \in Slot(Id, URL)
        /\ Entry(k, u).key = k /\ Entry(k, u).val = u /\ Entry(k, u).age = 0
    BY <1>1, <2>1, Constants DEF Entry, Slot
  <2>5. c \in [0 .. StreamSlots - 1 -> Slot(Id, URL)] /\ n \in 0 .. StreamSlots - 1
        /\ Distinct(c) /\ k # None /\ StreamSlots \in Nat \ {0}
    BY <1>1, <1>3, <2>1, Constants DEF IInv, TypeOK, StreamsTrue
  <2>6. /\ SlotFor(c, n, k) \in 0 .. StreamSlots - 1
        /\ Distinct(c2)
        /\ \A i \in 0 .. StreamSlots - 1 :
             c2[i] = Entry(k, u) \/ (c2[i] = c[i] /\ c[i].key # k)
    <3>1. PICK D : D = 0 .. StreamSlots - 1
      OBVIOUS
    <3>2. /\ D \in SUBSET Int /\ DOMAIN c = D /\ n \in D
          /\ Distinct(c) /\ k # None /\ c2 = Stored(c, n, k, u)
      BY <2>3, <2>5, <3>1
    <3>3. SlotFor(c, n, k) \in D /\ Distinct(c2)
      BY <3>2, Put
    <3>4. \A i \in D : c2[i] = Entry(k, u) \/ (c2[i] = c[i] /\ c[i].key # k)
      BY <3>2, Put
    <3> QED
      BY <2>5, <3>1, <3>3, <3>4
  <2>7. n2 \in 0 .. StreamSlots - 1
    BY <2>3, <2>5, AdvanceInRange
  <2>8. c2 \in [0 .. StreamSlots - 1 -> Slot(Id, URL)]
    BY <2>3, <2>4, <2>5, <2>6 DEF Stored
  <2>9. ASSUME NEW i \in 0 .. StreamSlots - 1, c2[i].key # None
        PROVE  /\ c2[i].val = foundURL'[c2[i].key] /\ c2[i].val # None
               /\ c2[i].age = foundAge'[c2[i].key]
    <3>1. CASE c2[i] = Entry(k, u)
      BY <1>1, <1>2, <2>1, <2>4, <3>1 DEF IInv, TypeOK
    <3>2. CASE c2[i] = c[i] /\ c[i].key # k
      <4>1. /\ c[i].val = foundURL[c[i].key] /\ c[i].val # None
            /\ c[i].age = foundAge[c[i].key]
        BY <1>3, <2>1, <2>9, <3>2 DEF IInv, StreamsTrue
      <4>2. c[i].key \in Id
        BY <2>5, <2>9, <3>2 DEF Slot
      <4> QED
        BY <1>2, <2>1, <3>2, <4>1, <4>2 DEF IInv, TypeOK
    <3> QED
      BY <2>6, <3>1, <3>2
  <2> QED
    BY <2>2, <2>6, <2>7, <2>8, <2>9 DEF StreamsTrue
<1>4. CASE ~ready
  BY <1>4 DEF Resolves, IInv, TypeOK, StreamsTrue, ready
<1> QED
  BY <1>3, <1>4

LEMMA ResolvesIInv == ASSUME IInv, NEW u \in URL, Resolves(u) PROVE IInv'
<1>1. id \in Id /\ name \in Name
  BY DEF Resolves, IInv, Locals
<1>2. foundURL' \in [Id -> URL \cup {None}] /\ foundAge' \in [Id -> 0 .. TTL]
  BY <1>1, Constants DEF Resolves, IInv, TypeOK
<1>3. pc' = "download" /\ id' = id /\ name' = name /\ url' = u /\ UNCHANGED idVars
  BY DEF Resolves
<1>4. TypeOK'
  BY <1>2, <1>3, ResolvesCache, SameIds DEF IInv, TypeOK
<1> QED
  BY <1>1, <1>3, <1>4, ResolvesCache, SameIds DEF IInv, Locals

\* Erasing entries leaves the others as they were.
LEMMA StreamExpiredIInv == ASSUME IInv, StreamExpired PROVE IInv'
<1>1. id \in Id /\ id # None /\ name \in Name
  BY Constants DEF StreamExpired, IInv, Locals
<1>2. PICK s : s = StreamSlot
  OBVIOUS
<1>3. s \in 0 .. StreamSlots - 1
  BY <1>1, <1>2, FirstWith, Constants
     DEF StreamExpired, StreamSlot, IInv, TypeOK, StreamsTrue
<1>4. streamCache' = [streamCache EXCEPT ![s] = Empty]
  BY <1>2 DEF StreamExpired
<1>5. Empty \in Slot(Id, URL) /\ Empty.key = None
  BY Constants DEF Empty, Slot
<1>6. streamCache' \in [0 .. StreamSlots - 1 -> Slot(Id, URL)]
  BY <1>3, <1>4, <1>5 DEF IInv, TypeOK
<1>7. /\ pc' = "resolve" /\ id' = id /\ name' = name /\ url' = url
      /\ streamNext' = streamNext /\ foundURL' = foundURL /\ foundAge' = foundAge
      /\ UNCHANGED idVars
  BY DEF StreamExpired
<1>8. StreamsTrue'
  BY <1>3, <1>4, <1>5, <1>7 DEF IInv, TypeOK, StreamsTrue, Distinct, ready
<1>9. TypeOK'
  BY <1>6, <1>7, SameIds DEF IInv, TypeOK
<1> QED
  BY <1>1, <1>7, <1>8, <1>9, SameIds DEF IInv, Locals

LEMMA DownloadFailsIInv == ASSUME IInv, DownloadFails PROVE IInv'
<1>1. url \in URL /\ url # None
  BY Constants DEF DownloadFails, IInv, Locals
<1>2. Empty \in Slot(Id, URL) /\ Empty.key = None
  BY Constants DEF Empty, Slot
<1>3. foundURL' = [d \in Id |-> IF foundURL[d] = url THEN None ELSE foundURL[d]]
      /\ foundURL' \in [Id -> URL \cup {None}]
  BY DEF DownloadFails, IInv, TypeOK
<1>4. foundAge' = foundAge /\ streamNext' = streamNext /\ UNCHANGED idVars /\ Done
  BY DEF DownloadFails
<1>5. ready => streamCache' = [i \in 0 .. StreamSlots - 1 |->
                   IF streamCache[i].val = url THEN Empty ELSE streamCache[i]]
  BY DEF DownloadFails, Invalidated, IInv, TypeOK
<1>6. streamCache' \in [0 .. StreamSlots - 1 -> Slot(Id, URL)]
  <2>1. CASE ready
    BY <1>2, <1>5, <2>1 DEF IInv, TypeOK
  <2>2. CASE ~ready
    BY <2>2 DEF DownloadFails, IInv, TypeOK
  <2> QED
    BY <2>1, <2>2
<1>7. ASSUME ready, NEW i \in 0 .. StreamSlots - 1, streamCache'[i].key # None
      PROVE  /\ streamCache'[i] = streamCache[i]
             /\ streamCache[i].key \in Id
             /\ streamCache[i].val = foundURL'[streamCache[i].key]
             /\ streamCache[i].val # None
             /\ streamCache[i].age = foundAge[streamCache[i].key]
  <2>1. streamCache'[i] = streamCache[i] /\ streamCache[i].val # url
    BY <1>2, <1>5, <1>7
  <2>2. streamCache[i].key \in Id
    BY <1>7, <2>1 DEF IInv, TypeOK, Slot
  <2>3. /\ streamCache[i].val = foundURL[streamCache[i].key]
        /\ streamCache[i].val # None
        /\ streamCache[i].age = foundAge[streamCache[i].key]
    BY <1>7, <2>1 DEF IInv, StreamsTrue
  <2> QED
    BY <1>3, <2>1, <2>2, <2>3
<1>8. StreamsTrue'
  BY <1>4, <1>6, <1>7 DEF IInv, TypeOK, StreamsTrue, Distinct, ready
<1> QED
  BY <1>3, <1>4, <1>6, <1>8, DoneIInv

LEMMA TickIInv == ASSUME IInv, Tick PROVE IInv'
<1>1. \A a \in 0 .. TTL : Older(a) \in 0 .. TTL
  BY Constants DEF Older
<1>2. foundAge' = [d \in Id |-> Older(foundAge[d])] /\ foundAge' \in [Id -> 0 .. TTL]
  BY <1>1 DEF Tick, IInv, TypeOK
<1>3. /\ foundURL' = foundURL /\ streamNext' = streamNext /\ UNCHANGED idVars
      /\ pc' = pc /\ name' = name /\ id' = id /\ url' = url
  BY DEF Tick
<1>4. ASSUME NEW i \in 0 .. StreamSlots - 1
      PROVE  /\ streamCache'[i] \in Slot(Id, URL)
             /\ streamCache'[i].key = streamCache[i].key
             /\ streamCache'[i].val = streamCache[i].val
             /\ streamCache[i].key # None => streamCache'[i].age = Older(streamCache[i].age)
  <2>1. streamCache[i] \in Slot(Id, URL)
        /\ streamCache'[i] = IF streamCache[i].key = None THEN streamCache[i]
                             ELSE [streamCache[i] EXCEPT !.age = Older(@)]
    BY DEF Tick, IInv, TypeOK
  <2> QED
    BY <1>1, <2>1 DEF Slot
<1>5. DOMAIN streamCache' = 0 .. StreamSlots - 1 /\ DOMAIN streamCache = 0 .. StreamSlots - 1
  BY DEF Tick, IInv, TypeOK
<1>6. streamCache' \in [0 .. StreamSlots - 1 -> Slot(Id, URL)]
  <2>1. streamCache' = [i \in 0 .. StreamSlots - 1 |-> streamCache'[i]]
    BY <1>5 DEF Tick
  <2> QED
    BY <1>4, <2>1
<1>7. ASSUME ready, NEW i \in 0 .. StreamSlots - 1, streamCache'[i].key # None
      PROVE  /\ streamCache'[i].val = foundURL[streamCache'[i].key]
             /\ streamCache'[i].val # None
             /\ streamCache'[i].age = foundAge'[streamCache'[i].key]
  <2>1. streamCache[i].key \in Id
    BY <1>4, <1>7 DEF IInv, TypeOK, Slot
  <2> QED
    BY <1>2, <1>4, <1>7, <2>1 DEF IInv, StreamsTrue
<1>8. ready => Distinct(streamCache')
  BY <1>4, <1>5 DEF IInv, StreamsTrue, Distinct
<1>9. StreamsTrue'
  BY <1>3, <1>7, <1>8 DEF StreamsTrue, ready
<1>10. TypeOK'
  BY <1>2, <1>3, <1>6, SameIds DEF IInv, TypeOK
<1> QED
  BY <1>3, <1>9, <1>10, SameIds DEF IInv, Locals

\* Steps of the work that store nothing.
LEMMA OtherStepsIInv ==
  ASSUME IInv,
         (\E n \in Name : Lookup(n)) \/ IdHit \/ IdMiss \/ SearchFails
         \/ StreamHit \/ StreamMiss \/ ResolveFails \/ DownloadSucceeds
  PROVE  IInv'
<1>1. UNCHANGED idVars /\ UNCHANGED streamVars
  BY DEF Lookup, IdHit, IdMiss, SearchFails, StreamHit, StreamMiss, ResolveFails,
         DownloadSucceeds
<1>2. pc' \in {"idle", "id", "search", "stream", "resolve", "download"}
      /\ name' \in Name \cup {None} /\ id' \in Id \cup {None} /\ url' \in URL \cup {None}
      /\ Locals'
  <2>1. CASE \E n \in Name : Lookup(n)
    BY <2>1 DEF IInv, Locals, TypeOK, Lookup
  <2>2. CASE IdHit
    BY <2>2, IdHitIsTrue DEF IInv, Locals, TypeOK, IdHit
  <2>3. CASE IdMiss \/ StreamMiss
    BY <2>3 DEF IInv, Locals, TypeOK, IdMiss, StreamMiss
  <2>4. CASE StreamHit
    BY <2>4, StreamHitIsGood DEF IInv, Locals, TypeOK, StreamHit
  <2>5. CASE SearchFails \/ ResolveFails \/ DownloadSucceeds
    <3>1. pc' = "idle" /\ name' = None /\ id' = None /\ url' = None
      BY <2>5 DEF SearchFails, ResolveFails, DownloadSucceeds, Done
    <3> QED
      BY <3>1 DEF Locals
  <2> QED
    BY <2>1, <2>2, <2>3, <2>4, <2>5
<1>3. TypeOK'
  BY <1>1, <1>2, SameIds, SameStreams DEF IInv, TypeOK
<1> QED
  BY <1>1, <1>2, <1>3, SameIds, SameStreams DEF IInv

LEMMA NextIInv == IInv /\ [Next]_vars => IInv'
<1> SUFFICES ASSUME IInv, [Next]_vars PROVE IInv'
  OBVIOUS
<1>1. CASE UNCHANGED vars
  <2>1. /\ UNCHANGED idVars /\ UNCHANGED streamVars
        /\ pc' = pc /\ name' = name /\ id' = id /\ url' = url
    BY <1>1 DEF vars
  <2> QED
    BY <2>1, SameIds, SameStreams DEF IInv, TypeOK, Locals
<1>2. ASSUME NEW d \in Id, SearchFinds(d) PROVE IInv'
  BY <1>2, SearchFindsIInv
<1>3. ASSUME NEW u \in URL, Resolves(u) PROVE IInv'
  BY <1>3, ResolvesIInv
<1>4. CASE StreamExpired
  BY <1>4, StreamExpiredIInv
<1>5. CASE DownloadFails
  BY <1>5, DownloadFailsIInv
<1>6. CASE Tick
  BY <1>6, TickIInv
<1>7. CASE \/ \E n \in Name : Lookup(n)
           \/ IdHit \/ IdMiss \/ SearchFails
           \/ StreamHit \/ StreamMiss \/ ResolveFails \/ DownloadSucceeds
  BY <1>7, OtherStepsIInv
<1> QED
  BY <1>1, <1>2, <1>3, <1>4, <1>5, <1>6, <1>7 DEF Next

-------------------------------------------------------------------------------
(* The theorems.                                                           *)

\* The invariant holds in every state that can be reached.
THEOREM Invariance == Spec => []IInv
BY InitIInv, NextIInv, PTL DEF Spec

\* Keys, values, ages and the indices of both caches keep their types; in
\* particular qobuz_cache_put_id and qobuz_cache_put_stream stay in their arrays.
THEOREM TypeCorrect == Spec => []TypeOK
<1>1. IInv => TypeOK
  BY DEF IInv
<1> QED
  BY Invariance, <1>1, PTL

\* A URL that qobuz_cache_get_stream gives is the last resolved for its ID, not
\* too old, and no download from it has failed.
THEOREM HitsAreGood == Spec => StreamHitsAreGood
<1>1. IInv /\ [Next]_vars =>
        [pc = "stream" /\ pc' = "download" =>
           url' = foundURL[id] /\ foundAge[id] < TTL]_vars
  <2> SUFFICES ASSUME IInv, Next, pc = "stream", pc' = "download"
               PROVE  url' = foundURL[id] /\ foundAge[id] < TTL
    OBVIOUS
  <2>1. StreamHit
    BY DEF Next, Lookup, IdHit, IdMiss, SearchFails, SearchFinds, StreamExpired,
           StreamMiss, ResolveFails, Resolves, DownloadSucceeds, DownloadFails, Tick, Done
  <2> QED
    BY <2>1, StreamHitIsGood
<1> QED
  BY Invariance, <1>1, PTL DEF Spec, StreamHitsAreGood

\* An ID that qobuz_cache_get_id gives is the one last found for the name.
THEOREM HitsAreTrue == Spec => IdHitsAreTrue
<1>1. IInv /\ [Next]_vars =>
        [pc = "id" /\ pc' = "stream" => id' = foundId[name]]_vars
  <2> SUFFICES ASSUME IInv, Next, pc = "id", pc' = "stream"
               PROVE  id' = foundId[name]
    OBVIOUS
  <2>1. IdHit
    BY DEF Next, Lookup, IdMiss, SearchFails, SearchFinds, StreamHit, StreamExpired,
           StreamMiss, ResolveFails, Resolves, DownloadSucceeds, DownloadFails, Tick, Done
  <2> QED
    BY <2>1, IdHitIsTrue
<1> QED
  BY Invariance, <1>1, PTL DEF Spec, IdHitsAreTrue

-------------------------------------------------------------------------------
(* The order of the requests.                                              *)

Request(tags) == [service : Finder!Service, tag : tags]

\* A sequence that is said twice and then goes on.
LEMMA Twice ==
  ASSUME NEW R, NEW s \in Seq(R), NEW t \in Seq(R)
  PROVE  /\ s \o s \o t \in Seq(R)
         /\ Len(s \o s \o t) = Len(s) + Len(s) + Len(t)
         /\ \A i \in 1 .. Len(s) : (s \o s \o t)[i] = s[i] /\ (s \o s \o t)[Len(s) + i] = s[i]
<1>1. s \o s \in Seq(R) /\ Len(s \o s) = Len(s) + Len(s)
      /\ \A i \in 1 .. Len(s) : (s \o s)[i] = s[i] /\ (s \o s)[Len(s) + i] = s[i]
  OBVIOUS
<1>2. ASSUME NEW a \in Seq(R)
      PROVE  a \o t \in Seq(R) /\ Len(a \o t) = Len(a) + Len(t)
             /\ \A i \in 1 .. Len(a) : (a \o t)[i] = a[i]
  OBVIOUS
<1> QED
  BY <1>1, <1>2

LEMMA FcnIsSeq ==
  ASSUME NEW R, NEW n \in Nat, NEW f \in [1 .. n -> R]
  PROVE  f \in Seq(R) /\ Len(f) = n
<1>1. f \in Seq(R)
  BY SeqDef
<1> QED
  BY <1>1, LenProperties

LEMMA ToIsSeq ==
  ASSUME NEW T, NEW tags \in Seq(T), NEW service \in Finder!Service
  PROVE  /\ Finder!To(service, tags) \in Seq(Request(T))
         /\ Len(Finder!To(service, tags)) = Len(tags)
         /\ \A i \in 1 .. Len(tags) : Finder!To(service, tags)[i].service = service
<1>1. Len(tags) \in Nat /\ DOMAIN tags = 1 .. Len(tags) /\ \A i \in 1 .. Len(tags) : tags[i] \in T
  BY LenProperties, ElementOfSeq
<1>2. Finder!To(service, tags) = [i \in 1 .. Len(tags) |-> [service |-> service, tag |-> tags[i]]]
  BY <1>1 DEF Finder!To
<1>3. Finder!To(service, tags) \in [1 .. Len(tags) -> Request(T)]
  BY <1>1, <1>2 DEF Request
<1>4. Finder!To(service, tags) \in Seq(Request(T)) /\ Len(Finder!To(service, tags)) = Len(tags)
  BY <1>1, <1>3, FcnIsSeq
<1>5. \A i \in 1 .. Len(tags) : Finder!To(service, tags)[i].service = service
  BY <1>2
<1> QED
  BY <1>4, <1>5

\* Three mirrors for each quality, all of them for the first one.
LEMMA ToMirrorsIsSeq ==
  ASSUME NEW T, NEW tags \in Seq(T), tags # <<>>
  PROVE  /\ Finder!ToMirrors(tags) \in Seq(Request(T))
         /\ Len(Finder!ToMirrors(tags)) >= 3
         /\ Finder!ToMirrors(tags)[1].service = "musicdl"
         /\ Finder!ToMirrors(tags)[2].service = "gdstudio.xyz"
         /\ Finder!ToMirrors(tags)[3].service = "gdstudio.org"
         /\ \A i \in 1 .. Len(Finder!ToMirrors(tags)) :
              Finder!ToMirrors(tags)[i].service \in Finder!Public
<1> DEFINE l == Len(tags)
<1>1. l \in Nat /\ l >= 1 /\ \A k \in 1 .. l : tags[k] \in T
  OBVIOUS
<1> HIDE DEF l
<1>2. ASSUME NEW i \in 1 .. 3 * l
      PROVE  (i - 1) \div 3 + 1 \in 1 .. l /\ ((i - 1) % 3) + 1 \in 1 .. 3
  BY <1>1, <1>2
<1>3. \A k \in 1 .. 3 : Finder!Mirrors[k] \in Finder!Service /\ Finder!Mirrors[k] \in Finder!Public
  BY DEF Finder!Mirrors, Finder!Service, Finder!Public
<1>4. Finder!ToMirrors(tags)
        = [i \in 1 .. 3 * l |-> [service |-> Finder!Mirrors[((i - 1) % 3) + 1],
                                 tag     |-> tags[((i - 1) \div 3) + 1]]]
  BY DEF Finder!ToMirrors, l
<1>5. ASSUME NEW i \in 1 .. 3 * l PROVE Finder!ToMirrors(tags)[i] \in Request(T)
  <2>1. tags[((i - 1) \div 3) + 1] \in T /\ Finder!Mirrors[((i - 1) % 3) + 1] \in Finder!Service
    BY <1>1, <1>2, <1>3
  <2> QED
    BY <1>4, <2>1 DEF Request
<1>6. 3 * l \in Nat /\ 3 * l >= 3
  BY <1>1
<1>7. Finder!ToMirrors(tags) \in Seq(Request(T)) /\ Len(Finder!ToMirrors(tags)) = 3 * l
  <2>1. Finder!ToMirrors(tags) \in [1 .. 3 * l -> Request(T)]
    BY <1>4, <1>5
  <2> QED
    BY <1>6, <2>1, FcnIsSeq
<1>8. \A i \in 1 .. 3 : Finder!ToMirrors(tags)[i].service = Finder!Mirrors[((i - 1) % 3) + 1]
  BY <1>4, <1>6
<1>9. \A i \in 1 .. 3 * l : Finder!ToMirrors(tags)[i].service \in Finder!Public
  BY <1>2, <1>3, <1>4
<1> QED
  BY <1>6, <1>7, <1>8, <1>9 DEF Finder!Mirrors

\* What may be asked for that is lossless, and the labels of the services for it.
LosslessAsked == {"hi-res-max", "lossless", "dolby-atmos"}
LosslessTag   == {"24", "16", "27", "7", "6"}
Tag           == LosslessTag \cup {"5", "hi-res-max", "dolby-atmos", "lossless", "high", "low"}

Tags(q) == IF q \in LosslessAsked THEN LosslessTag ELSE LosslessTag \cup {"5"}

LEMMA TagsOf ==
  ASSUME NEW q
  PROVE  /\ Finder!Community(q) \in Seq(Tags(q)) /\ Len(Finder!Community(q)) >= 1
         /\ Finder!Fallbacks(q) \in Seq(Tags(q)) /\ Finder!Fallbacks(q) # <<>>
<1>1. LosslessTag \subseteq Tags(q)
  BY DEF Tags
<1>2. ASSUME NEW a \in {<<"24", "16">>, <<"16", "24">>}
      PROVE  a \o a \o a \in Seq(Tags(q)) /\ Len(a \o a \o a) = 6
  <2>1. "24" \in Tags(q) /\ "16" \in Tags(q)
    BY <1>1 DEF LosslessTag
  <2>2. CASE a = <<"24", "16">>
    BY <2>1, <2>2
  <2>3. CASE a = <<"16", "24">>
    BY <2>1, <2>3
  <2> QED
    BY <2>2, <2>3
<1>3. Finder!Community(q) \in Seq(Tags(q)) /\ Len(Finder!Community(q)) >= 1
  BY <1>2 DEF Finder!Community
<1>4. Finder!Fallbacks(q) \in Seq(Tags(q)) /\ Finder!Fallbacks(q) # <<>>
  <2>1. CASE q \in LosslessAsked
    <3>1. <<"27", "7", "6">> \in Seq(LosslessTag) /\ <<"6">> \in Seq(LosslessTag)
      BY DEF LosslessTag
    <3> QED
      BY <2>1, <3>1 DEF Finder!Fallbacks, Tags, LosslessAsked
  <2>2. CASE q \notin LosslessAsked
    <3>1. "5" \in Tags(q)
      BY <2>2 DEF Tags
    <3>2. <<"5">> \in Seq(Tags(q))
      BY <3>1
    <3> QED
      BY <2>2, <3>2 DEF Finder!Fallbacks, LosslessAsked
  <2> QED
    BY <2>1, <2>2
<1> QED
  BY <1>3, <1>4

\* The requests to the public services: every one that is not switched off is
\* asked, with labels of the quality.
LEMMA DirectIsSeq ==
  ASSUME NEW q
  PROVE  /\ Finder!Direct(q) \in Seq(Request(Tags(q)))
         /\ Len(Finder!Direct(q)) >= 3
         /\ \A service \in Finder!Public : world[service] # "off" =>
              \E i \in 1 .. Len(Finder!Direct(q)) : Finder!Direct(q)[i].service = service
         /\ \A i \in 1 .. Len(Finder!Direct(q)) : Finder!Direct(q)[i].service \in Finder!Public
<1> DEFINE M == Finder!ToMirrors(Finder!Fallbacks(q))
           C == Finder!To("community", Finder!Community(q))
<1>1. /\ M \in Seq(Request(Tags(q))) /\ Len(M) >= 3
      /\ M[1].service = "musicdl" /\ M[2].service = "gdstudio.xyz" /\ M[3].service = "gdstudio.org"
      /\ \A i \in 1 .. Len(M) : M[i].service \in Finder!Public
  BY TagsOf, ToMirrorsIsSeq
<1>2. /\ C \in Seq(Request(Tags(q))) /\ Len(C) >= 1
      /\ C[1].service = "community"
      /\ \A i \in 1 .. Len(C) : C[i].service = "community"
  <2>1. "community" \in Finder!Service
    BY DEF Finder!Service
  <2> QED
    BY <2>1, TagsOf, ToIsSeq
<1>3. Finder!Direct(q) = (IF world["community"] = "off" THEN <<>> ELSE C) \o M
  BY DEF Finder!Direct
<1> HIDE DEF M, C
<1>4. CASE world["community"] = "off"
  <2>1. Finder!Direct(q) = M
    BY <1>1, <1>3, <1>4
  <2> QED
    BY <1>1, <1>4, <2>1 DEF Finder!Public, Finder!Service
<1>5. CASE world["community"] # "off"
  <2>1. Finder!Direct(q) = C \o M
    BY <1>3, <1>5
  <2>2. /\ Finder!Direct(q) \in Seq(Request(Tags(q)))
        /\ Len(Finder!Direct(q)) = Len(C) + Len(M)
        /\ Finder!Direct(q)[1] = C[1]
        /\ \A i \in 1 .. 3 : Finder!Direct(q)[Len(C) + i] = M[i]
    BY <1>1, <1>2, <2>1
  <2>3. 1 \in 1 .. Len(Finder!Direct(q)) /\ \A i \in 1 .. 3 : Len(C) + i \in 1 .. Len(Finder!Direct(q))
    BY <1>1, <1>2, <2>2
  <2>4. \A i \in 1 .. Len(C) : Finder!Direct(q)[i] = C[i]
    BY <1>1, <1>2, <2>1
  <2>5. \A i \in 1 .. Len(M) : Finder!Direct(q)[Len(C) + i] = M[i]
    BY <1>1, <1>2, <2>1
  <2>6. ASSUME NEW i \in 1 .. Len(Finder!Direct(q))
        PROVE  Finder!Direct(q)[i].service \in Finder!Public
    <3>1. Len(C) \in Nat /\ Len(M) \in Nat
      BY <1>1, <1>2
    <3>2. CASE i \in 1 .. Len(C)
      BY <1>2, <2>4, <3>2 DEF Finder!Public, Finder!Service
    <3>3. CASE i - Len(C) \in 1 .. Len(M)
      <4>1. i = Len(C) + (i - Len(C))
        BY <3>1
      <4> QED
        BY <1>1, <2>5, <3>3, <4>1
    <3> QED
      BY <2>2, <3>1, <3>2, <3>3
  <2>7. \A service \in Finder!Public :
          \E i \in 1 .. Len(Finder!Direct(q)) : Finder!Direct(q)[i].service = service
    BY <1>1, <1>2, <2>2, <2>3 DEF Finder!Public, Finder!Service
  <2> QED
    BY <1>1, <1>2, <2>2, <2>6, <2>7
<1> QED
  BY <1>4, <1>5

\* The whole plan: the public services twice, then the resolver of the environment.
LEMMA PlanIsSeq ==
  ASSUME NEW q
  PROVE  /\ \E R : Finder!Plan(q) \in Seq(R)
         /\ Len(Finder!Plan(q)) >= 2 * Len(Finder!Direct(q))
         /\ \A i \in 1 .. Len(Finder!Direct(q)) :
              /\ Finder!Plan(q)[i] = Finder!Direct(q)[i]
              /\ Finder!Plan(q)[Len(Finder!Direct(q)) + i] = Finder!Direct(q)[i]
<1> DEFINE D == Finder!Direct(q)
           E == IF world["custom"] \in {"off", "lucida"} THEN <<>>
                ELSE Finder!To("custom", Finder!CustomFallbacks(q))
           R == Request(Tag)
<1>1. D \in Seq(R)
  <2>1. Tags(q) \subseteq Tag
    BY DEF Tags, Tag
  <2>2. Request(Tags(q)) \subseteq R
    BY <2>1 DEF Request
  <2> QED
    BY <2>2, DirectIsSeq, SeqMonotonic
<1>2. E \in Seq(R)
  <2>1. Finder!CustomFallbacks(q) \in Seq(Tag)
    <3>1. <<"lossless", "high", "low">> \in Seq(Tag) /\ <<"high", "lossless", "low">> \in Seq(Tag)
      BY DEF Tag
    <3>2. <<"low", "high">> \in Seq(Tag)
      BY DEF Tag
    <3>3. <<"dolby-atmos", "hi-res-max", "lossless", "high", "low">> \in Seq(Tag)
      BY DEF Tag
    <3>4. <<"hi-res-max", "lossless", "high", "low">> \in Seq(Tag)
      BY DEF Tag
    <3> QED
      BY <3>1, <3>2, <3>3, <3>4 DEF Finder!CustomFallbacks
  <2>2. "custom" \in Finder!Service
    BY DEF Finder!Service
  <2>3. Finder!To("custom", Finder!CustomFallbacks(q)) \in Seq(R)
    BY <2>1, <2>2, ToIsSeq
  <2> HIDE DEF R
  <2> QED
    BY <2>3
<1>3. Finder!Plan(q) = D \o D \o E
  BY DEF Finder!Plan
<1> HIDE DEF D, E, R
<1>4. Finder!Plan(q) \in Seq(R)
      /\ Len(Finder!Plan(q)) = Len(D) + Len(D) + Len(E)
      /\ \A i \in 1 .. Len(D) : Finder!Plan(q)[i] = D[i] /\ Finder!Plan(q)[Len(D) + i] = D[i]
  BY <1>1, <1>2, <1>3, Twice
<1>5. Len(D) \in Nat /\ Len(E) \in Nat
  BY <1>1, <1>2
<1> QED
  BY <1>4, <1>5 DEF D

-------------------------------------------------------------------------------
(* The lookup: types.                                                      *)

LEMMA FinderConstants ==
  /\ TrackRetries \in Nat /\ MaxLost \in Nat
  /\ \A a \in Answers : a \in Seq(Finder!Candidate) /\ a # <<>>
BY FinderAssumption DEF Finder!StreamLookupAssumption

\* What is asked of whom does not change.
LEMMA SongStays == Finder!Next => UNCHANGED Finder!song
BY DEF Finder!Next, Finder!IdKept, Finder!SearchFinds, Finder!SearchFails, Finder!Match,
       Finder!NoLink, Finder!GetLink, Finder!Save, Finder!TransferFails

LEMMA PlanStays ==
  ASSUME UNCHANGED Finder!song
  PROVE  Finder!Plan(asked)' = Finder!Plan(asked) /\ Finder!Direct(asked)' = Finder!Direct(asked)
BY DEF Finder!song, Finder!Plan, Finder!Direct

LEMMA PlanDomain ==
  /\ DOMAIN Finder!Plan(asked) = 1 .. Len(Finder!Plan(asked))
  /\ Len(Finder!Plan(asked)) \in Nat /\ Len(Finder!Plan(asked)) >= 6
<1>1. Len(Finder!Direct(asked)) \in Nat /\ Len(Finder!Direct(asked)) >= 3
  BY DirectIsSeq, LenProperties
<1> QED
  BY <1>1, PlanIsSeq, LenProperties

\* Where the lookup goes when a key gives nothing.
LEMMA MissedTypes ==
  ASSUME Finder!TypeOK, UNCHANGED Finder!song, Finder!Missed \/ Finder!Retry
  PROVE  /\ at' \in {"search", "failed"} /\ attempt' \in 0 .. TrackRetries /\ key' \in keys'
         /\ step' \in DOMAIN Finder!Plan(asked)' /\ stream' = "none"
<1>1. 1 \in DOMAIN Finder!Plan(asked)'
  BY PlanStays, PlanDomain
<1>2. keys' = keys
  BY DEF Finder!song
<1> QED
  BY <1>1, <1>2, FinderConstants
     DEF Finder!TypeOK, Finder!Missed, Finder!Retry, Finder!FirstKey

LEMMA LoseTypes ==
  ASSUME Finder!TypeOK, Finder!Lose \/ UNCHANGED lost
  PROVE  lost' \in 0 .. MaxLost
BY FinderConstants DEF Finder!TypeOK, Finder!Lose

LEMMA FinderNextTypes ==
  ASSUME Finder!TypeOK, Finder!Next PROVE Finder!TypeOK'
<1>1. UNCHANGED Finder!song
  BY SongStays
<1>2. DOMAIN Finder!Plan(asked)' = DOMAIN Finder!Plan(asked)
  BY <1>1, PlanStays
<1> USE DEF Finder!TypeOK, Finder!song
<1>3. CASE Finder!IdKept
  BY <1>1, <1>2, <1>3 DEF Finder!IdKept
<1>4. CASE Finder!SearchFinds
  BY <1>1, <1>2, <1>4 DEF Finder!SearchFinds
<1>5. CASE Finder!SearchFails
  BY <1>1, <1>5, MissedTypes, LoseTypes DEF Finder!SearchFails
<1>6. CASE Finder!Match
  BY <1>1, <1>2, <1>6, MissedTypes DEF Finder!Match
<1>7. CASE Finder!NoLink
  <2>1. lost' \in 0 .. MaxLost
    BY <1>7, LoseTypes DEF Finder!NoLink
  <2>2. CASE step < Len(Finder!Plan(asked))
    <3>1. step + 1 \in DOMAIN Finder!Plan(asked)
      BY <2>2, PlanDomain
    <3> QED
      BY <1>1, <1>2, <1>7, <2>1, <2>2, <3>1 DEF Finder!NoLink
  <2>3. CASE ~(step < Len(Finder!Plan(asked)))
    BY <1>1, <1>7, <2>1, <2>3, MissedTypes DEF Finder!NoLink
  <2> QED
    BY <2>2, <2>3
<1>8. CASE Finder!GetLink
  <2>1. Finder!Link(Finder!Plan(asked)[step]) \in {"none", "lossless", "lossy", "page"}
    BY DEF Finder!Link
  <2> QED
    BY <1>1, <1>2, <1>8, <2>1 DEF Finder!GetLink
<1>9. CASE Finder!Save
  BY <1>1, <1>2, <1>9 DEF Finder!Save
<1>10. CASE Finder!TransferFails
  BY <1>1, <1>10, MissedTypes, LoseTypes DEF Finder!TransferFails
<1> QED
  BY <1>3, <1>4, <1>5, <1>6, <1>7, <1>8, <1>9, <1>10 DEF Finder!Next

LEMMA FinderInitTypes == ASSUME Finder!Init PROVE Finder!TypeOK
<1>1. 1 \in DOMAIN Finder!Plan(asked)
  BY PlanDomain
<1>2. Finder!FirstKey \in keys
  BY DEF Finder!Init, Finder!FirstKey
<1> QED
  BY <1>1, <1>2, FinderConstants DEF Finder!Init, Finder!TypeOK

LEMMA FinderStutters ==
  ASSUME Finder!TypeOK, UNCHANGED Finder!vars PROVE Finder!TypeOK'
<1>1. UNCHANGED Finder!song
  BY DEF Finder!vars
<1> QED
  BY <1>1, PlanStays DEF Finder!vars, Finder!song, Finder!TypeOK

\* Types of the lookup; in particular, only a request of the plan is made and only
\* an ID that the song has is used.
THEOREM FinderTypeCorrect == Finder!Spec => []Finder!TypeOK
<1>1. Finder!Init => Finder!TypeOK
  BY FinderInitTypes
<1>2. Finder!TypeOK /\ [Finder!Next]_(Finder!vars) => Finder!TypeOK'
  BY FinderNextTypes, FinderStutters
<1> QED
  BY <1>1, <1>2, PTL DEF Finder!Spec

-------------------------------------------------------------------------------
(* The choice.                                                             *)

\* Of some natural numbers there is a least one.
LEMMA LeastNumber ==
  ASSUME NEW T \in SUBSET Nat, T # {}
  PROVE  \E x \in T : \A y \in T : x <= y
<1>1. PICK x \in T : \A y \in T : ~(<<y, x>> \in OpToRel(<, Nat))
  BY NatLessThanWellFounded, WFMin
<1>2. \A y \in T : <<y, x>> \in OpToRel(<, Nat) <=> y < x
  BY DEF OpToRel
<1>3. \A y \in T : ~(y < x)
  BY <1>1, <1>2
<1> QED
  BY <1>3

\* A share of the words, as a whole number of the points for all of them.
LEMMA Share ==
  ASSUME NEW hits \in Nat, NEW words \in Nat \ {0}, hits <= words, NEW most \in {25, 50}
  PROVE  /\ (most * hits) \div words \in 0 .. most
         /\ (most * hits) \div words = most <=> hits = words
         /\ hits = 0 => (most * hits) \div words = 0
         /\ 10 * ((most * hits) \div words) >= 7 * most => 10 * hits >= 7 * words
<1> DEFINE q == (most * hits) \div words
<1>1. q \in Int /\ words * q <= most * hits /\ most * hits < words * q + words
  OBVIOUS
<1> HIDE DEF q
<1>2. q >= 0
  <2> SUFFICES ASSUME q <= -1 PROVE FALSE
    BY <1>1
  <2>1. words * q <= -words
    BY <1>1
  <2> QED
    BY <1>1, <2>1
<1>3. q <= most
  <2> SUFFICES ASSUME q >= most + 1 PROVE FALSE
    BY <1>1
  <2>1. words * q >= words * (most + 1)
    BY <1>1
  <2> QED
    BY <1>1, <2>1
<1>4. q = most <=> hits = words
  <2>1. q = most => hits = words
    BY <1>1
  <2>2. hits = words => q = most
    <3> SUFFICES ASSUME hits = words, q <= most - 1 PROVE FALSE
      BY <1>1, <1>3
    <3>1. words * q <= words * (most - 1)
      BY <1>1
    <3> QED
      BY <1>1, <3>1
  <2> QED
    BY <2>1, <2>2
<1>5. hits = 0 => q = 0
  <2> SUFFICES ASSUME hits = 0, q >= 1 PROVE FALSE
    BY <1>1, <1>2
  <2>1. words * q >= words
    BY <1>1
  <2> QED
    BY <1>1, <2>1
<1>6. 10 * q >= 7 * most => 10 * hits >= 7 * words
  <2> SUFFICES ASSUME 10 * q >= 7 * most PROVE 10 * hits >= 7 * words
    OBVIOUS
  <2>1. words * (10 * q) >= words * (7 * most)
    BY <1>1
  <2>2. words * (10 * q) = 10 * (words * q)
    BY <1>1
  <2> QED
    BY <1>1, <2>1, <2>2
<1> QED
  BY <1>2, <1>3, <1>4, <1>5, <1>6, <1>1 DEF q

\* What the points for a title or an artist say of it.
LEMMA OverlapTells ==
  ASSUME NEW m \in Finder!Matching, NEW most \in {25, 50}
  PROVE  /\ Finder!Overlap(m, most) \in 0 .. most
         /\ m.kind = "same" => Finder!Overlap(m, most) = most
         /\ Finder!Overlap(m, most) = most => Finder!AllWords(m)
         /\ 10 * Finder!Overlap(m, most) >= 7 * most => Finder!MostWords(m)
         /\ Finder!Overlap(m, most) > 0 => Finder!AnyWord(m)
<1>1. m.kind \in {"same", "within", "words", "blank"} /\ m.hits \in Nat /\ m.words \in Nat
      /\ m.hits <= m.words
  BY DEF Finder!Matching
<1>2. CASE m.kind = "same"
  BY <1>2 DEF Finder!Overlap, Finder!AllWords, Finder!MostWords, Finder!AnyWord
<1>3. CASE m.kind = "within"
  <2>1. Finder!Overlap(m, most) = (most * 3) \div 4
    BY <1>3 DEF Finder!Overlap
  <2>2. (most * 3) \div 4 \in 0 .. most /\ (most * 3) \div 4 # most
    OBVIOUS
  <2> QED
    BY <1>3, <2>1, <2>2 DEF Finder!MostWords, Finder!AnyWord
<1>4. CASE m.kind = "words" /\ m.words > 0
  <2>1. Finder!Overlap(m, most) = (most * m.hits) \div m.words
    BY <1>4 DEF Finder!Overlap
  <2> DEFINE q == (most * m.hits) \div m.words
  <2>2. /\ q \in 0 .. most
        /\ q = most <=> m.hits = m.words
        /\ m.hits = 0 => q = 0
        /\ 10 * q >= 7 * most => 10 * m.hits >= 7 * m.words
    BY <1>1, <1>4, Share
  <2> HIDE DEF q
  <2>3. Finder!Overlap(m, most) = q
    BY <2>1 DEF q
  <2> QED
    BY <1>1, <1>4, <2>2, <2>3 DEF Finder!AllWords, Finder!MostWords, Finder!AnyWord
<1>5. CASE ~(m.kind \in {"same", "within"} \/ (m.kind = "words" /\ m.words > 0))
  <2>1. Finder!Overlap(m, most) = 0
    BY <1>5 DEF Finder!Overlap
  <2> QED
    BY <1>5, <2>1
<1> QED
  BY <1>2, <1>3, <1>4, <1>5

LEMMA ScoreRange ==
  ASSUME NEW c \in Finder!Candidate
  PROVE  Finder!Score(c) \in Int /\ Finder!Score(c) <= 100
<1>1. c.diff \in Int /\ c.title \in Finder!Matching /\ c.artist \in Finder!Matching
  BY DEF Finder!Candidate
<1>2. Finder!Timing(c.diff) \in Int /\ Finder!Timing(c.diff) <= 25
  BY <1>1 DEF Finder!Timing
<1>3. Finder!Overlap(c.title, 50) \in 0 .. 50 /\ Finder!Overlap(c.artist, 25) \in 0 .. 25
  BY <1>1, OverlapTells
<1> QED
  BY <1>2, <1>3 DEF Finder!Score

\* Best is one of those that were found: none of them has a better score, and none
\* before it has the same.
LEMMA BestIsBest ==
  ASSUME NEW found \in Seq(Finder!Candidate), found # <<>>
  PROVE  /\ Finder!Best(found) \in Finder!Candidate
         /\ \A i \in DOMAIN found : Finder!Score(Finder!Best(found)) >= Finder!Score(found[i])
         /\ \A i \in DOMAIN found :
              Finder!Score(found[i]) = Finder!Score(Finder!Best(found)) =>
                \E j \in 1 .. i : found[j] = Finder!Best(found)
<1> DEFINE S == [i \in DOMAIN found |-> Finder!Score(found[i])]
           Short == {100 - S[i] : i \in DOMAIN found}
<1>1. DOMAIN found = 1 .. Len(found) /\ Len(found) \in Nat \ {0}
  BY LenProperties, EmptySeq
<1>2. \A i \in DOMAIN found : found[i] \in Finder!Candidate /\ S[i] \in Int /\ S[i] <= 100
  <2>1. \A i \in DOMAIN found : found[i] \in Finder!Candidate
    BY <1>1, ElementOfSeq
  <2> QED
    BY <2>1, ScoreRange
<1> HIDE DEF S
<1>3. PICK m \in DOMAIN found : \A j \in DOMAIN found : S[m] >= S[j]
  <2>1. ASSUME NEW y \in Short PROVE y \in Nat
    <3>1. PICK i \in DOMAIN found : y = 100 - S[i]
      OBVIOUS
    <3> QED
      BY <1>2, <3>1
  <2>2. Short # {}
    <3>1. 100 - S[1] \in Short
      BY <1>1
    <3> QED
      BY <3>1
  <2>3. PICK x \in Short : \A y \in Short : x <= y
    BY <2>1, <2>2, LeastNumber
  <2>4. PICK m \in DOMAIN found : x = 100 - S[m]
    BY <2>3
  <2>5. ASSUME NEW j \in DOMAIN found PROVE S[m] >= S[j]
    <3>1. 100 - S[j] \in Short
      OBVIOUS
    <3>2. 100 - S[m] <= 100 - S[j]
      BY <2>3, <2>4, <3>1
    <3>3. S[j] \in Int /\ S[m] \in Int
      BY <1>2
    <3> QED
      BY <3>2, <3>3
  <2> QED
    BY <2>5
<1> DEFINE Top == {i \in DOMAIN found : S[i] = S[m]}
<1>4. PICK first \in Top : \A j \in Top : first <= j
  <2>1. Top \subseteq Nat /\ Top # {}
    BY <1>1, <1>3
  <2> HIDE DEF Top
  <2> QED
    BY <2>1, LeastNumber
<1> DEFINE IsBest(i) == /\ \A j \in DOMAIN found : S[i] >= S[j]
                        /\ \A j \in 1 .. i - 1 : S[i] > S[j]
<1>5. IsBest(first)
  <2>1. S[first] = S[m] /\ first \in DOMAIN found
    BY <1>4
  <2>2. \A j \in DOMAIN found : S[first] >= S[j]
    BY <1>3, <2>1
  <2>3. ASSUME NEW j \in 1 .. first - 1 PROVE S[first] > S[j]
    <3>1. j \in DOMAIN found /\ j < first
      BY <1>1, <2>1
    <3>2. S[j] # S[m]
      BY <1>4, <3>1
    <3>3. S[j] \in Int /\ S[m] \in Int /\ S[m] >= S[j]
      BY <1>2, <1>3, <3>1
    <3> QED
      BY <2>1, <3>2, <3>3
  <2> QED
    BY <2>2, <2>3
<1> DEFINE b == CHOOSE i \in DOMAIN found : IsBest(i)
<1>6. b \in DOMAIN found /\ IsBest(b)
  BY <1>4, <1>5
<1>7. Finder!Best(found) = found[b]
  <2>1. \A i \in DOMAIN found : S[i] = Finder!Score(found[i])
    BY DEF S
  <2>2. \A i \in DOMAIN found : \A j \in 1 .. i - 1 : j \in DOMAIN found
    BY <1>1
  <2>3. \A i \in DOMAIN found :
          IsBest(i) <=> /\ \A j \in DOMAIN found : Finder!Score(found[i]) >= Finder!Score(found[j])
                        /\ \A j \in 1 .. i - 1 : Finder!Score(found[i]) > Finder!Score(found[j])
    BY <2>1, <2>2
  <2> QED
    BY <2>3 DEF Finder!Best
<1>8. ASSUME NEW i \in DOMAIN found, S[i] = S[b] PROVE b \in 1 .. i
  <2>1. S[i] \in Int /\ S[b] \in Int
    BY <1>2, <1>6
  <2>2. ~(i < b)
    BY <1>1, <1>6, <1>8, <2>1
  <2> QED
    BY <1>1, <1>6, <2>2
<1>9. \A i \in DOMAIN found : S[i] = Finder!Score(found[i])
  BY DEF S
<1> HIDE DEF b
<1>10. ASSUME NEW i \in DOMAIN found, Finder!Score(found[i]) = Finder!Score(Finder!Best(found))
       PROVE  \E j \in 1 .. i : found[j] = Finder!Best(found)
  BY <1>6, <1>7, <1>8, <1>9, <1>10
<1>11. \A i \in DOMAIN found : Finder!Score(Finder!Best(found)) >= Finder!Score(found[i])
  BY <1>6, <1>7, <1>9
<1> QED
  BY <1>2, <1>6, <1>7, <1>10, <1>11

\* What a score says of a song.
LEMMA ScoreTells ==
  ASSUME NEW c \in Finder!Candidate
  PROVE  /\ Finder!Exact(c, 2) => Finder!Score(c) = 100
         /\ Finder!Score(c) >= 100 =>
              Finder!AllWords(c.title) /\ Finder!AllWords(c.artist) /\ c.diff \in 0 .. 2
         /\ Finder!Exact(c, 8) => Finder!Score(c) >= 85
         /\ Finder!Score(c) >= 85 =>
              Finder!MostWords(c.title) /\ Finder!AnyWord(c.artist) /\ c.diff \in 0 .. 8
         /\ Finder!Score(c) >= 55 => Finder!AnyWord(c.title)
<1> DEFINE t == Finder!Overlap(c.title, 50)
           a == Finder!Overlap(c.artist, 25)
           d == Finder!Timing(c.diff)
<1>1. c.diff \in Int /\ c.title \in Finder!Matching /\ c.artist \in Finder!Matching
  BY DEF Finder!Candidate
<1>2. /\ t \in 0 .. 50
      /\ c.title.kind = "same" => t = 50
      /\ t = 50 => Finder!AllWords(c.title)
      /\ 10 * t >= 350 => Finder!MostWords(c.title)
      /\ t > 0 => Finder!AnyWord(c.title)
  BY <1>1, OverlapTells
<1>3. /\ a \in 0 .. 25
      /\ c.artist.kind = "same" => a = 25
      /\ a = 25 => Finder!AllWords(c.artist)
      /\ a > 0 => Finder!AnyWord(c.artist)
  BY <1>1, OverlapTells
<1>4. /\ d \in Int /\ d <= 25
      /\ d >= 25 <=> c.diff \in 0 .. 2
      /\ d >= 10 <=> c.diff \in 0 .. 8
  <2>1. CASE c.diff < 0
    BY <1>1, <2>1 DEF Finder!Timing
  <2>2. CASE c.diff \in 0 .. 2
    BY <2>2 DEF Finder!Timing
  <2>3. CASE c.diff \in 3 .. 8
    BY <2>3 DEF Finder!Timing
  <2>4. CASE c.diff > 8
    BY <1>1, <2>4 DEF Finder!Timing
  <2> QED
    BY <1>1, <2>1, <2>2, <2>3, <2>4
<1>5. Finder!Score(c) = t + a + d
  BY DEF Finder!Score
<1> HIDE DEF t, a, d
<1> QED
  BY <1>2, <1>3, <1>4, <1>5 DEF Finder!Exact

\* Whatever a search by title finds, in whichever order, for any number of songs:
\* the right one is passed over only for one before it with all its words and its
\* length, and under the strict match none of the wrong length, or without a word
\* of the title, is taken.
THEOREM RightSong == Finder!Spec => []RightSongChosen
<1>1. Finder!TypeOK => Finder!RightSongChosen
  <2> SUFFICES ASSUME Finder!TypeOK, at = "match", key = "title",
                      Finder!Confident(Finder!Best(answer))
               PROVE  LET best == Finder!Best(answer)
                      IN  /\ \A i \in DOMAIN answer : Finder!Exact(answer[i], 2) =>
                               /\ Finder!AllWords(best.title) /\ Finder!AllWords(best.artist)
                               /\ best.diff \in 0 .. 2
                               /\ \E j \in 1 .. i : answer[j] = best
                          /\ (\E i \in DOMAIN answer : Finder!Exact(answer[i], 8)) =>
                               /\ Finder!MostWords(best.title) /\ Finder!AnyWord(best.artist)
                               /\ best.diff \in 0 .. 8
                          /\ strict => best.diff <= 8 /\ Finder!AnyWord(best.title)
    BY DEF Finder!RightSongChosen
  <2> DEFINE best == Finder!Best(answer)
  <2>1. answer \in Seq(Finder!Candidate) /\ answer # <<>>
    BY FinderConstants DEF Finder!TypeOK
  <2>2. \A i \in DOMAIN answer : answer[i] \in Finder!Candidate
    BY <2>1, LenProperties, ElementOfSeq
  <2>3. /\ best \in Finder!Candidate
        /\ \A i \in DOMAIN answer : Finder!Score(best) >= Finder!Score(answer[i])
        /\ \A i \in DOMAIN answer : Finder!Score(answer[i]) = Finder!Score(best) =>
             \E j \in 1 .. i : answer[j] = best
    BY <2>1, BestIsBest
  <2> HIDE DEF best
  <2>4. /\ Finder!Score(best) \in Int /\ Finder!Score(best) <= 100
        /\ \A i \in DOMAIN answer : Finder!Score(answer[i]) \in Int
    BY <2>2, <2>3, ScoreRange
  <2>5. ASSUME NEW i \in DOMAIN answer, Finder!Exact(answer[i], 2)
        PROVE  /\ Finder!AllWords(best.title) /\ Finder!AllWords(best.artist)
               /\ best.diff \in 0 .. 2
               /\ \E j \in 1 .. i : answer[j] = best
    <3>1. Finder!Score(answer[i]) = 100
      BY <2>2, <2>5, ScoreTells
    <3>2. Finder!Score(best) = 100
      BY <2>3, <2>4, <3>1
    <3> QED
      BY <2>3, <3>1, <3>2, ScoreTells
  <2>6. ASSUME NEW i \in DOMAIN answer, Finder!Exact(answer[i], 8)
        PROVE  /\ Finder!MostWords(best.title) /\ Finder!AnyWord(best.artist)
               /\ best.diff \in 0 .. 8
    <3>1. Finder!Score(best) >= 85
      BY <2>2, <2>3, <2>4, <2>6, ScoreTells
    <3> QED
      BY <2>3, <3>1, ScoreTells
  <2>7. strict => best.diff <= 8 /\ Finder!AnyWord(best.title)
    BY <2>3, ScoreTells DEF Finder!Confident, best
  <2> QED
    BY <2>5, <2>6, <2>7 DEF best
<1> QED
  BY <1>1, FinderTypeCorrect, PTL DEF RightSongChosen

-------------------------------------------------------------------------------
(* Lossy streams.                                                          *)

\* A link leads to what the request was for.
Linked == at \in {"transfer", "saved"} => stream = Finder!Link(Finder!Plan(asked)[step])

\* A service that has the song lossless was asked for it, and its answer was lost,
\* as often as the plan has come past its request.
Owed ==
  at \notin {"failed"} =>
    \A i \in 1 .. Len(Finder!Direct(asked)) :
      Finder!HasLossless(Finder!Direct(asked)[i].service) =>
        /\ step > i => lost >= 1
        /\ step > Len(Finder!Direct(asked)) + i => lost >= 2

LEMMA DirectLength == Len(Finder!Direct(asked)) \in Nat
BY DirectIsSeq, LenProperties

\* None of the labels for a lossless quality is that of a lossy one: only a service
\* that does not mind what it is asked for answers with a lossy stream.
LEMMA DirectLossless ==
  ASSUME asked \in LosslessAsked, NEW i \in 1 .. Len(Finder!Direct(asked))
  PROVE  /\ Finder!Direct(asked)[i].tag \notin Finder!Lossy
         /\ Finder!Link(Finder!Direct(asked)[i]) = "lossy" =>
              /\ Finder!Direct(asked)[i].service \in Finder!Public
              /\ world[Finder!Direct(asked)[i].service] = "downgrade"
         /\ Finder!HasLossless(Finder!Direct(asked)[i].service) =>
              Finder!Link(Finder!Direct(asked)[i]) # "none"
<1>1. Finder!Direct(asked)[i] \in Request(LosslessTag)
  BY DirectIsSeq, ElementOfSeq DEF Tags
<1>2. Finder!Direct(asked)[i].tag \notin Finder!Lossy
  BY <1>1 DEF Request, LosslessTag, Finder!Lossy
<1>3. Finder!Direct(asked)[i].service \in Finder!Public
  BY DirectIsSeq
<1> QED
  BY <1>2, <1>3 DEF Finder!Link, Finder!HasLossless

\* Every attempt, and every key of it, goes through the plan from the start.
LEMMA OwedFromStart ==
  ASSUME step' = 1 PROVE Owed'
<1>1. (Len(Finder!Direct(asked)) \in Nat)'
  BY DirectLength, PTL
<1> QED
  BY <1>1 DEF Owed

LEMMA MissedFromStart == Finder!Missed \/ Finder!Retry => step' = 1 /\ at' \in {"search", "failed"}
BY DEF Finder!Missed, Finder!Retry

LEMMA OwedKept ==
  ASSUME Finder!TypeOK, Owed, UNCHANGED Finder!song, step' = step, at # "failed",
         lost' \in Nat, lost' >= lost
  PROVE  Owed'
<1>1. Finder!Direct(asked)' = Finder!Direct(asked) /\ world' = world
  BY PlanStays DEF Finder!song
<1>2. lost \in Nat
  BY DEF Finder!TypeOK
<1> QED
  BY <1>1, <1>2, DirectLength DEF Owed, Finder!HasLossless

LEMMA OwedNext ==
  ASSUME Finder!TypeOK, asked \in LosslessAsked, Owed, Finder!NoLink,
         step < Len(Finder!Plan(asked))
  PROVE  Owed'
<1> DEFINE D == Finder!Direct(asked)
           n == Len(D)
<1>1. step' = step + 1 /\ at = "ask" /\ UNCHANGED Finder!song
  BY DEF Finder!NoLink
<1>2. D' = D /\ world' = world /\ n' = n
  BY <1>1, PlanStays DEF Finder!song
<1>3. /\ n \in Nat /\ step \in Nat /\ lost \in Nat
      /\ lost' \in Nat /\ lost' >= lost
      /\ Finder!Link(Finder!Plan(asked)[step]) # "none" => lost' = lost + 1
  <2>1. n \in Nat /\ step \in Nat /\ lost \in Nat
    BY DirectLength, PlanDomain DEF Finder!TypeOK
  <2> QED
    BY <2>1 DEF Finder!NoLink, Finder!Lose
<1>4. \A i \in 1 .. n : Finder!Plan(asked)[i] = D[i] /\ Finder!Plan(asked)[n + i] = D[i]
  BY PlanIsSeq
<1>5. \A i \in 1 .. n : Finder!HasLossless(D[i].service) => Finder!Link(D[i]) # "none"
  BY DirectLossless
<1>6. \A i \in 1 .. n : Finder!HasLossless(D[i].service) =>
        (step > i => lost >= 1) /\ (step > n + i => lost >= 2)
  BY <1>1 DEF Owed
<1> SUFFICES ASSUME NEW i \in 1 .. n, Finder!HasLossless(D[i].service)
             PROVE  (step + 1 > i => lost' >= 1) /\ (step + 1 > n + i => lost' >= 2)
  BY <1>1, <1>2 DEF Owed, Finder!HasLossless
<1> HIDE DEF D, n
<1>7. step = i => lost' >= 1
  BY <1>3, <1>4, <1>5
<1>8. step = n + i => lost' >= 2
  <2> SUFFICES ASSUME step = n + i PROVE lost' >= 2
    OBVIOUS
  <2>1. lost >= 1
    BY <1>3, <1>6
  <2>2. lost' = lost + 1
    BY <1>3, <1>4, <1>5
  <2> QED
    BY <1>3, <2>1, <2>2
<1> QED
  BY <1>3, <1>6, <1>7, <1>8

LEMMA OwedInvariant ==
  ASSUME Finder!TypeOK, asked \in LosslessAsked, Owed, Finder!Next
  PROVE  Owed'
<1>1. UNCHANGED Finder!song
  BY SongStays
<1>2. lost \in Nat
  BY DEF Finder!TypeOK
<1>3. CASE Finder!IdKept
  BY <1>1, <1>2, <1>3, OwedKept DEF Finder!IdKept
<1>4. CASE Finder!SearchFinds
  BY <1>1, <1>2, <1>4, OwedKept DEF Finder!SearchFinds
<1>5. CASE Finder!SearchFails
  BY <1>5, MissedFromStart, OwedFromStart DEF Finder!SearchFails
<1>6. CASE Finder!Match
  BY <1>1, <1>2, <1>6, OwedKept, MissedFromStart, OwedFromStart DEF Finder!Match
<1>7. CASE Finder!NoLink
  <2>1. CASE step < Len(Finder!Plan(asked))
    BY <1>7, <2>1, OwedNext
  <2>2. CASE ~(step < Len(Finder!Plan(asked)))
    BY <1>7, <2>2, MissedFromStart, OwedFromStart DEF Finder!NoLink
  <2> QED
    BY <2>1, <2>2
<1>8. CASE Finder!GetLink
  BY <1>1, <1>2, <1>8, OwedKept DEF Finder!GetLink
<1>9. CASE Finder!Save
  BY <1>1, <1>2, <1>9, OwedKept DEF Finder!Save
<1>10. CASE Finder!TransferFails
  BY <1>10, MissedFromStart, OwedFromStart DEF Finder!TransferFails
<1> QED
  BY <1>3, <1>4, <1>5, <1>6, <1>7, <1>8, <1>9, <1>10 DEF Finder!Next

LEMMA LinkedInvariant ==
  ASSUME Linked, Finder!Next
  PROVE  Linked'
<1>1. UNCHANGED Finder!song
  BY SongStays
<1>2. Finder!Plan(asked)' = Finder!Plan(asked) /\ world' = world
  BY <1>1, PlanStays DEF Finder!song
<1>3. \A r : Finder!Link(r)' = Finder!Link(r)
  BY <1>2 DEF Finder!Link
<1>4. CASE Finder!IdKept \/ Finder!SearchFinds \/ Finder!SearchFails \/ Finder!Match
           \/ Finder!NoLink \/ Finder!TransferFails
  <2>1. at' \in {"search", "match", "ask", "failed"}
    BY <1>4, MissedFromStart DEF Finder!IdKept, Finder!SearchFinds, Finder!SearchFails,
           Finder!Match, Finder!NoLink, Finder!TransferFails
  <2> QED
    BY <2>1 DEF Linked
<1>5. CASE Finder!GetLink
  BY <1>2, <1>3, <1>5 DEF Finder!GetLink, Linked
<1>6. CASE Finder!Save
  BY <1>2, <1>3, <1>6 DEF Finder!Save, Linked
<1> QED
  BY <1>4, <1>5, <1>6 DEF Finder!Next

\* Whoever asks for a lossless stream gets a lossy one only when every public
\* service that has the song lossless lost its answer, and in the end two were lost,
\* or from a public service that links to a lossy stream whatever it is asked for:
\* for any services, any number of attempts and any losses.
THEOREM LossyLast == Finder!Spec => []LossyOnlyAsLastResort
<1> DEFINE Inv == Finder!TypeOK /\ Linked /\ (asked \in LosslessAsked => Owed)
<1>1. Finder!Init => Inv
  <2> SUFFICES ASSUME Finder!Init PROVE Inv
    OBVIOUS
  <2>1. Linked
    BY DEF Finder!Init, Linked
  <2>2. Owed
    BY DirectLength DEF Finder!Init, Owed
  <2> QED
    BY <2>1, <2>2, FinderInitTypes
<1>2. Inv /\ [Finder!Next]_(Finder!vars) => Inv'
  <2> SUFFICES ASSUME Inv, [Finder!Next]_(Finder!vars) PROVE Inv'
    OBVIOUS
  <2>1. CASE Finder!Next
    <3>1. asked' = asked
      BY <2>1, SongStays DEF Finder!song
    <3> QED
      BY <2>1, <3>1, FinderNextTypes, LinkedInvariant, OwedInvariant
  <2>2. CASE UNCHANGED Finder!vars
    <3>1. UNCHANGED Finder!song /\ at' = at /\ stream' = stream /\ step' = step /\ lost' = lost
          /\ world' = world /\ asked' = asked
      BY <2>2 DEF Finder!vars, Finder!song
    <3>2. Finder!Plan(asked)' = Finder!Plan(asked) /\ Finder!Direct(asked)' = Finder!Direct(asked)
      BY <3>1, PlanStays
    <3>3. Linked'
      BY <3>1, <3>2 DEF Linked, Finder!Link
    <3>4. asked \in LosslessAsked => Owed'
      BY <3>1, <3>2 DEF Owed, Finder!HasLossless
    <3> QED
      BY <2>2, <3>1, <3>3, <3>4, FinderStutters
  <2> QED
    BY <2>1, <2>2
<1>3. Inv => LossyOnlyAsLastResort
  <2> DEFINE n == Len(Finder!Direct(asked))
             fooled == Finder!Plan(asked)[step].service
                         \in {s \in Finder!Public : world[s] = "downgrade"}
  <2> SUFFICES ASSUME Inv, at = "saved", stream = "lossy", asked \in LosslessAsked,
                      NEW i \in 1 .. n, Finder!HasLossless(Finder!Direct(asked)[i].service)
               PROVE  (fooled /\ (i < step => lost >= 1)) \/ (i < step /\ lost >= 2)
    <3>1. DOMAIN Finder!Direct(asked) = 1 .. n
      BY DirectIsSeq, LenProperties
    <3> QED
      BY <3>1 DEF LossyOnlyAsLastResort, Finder!LossyOnlyAsLastResort, LosslessAsked,
                  Finder!LosslessAsked
  <2>1. n \in Nat /\ step \in Nat /\ step >= 1
    BY DirectLength, PlanDomain DEF Finder!TypeOK
  <2>2. Finder!Link(Finder!Plan(asked)[step]) = "lossy"
    BY DEF Linked
  <2>3. \A k \in 1 .. n : /\ Finder!Plan(asked)[k] = Finder!Direct(asked)[k]
                          /\ Finder!Plan(asked)[n + k] = Finder!Direct(asked)[k]
    BY PlanIsSeq
  <2>4. (step > i => lost >= 1) /\ (step > n + i => lost >= 2)
    BY DEF Owed
  <2>5. ~fooled => \A k \in 1 .. n : step # k /\ step # n + k
    BY <2>2, <2>3, DirectLossless
  <2> HIDE DEF n, fooled
  <2>6. ~fooled => step > 2 * n
    <3> SUFFICES ASSUME ~fooled PROVE step > 2 * n
      OBVIOUS
    <3>1. step \notin 1 .. n
      BY <2>5
    <3>2. step - n \notin 1 .. n
      <4> SUFFICES ASSUME step - n \in 1 .. n PROVE FALSE
        OBVIOUS
      <4>1. step = n + (step - n)
        BY <2>1
      <4> QED
        BY <2>5, <4>1
    <3> QED
      BY <2>1, <3>1, <3>2
  <2> QED
    BY <2>1, <2>4, <2>6
<1> QED
  BY <1>1, <1>2, <1>3, PTL DEF Finder!Spec

-------------------------------------------------------------------------------
(* Giving up.                                                              *)

\* Nothing was lost in this attempt: Qobuz does not have the song under the key
\* that was left, and no request so far had a link.
OnTrack ==
  /\ key = "title" => "isrc" \notin known
  /\ at \in {"ask", "transfer"} =>
       \A j \in 1 .. step - 1 : Finder!Link(Finder!Plan(asked)[j]) = "none"

\* Every attempt that is over has lost something, and the present one is on its
\* track until it does.
Paid ==
  /\ at = "failed" => lost > TrackRetries
  /\ at # "failed" => lost >= attempt /\ (lost = attempt => OnTrack)

LEMMA ServableStays ==
  ASSUME UNCHANGED Finder!song PROVE Finder!Servable' <=> Finder!Servable
<1>1. Finder!Plan(asked)' = Finder!Plan(asked)
  BY PlanStays
<1> QED
  BY <1>1 DEF Finder!song, Finder!Servable, Finder!Link

\* The attempts are made one after the other, and each begins on the track.
LEMMA PaidRetry ==
  ASSUME Finder!TypeOK, Finder!Retry, lost' \in Nat, lost' > attempt,
         UNCHANGED Finder!song
  PROVE  Paid'
<1>1. attempt \in Nat /\ TrackRetries \in Nat /\ attempt <= TrackRetries
      /\ keys \subseteq {"isrc", "title"} /\ known \subseteq keys
  BY FinderConstants DEF Finder!TypeOK
<1>2. CASE attempt < TrackRetries
  <2>1. at' = "search" /\ attempt' = attempt + 1
        /\ key' = IF "isrc" \in keys THEN "isrc" ELSE "title"
    BY <1>2 DEF Finder!Retry, Finder!FirstKey
  <2>2. OnTrack'
    BY <1>1, <2>1 DEF OnTrack, Finder!song
  <2> QED
    BY <1>1, <2>1, <2>2 DEF Paid
<1>3. CASE ~(attempt < TrackRetries)
  <2>1. at' = "failed"
    BY <1>3 DEF Finder!Retry
  <2> QED
    BY <1>1, <1>3, <2>1 DEF Paid
<1> QED
  BY <1>2, <1>3

\* The same for the other key, which is reached without a loss only when Qobuz has
\* no such ISRC.
LEMMA PaidMissed ==
  ASSUME Finder!TypeOK, Finder!Missed, lost' \in Nat, lost' >= attempt,
         UNCHANGED Finder!song,
         lost' > attempt \/ (key = "isrc" /\ "title" \in keys /\ "isrc" \notin known)
  PROVE  Paid'
<1>1. CASE Finder!Retry /\ lost' > attempt
  BY <1>1, PaidRetry
<1>2. CASE /\ key = "isrc" /\ "title" \in keys
           /\ key' = "title" /\ at' = "search" /\ attempt' = attempt
  <2>1. lost' = attempt => OnTrack'
    BY <1>2, FinderConstants DEF OnTrack, Finder!song, Finder!TypeOK
  <2> QED
    BY <1>2, <2>1 DEF Paid
<1> QED
  BY <1>1, <1>2 DEF Finder!Missed

\* A step that loses nothing and stays within the attempt.
LEMMA PaidKept ==
  ASSUME Finder!TypeOK, Paid, UNCHANGED Finder!song, at # "failed", at' # "failed",
         attempt' = attempt, key' = key, lost' = lost,
         at' \in {"ask", "transfer"} =>
           \/ step' = step /\ at \in {"ask", "transfer"}
           \/ step' = 1
  PROVE  Paid'
<1>1. Finder!Plan(asked)' = Finder!Plan(asked)
  BY PlanStays
<1>2. \A r : Finder!Link(r)' = Finder!Link(r)
  BY DEF Finder!Link, Finder!song
<1>3. OnTrack => OnTrack'
  BY <1>1, <1>2 DEF OnTrack, Finder!song
<1> QED
  BY <1>3 DEF Paid

\* No request is due before the plan has begun.
Begun == at \in {"search", "match"} => step = 1

LEMMA BegunInvariant == ASSUME Begun, Finder!Next PROVE Begun'
<1>1. CASE Finder!SearchFails \/ Finder!Match \/ Finder!NoLink \/ Finder!TransferFails
  BY <1>1, MissedFromStart DEF Begun, Finder!SearchFails, Finder!Match, Finder!NoLink,
                               Finder!TransferFails
<1>2. CASE Finder!IdKept \/ Finder!SearchFinds \/ Finder!GetLink \/ Finder!Save
  BY <1>2 DEF Begun, Finder!IdKept, Finder!SearchFinds, Finder!GetLink, Finder!Save
<1> QED
  BY <1>1, <1>2 DEF Finder!Next

LEMMA LoseCounts ==
  ASSUME Finder!TypeOK PROVE lost \in Nat /\ (Finder!Lose => lost' = lost + 1)
BY DEF Finder!TypeOK, Finder!Lose

\* Without a link so far, and none from the last request, the song is not to be had.
LEMMA PlanExhausted ==
  ASSUME Finder!TypeOK, Finder!Servable, at = "ask",
         \A j \in 1 .. step - 1 : Finder!Link(Finder!Plan(asked)[j]) = "none",
         Finder!Link(Finder!Plan(asked)[step]) = "none"
  PROVE  step < Len(Finder!Plan(asked))
<1>1. PICK i \in 1 .. Len(Finder!Plan(asked)) :
        Finder!Link(Finder!Plan(asked)[i]) \in {"lossless", "lossy"}
  BY PlanDomain DEF Finder!Servable
<1>2. step \in 1 .. Len(Finder!Plan(asked)) /\ Len(Finder!Plan(asked)) \in Nat
  BY PlanDomain DEF Finder!TypeOK
<1>3. i \notin 1 .. step - 1 /\ i # step
  BY <1>1
<1> QED
  BY <1>2, <1>3

\* The first link of all is to a song.
LEMMA FirstIsSong ==
  ASSUME Finder!TypeOK, Finder!Servable,
         \A j \in 1 .. step - 1 : Finder!Link(Finder!Plan(asked)[j]) = "none"
  PROVE  Finder!Link(Finder!Plan(asked)[step]) # "page"
<1>1. PICK i \in 1 .. Len(Finder!Plan(asked)) :
        /\ Finder!Link(Finder!Plan(asked)[i]) \in {"lossless", "lossy"}
        /\ \A j \in 1 .. i - 1 : Finder!Link(Finder!Plan(asked)[j]) = "none"
  BY PlanDomain DEF Finder!Servable
<1>2. step \in 1 .. Len(Finder!Plan(asked)) /\ Len(Finder!Plan(asked)) \in Nat
  BY PlanDomain DEF Finder!TypeOK
<1>3. i \notin 1 .. step - 1
  BY <1>1
<1>4. CASE i = step
  BY <1>1, <1>4
<1>5. CASE i > step
  <2>1. step \in 1 .. i - 1
    BY <1>2, <1>5
  <2> QED
    BY <1>1, <2>1
<1> QED
  BY <1>2, <1>3, <1>4, <1>5

LEMMA PaidSearchFails ==
  ASSUME Finder!TypeOK, Finder!Servable, Paid, Finder!SearchFails
  PROVE  Paid'
<1>1. UNCHANGED Finder!song /\ Finder!Missed /\ at = "search"
      /\ (key \in known => lost' = lost + 1) /\ (key \notin known => lost' = lost)
  BY LoseCounts DEF Finder!SearchFails
<1>2. lost \in Nat /\ attempt \in Nat /\ lost >= attempt /\ (lost = attempt => OnTrack)
  BY <1>1, LoseCounts, FinderConstants DEF Paid, Finder!TypeOK
<1>3. CASE lost' > attempt
  BY <1>1, <1>2, <1>3, PaidMissed
<1>4. CASE ~(lost' > attempt)
  <2>1. key \notin known /\ lost' = lost /\ OnTrack
    BY <1>1, <1>2, <1>4
  <2>2. key \in keys /\ keys \subseteq {"isrc", "title"} /\ known \subseteq keys
    BY DEF Finder!TypeOK
  <2>3. key = "isrc" /\ "title" \in keys /\ "isrc" \notin known
    BY <2>1, <2>2 DEF OnTrack, Finder!Servable
  <2> QED
    BY <1>1, <1>2, <2>1, <2>3, PaidMissed
<1> QED
  BY <1>3, <1>4

LEMMA PaidMatch ==
  ASSUME Finder!TypeOK, Finder!Servable, Paid, Begun, Finder!Match
  PROVE  Paid'
<1>1. UNCHANGED Finder!song /\ lost' = lost /\ at = "match" /\ step = 1
  BY DEF Finder!Match, Begun
<1>2. lost \in Nat /\ attempt \in Nat /\ lost >= attempt /\ (lost = attempt => OnTrack)
  BY <1>1, LoseCounts, FinderConstants DEF Paid, Finder!TypeOK
<1>3. CASE key = "isrc" \/ Finder!Confident(Finder!Best(answer))
  BY <1>1, <1>3, PaidKept DEF Finder!Match
<1>4. CASE ~(key = "isrc" \/ Finder!Confident(Finder!Best(answer)))
  <2>1. Finder!Missed /\ strict /\ key = "title"
    BY <1>4 DEF Finder!Match, Finder!Confident, Finder!TypeOK
  <2>2. "isrc" \in known
    BY <2>1 DEF Finder!Servable
  <2>3. lost' > attempt
    BY <1>1, <1>2, <2>1, <2>2 DEF OnTrack
  <2> QED
    BY <1>1, <1>2, <2>1, <2>3, PaidMissed
<1> QED
  BY <1>3, <1>4

LEMMA PaidNoLink ==
  ASSUME Finder!TypeOK, Finder!Servable, Paid, Finder!NoLink
  PROVE  Paid'
<1> DEFINE link == Finder!Link(Finder!Plan(asked)[step])
<1>1. /\ UNCHANGED Finder!song /\ at = "ask"
      /\ link # "none" => lost' = lost + 1
      /\ link = "none" => lost' = lost
  BY LoseCounts DEF Finder!NoLink
<1> HIDE DEF link
<1>2. lost \in Nat /\ attempt \in Nat /\ lost >= attempt /\ (lost = attempt => OnTrack)
  BY <1>1, LoseCounts, FinderConstants DEF Paid, Finder!TypeOK
<1>3. lost' \in Nat /\ lost' >= attempt
  BY <1>1, <1>2
<1>4. lost' = attempt => link = "none" /\ OnTrack
  BY <1>1, <1>2
<1>5. CASE step < Len(Finder!Plan(asked))
  <2>1. step' = step + 1 /\ at' = "ask" /\ attempt' = attempt /\ key' = key
    BY <1>1, <1>5 DEF Finder!NoLink
  <2>2. Finder!Plan(asked)' = Finder!Plan(asked)
    BY <1>1, PlanStays
  <2>3. \A r : Finder!Link(r)' = Finder!Link(r)
    BY <1>1 DEF Finder!Link, Finder!song
  <2>4. step \in Nat
    BY PlanDomain DEF Finder!TypeOK
  <2>5. ASSUME link = "none", OnTrack PROVE OnTrack'
    <3>1. \A j \in 1 .. step : Finder!Link(Finder!Plan(asked)[j]) = "none"
      BY <1>1, <2>4, <2>5 DEF OnTrack, link
    <3>2. \A j \in 1 .. step' - 1 : Finder!Link(Finder!Plan(asked)[j])' = "none"
      BY <2>1, <2>2, <2>3, <2>4, <3>1
    <3> QED
      BY <1>1, <2>1, <2>5, <3>2 DEF OnTrack, Finder!song
  <2> QED
    BY <1>3, <1>4, <2>1, <2>5 DEF Paid
<1>6. CASE ~(step < Len(Finder!Plan(asked)))
  <2>1. Finder!Missed
    BY <1>6 DEF Finder!NoLink
  <2>2. lost' > attempt
    <3> SUFFICES ASSUME link = "none", OnTrack PROVE FALSE
      BY <1>2, <1>3, <1>4
    <3> QED
      BY <1>1, <1>6, PlanExhausted DEF OnTrack, link
  <2> QED
    BY <1>1, <1>2, <1>3, <2>1, <2>2, PaidMissed
<1> QED
  BY <1>5, <1>6

LEMMA PaidTransferFails ==
  ASSUME Finder!TypeOK, Finder!Servable, Paid, Linked, Finder!TransferFails
  PROVE  Paid'
<1>1. /\ UNCHANGED Finder!song /\ at = "transfer" /\ Finder!Retry
      /\ stream # "page" => lost' = lost + 1
      /\ stream = "page" => lost' = lost
  BY LoseCounts DEF Finder!TransferFails
<1>2. lost \in Nat /\ attempt \in Nat /\ lost >= attempt /\ (lost = attempt => OnTrack)
  BY <1>1, LoseCounts, FinderConstants DEF Paid, Finder!TypeOK
<1>3. OnTrack => stream # "page"
  BY <1>1, FirstIsSong DEF OnTrack, Linked
<1>4. lost' \in Nat /\ lost' > attempt
  BY <1>1, <1>2, <1>3
<1> QED
  BY <1>1, <1>4, PaidRetry

LEMMA PaidInvariant ==
  ASSUME Finder!TypeOK, Finder!Servable, Paid, Begun, Linked, Finder!Next
  PROVE  Paid'
<1>1. UNCHANGED Finder!song
  BY SongStays
<1>2. CASE Finder!IdKept
  BY <1>1, <1>2, PaidKept DEF Finder!IdKept, Begun
<1>3. CASE Finder!SearchFinds
  BY <1>1, <1>3, PaidKept DEF Finder!SearchFinds
<1>4. CASE Finder!GetLink
  BY <1>1, <1>4, PaidKept DEF Finder!GetLink
<1>5. CASE Finder!Save
  BY <1>1, <1>5, PaidKept DEF Finder!Save
<1> QED
  BY <1>2, <1>3, <1>4, <1>5, PaidSearchFails, PaidMatch, PaidNoLink, PaidTransferFails
     DEF Finder!Next

\* A song that can be had is given up only after each of the attempts has lost an
\* answer or a transfer: for any services, any number of attempts and any losses.
THEOREM GivenUpForLosses == Finder!Spec => []GivenUpOnlyForLosses
<1> DEFINE Inv == Finder!TypeOK /\ Linked /\ Begun /\ (Finder!Servable => Paid)
<1>1. Finder!Init => Inv
  <2> SUFFICES ASSUME Finder!Init PROVE Inv
    OBVIOUS
  <2>1. Linked /\ Begun
    BY DEF Finder!Init, Linked, Begun
  <2>2. Paid
    BY DEF Finder!Init, Finder!FirstKey, Paid, OnTrack
  <2> QED
    BY <2>1, <2>2, FinderInitTypes
<1>2. Inv /\ [Finder!Next]_(Finder!vars) => Inv'
  <2> SUFFICES ASSUME Inv, [Finder!Next]_(Finder!vars) PROVE Inv'
    OBVIOUS
  <2>1. CASE Finder!Next
    <3>1. Finder!Servable' <=> Finder!Servable
      BY <2>1, SongStays, ServableStays
    <3> QED
      BY <2>1, <3>1, FinderNextTypes, LinkedInvariant, BegunInvariant, PaidInvariant
  <2>2. CASE UNCHANGED Finder!vars
    <3>1. /\ UNCHANGED Finder!song /\ at' = at /\ stream' = stream /\ step' = step
          /\ lost' = lost /\ world' = world /\ attempt' = attempt /\ key' = key /\ known' = known
      BY <2>2 DEF Finder!vars, Finder!song
    <3>2. Finder!Plan(asked)' = Finder!Plan(asked) /\ (Finder!Servable' <=> Finder!Servable)
      BY <3>1, PlanStays, ServableStays
    <3>3. Linked' /\ Begun'
      BY <3>1, <3>2 DEF Linked, Begun, Finder!Link
    <3>4. Paid => Paid'
      BY <3>1, <3>2 DEF Paid, OnTrack, Finder!Link
    <3> QED
      BY <2>2, <3>2, <3>3, <3>4, FinderStutters
  <2> QED
    BY <2>1, <2>2
<1>3. Inv => GivenUpOnlyForLosses
  BY DEF GivenUpOnlyForLosses, Finder!GivenUpOnlyForLosses, Paid
<1> QED
  BY <1>1, <1>2, <1>3, PTL DEF Finder!Spec
===============================================================================
