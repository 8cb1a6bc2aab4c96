----------------------------- MODULE StreamCache ------------------------------
(***************************************************************************)
(* The two caches of api.c that "squidget playlist" fills while it goes    *)
(* through its songs: from the name of a song (its ISRC, or title and      *)
(* artist) to its Qobuz ID, and from an ID to the URL of a stream.  Both   *)
(* are arrays whose next slot is overwritten in turn.  URLs grow old, and  *)
(* are thrown out when a download from them fails.  One song is worked on  *)
(* at a time.                                                              *)
(*                                                                         *)
(* The caches work only after http_init (g_qobuz_cache_ready), which the   *)
(* interactive program never calls.                                        *)
(*                                                                         *)
(* A stream's key also names the quality; one quality is modelled, since   *)
(* the command line has one for all its songs.                             *)
(***************************************************************************)
EXTENDS Integers, FiniteSets

CONSTANTS
  Name,        \* what a song is looked up by
  Id,          \* Qobuz IDs
  URL,         \* stream URLs
  None,        \* no key, no value
  IdSlots,     \* QOBUZ_ID_CACHE_MAX, 256
  StreamSlots, \* QOBUZ_STREAM_CACHE_MAX, 128
  TTL,         \* QOBUZ_STREAM_TTL_MS, in steps of the clock
  Interactive  \* the TUI (TRUE) or "squidget playlist" (FALSE)

StreamCacheAssumption ==
  /\ {IdSlots, StreamSlots, TTL} \subseteq Nat \ {0}
  /\ None \notin Name \cup Id \cup URL
  /\ Interactive \in BOOLEAN

ASSUME StreamCacheAssumption

VARIABLES
  idCache,     \* g_qobuz_id_cache
  idNext,      \* g_qobuz_id_cache_next, modulo IdSlots
  streamCache, \* g_qobuz_stream_cache
  streamNext,  \* g_qobuz_stream_cache_next, modulo StreamSlots
  pc,          \* where the work on the current song is
  name,        \* the song
  id,          \* its ID
  url,         \* its URL
  foundId,     \* history: the ID last found for each name
  foundSince,  \* history: the names found since it was found
  foundURL,    \* history: the URL last resolved for each ID, unless it failed
  foundAge     \* history: how long ago, at most TTL

idVars == <<idCache, idNext, foundId, foundSince>>
streamVars == <<streamCache, streamNext, foundURL, foundAge>>
vars == <<idVars, streamVars, pc, name, id, url>>

ready == ~Interactive

Empty == [key |-> None, val |-> None, age |-> 0]
Entry(k, v) == [key |-> k, val |-> v, age |-> 0]

Init ==
  /\ idCache = [i \in 0 .. IdSlots - 1 |-> Empty]
  /\ idNext = 0
  /\ streamCache = [i \in 0 .. StreamSlots - 1 |-> Empty]
  /\ streamNext = 0
  /\ pc = "idle"
  /\ name = None /\ id = None /\ url = None
  /\ foundId = [n \in Name |-> None]
  /\ foundSince = [n \in Name |-> {}]
  /\ foundURL = [d \in Id |-> None]
  /\ foundAge = [d \in Id |-> 0]

-------------------------------------------------------------------------------
(* Both caches.                                                            *)

\* Mutant: any slot in use will do.
With_AnyUsed(cache, k) == {i \in DOMAIN cache : cache[i].key # None}

\* The slots with the key k; the code looks at the first one.
With(cache, k) == {i \in DOMAIN cache : cache[i].key = k}
First(S) == CHOOSE i \in S : \A j \in S : i <= j

\* Where k is stored: in the slot it has, or in the next one.
SlotFor(cache, next, k) ==
  IF With(cache, k) # {} THEN First(With(cache, k)) ELSE next

\* Mutant: the index is not advanced.
Advance_Not(cache, next, k) == next

\* Mutant: the index is not taken modulo the number of slots.
Advance_NoModulo(cache, next, k) ==
  IF With(cache, k) # {} THEN next ELSE next + 1

\* The index after k was stored.
Advance(cache, next, k) ==
  IF With(cache, k) # {} THEN next ELSE (next + 1) % Cardinality(DOMAIN cache)

-------------------------------------------------------------------------------
(* The ID of a song.                                                       *)

\* The end of an attempt: its locals are gone.
Done ==
  /\ pc' = "idle"
  /\ name' = None /\ id' = None /\ url' = None

\* The next song, or the next attempt at one.
Lookup(n) ==
  /\ pc = "idle"
  /\ name' = n
  /\ pc' = "id"
  /\ UNCHANGED <<idVars, streamVars, id, url>>

\* qobuz_cache_get_id finds it.
IdHit ==
  /\ pc = "id"
  /\ ready
  /\ With(idCache, name) # {}
  /\ id' = idCache[First(With(idCache, name))].val
  /\ pc' = "stream"
  /\ UNCHANGED <<idVars, streamVars, name, url>>

\* Nothing is found, and the service is asked.
IdMiss ==
  /\ pc = "id"
  /\ ~ready \/ With(idCache, name) = {}
  /\ pc' = "search"
  /\ UNCHANGED <<idVars, streamVars, name, id, url>>

\* The service knows the song; qobuz_cache_put_id.
SearchFinds(d) ==
  /\ pc = "search"
  /\ id' = d
  /\ foundId' = [foundId EXCEPT ![name] = d]
  /\ foundSince' = [n \in Name |->
       IF n = name THEN {} ELSE foundSince[n] \cup {name}]
  /\ IF ready
     THEN /\ idCache' = [idCache EXCEPT ![SlotFor(idCache, idNext, name)] = Entry(name, d)]
          /\ idNext' = Advance(idCache, idNext, name)
     ELSE UNCHANGED <<idCache, idNext>>
  /\ pc' = "stream"
  /\ UNCHANGED <<streamVars, name, url>>

\* It does not, or does not answer: there may be another attempt.
SearchFails ==
  /\ pc = "search"
  /\ Done
  /\ UNCHANGED <<idVars, streamVars>>

-------------------------------------------------------------------------------
(* The stream of an ID.                                                    *)

Fresh(entry) == entry.age < TTL

StreamSlot == First(With(streamCache, id))

\* qobuz_cache_get_stream finds a URL that is not too old.
StreamHit ==
  /\ pc = "stream"
  /\ ready
  /\ With(streamCache, id) # {}
  /\ Fresh(streamCache[StreamSlot])
  /\ url' = streamCache[StreamSlot].val
  /\ pc' = "download"
  /\ UNCHANGED <<idVars, streamVars, name, id>>

\* An entry that is too old is erased, and the resolver asked.
StreamExpired ==
  /\ pc = "stream"
  /\ ready
  /\ With(streamCache, id) # {}
  /\ ~Fresh(streamCache[StreamSlot])
  /\ streamCache' = [streamCache EXCEPT ![StreamSlot] = Empty]
  /\ pc' = "resolve"
  /\ UNCHANGED <<idVars, streamNext, foundURL, foundAge, name, id, url>>

StreamMiss ==
  /\ pc = "stream"
  /\ ~ready \/ With(streamCache, id) = {}
  /\ pc' = "resolve"
  /\ UNCHANGED <<idVars, streamVars, name, id, url>>

\* The resolver has a URL; qobuz_cache_put_stream.
Resolves(u) ==
  /\ pc = "resolve"
  /\ url' = u
  /\ foundURL' = [foundURL EXCEPT ![id] = u]
  /\ foundAge' = [foundAge EXCEPT ![id] = 0]
  /\ IF ready
     THEN /\ streamCache' = [streamCache EXCEPT
               ![SlotFor(streamCache, streamNext, id)] = Entry(id, u)]
          /\ streamNext' = Advance(streamCache, streamNext, id)
     ELSE UNCHANGED <<streamCache, streamNext>>
  /\ pc' = "download"
  /\ UNCHANGED <<idVars, name, id>>

ResolveFails ==
  /\ pc = "resolve"
  /\ Done
  /\ UNCHANGED <<idVars, streamVars>>

DownloadSucceeds ==
  /\ pc = "download"
  /\ Done
  /\ UNCHANGED <<idVars, streamVars>>

\* Mutant: only the song's own entry is thrown out.
Invalidated_OwnOnly(i) == streamCache[i].val = url /\ streamCache[i].key = id

\* The slots that api_qobuz_invalidate_stream_url erases: all that have the URL.
Invalidated(i) == streamCache[i].val = url

DownloadFails ==
  /\ pc = "download"
  /\ foundURL' = [d \in Id |-> IF foundURL[d] = url THEN None ELSE foundURL[d]]
  /\ streamCache' = IF ready
                    THEN [i \in DOMAIN streamCache |->
                            IF Invalidated(i) THEN Empty ELSE streamCache[i]]
                    ELSE streamCache
  /\ Done
  /\ UNCHANGED <<idVars, streamNext, foundAge>>

Older(age) == IF age < TTL THEN age + 1 ELSE age

\* Time passes; beyond TTL it does not matter how much.
Tick ==
  /\ streamCache' = [i \in DOMAIN streamCache |->
       IF streamCache[i].key = None THEN streamCache[i]
       ELSE [streamCache[i] EXCEPT !.age = Older(@)]]
  /\ foundAge' = [d \in Id |-> Older(foundAge[d])]
  /\ UNCHANGED <<idVars, streamNext, foundURL, pc, name, id, url>>

Next ==
  \/ \E n \in Name : Lookup(n)
  \/ IdHit \/ IdMiss \/ SearchFails \/ \E d \in Id : SearchFinds(d)
  \/ StreamHit \/ StreamExpired \/ StreamMiss
  \/ ResolveFails \/ \E u \in URL : Resolves(u)
  \/ DownloadSucceeds \/ DownloadFails
  \/ Tick

Spec == Init /\ [][Next]_vars

-------------------------------------------------------------------------------
(* Properties *)

Slot(Keys, Values) ==
  [key : Keys \cup {None}, val : Values \cup {None}, age : 0 .. TTL]

TypeOK ==
  /\ idCache \in [0 .. IdSlots - 1 -> Slot(Name, Id)]
  /\ idNext \in 0 .. IdSlots - 1
  /\ streamCache \in [0 .. StreamSlots - 1 -> Slot(Id, URL)]
  /\ streamNext \in 0 .. StreamSlots - 1
  /\ pc \in {"idle", "id", "search", "stream", "resolve", "download"}
  /\ name \in Name \cup {None} /\ id \in Id \cup {None} /\ url \in URL \cup {None}
  /\ foundId \in [Name -> Id \cup {None}]
  /\ foundSince \in [Name -> SUBSET Name]
  /\ foundURL \in [Id -> URL \cup {None}]
  /\ foundAge \in [Id -> 0 .. TTL]

\* A URL that comes from the cache is the last one that was resolved for this ID,
\* less than TTL ago, and no download from it has failed since, of whatever song:
\* with slots overwritten in turn, erased in the middle, and URLs shared by IDs.
StreamHitsAreGood ==
  [][pc = "stream" /\ pc' = "download" =>
       url' = foundURL[id] /\ foundAge[id] < TTL]_vars

\* An ID that comes from the cache is the one last found for this name.
IdHitsAreTrue ==
  [][pc = "id" /\ pc' = "stream" => id' = foundId[name]]_vars

\* "Caches Qobuz IDs, stream URLs, and cover-art fetches to reduce duplicate
\* network work", README.md:75: the service is asked again for an ID that it has
\* given only after as many other songs as there are slots.
IdsKept ==
  [][pc = "id" /\ pc' = "search" /\ foundId[name] # None =>
       Cardinality(foundSince[name]) >= IdSlots]_vars
===============================================================================
