----------------------------- MODULE ResolverGate -----------------------------
(***************************************************************************)
(* How download_track (download.c) and the stream lookups of api.c space   *)
(* their calls to search services and resolvers: a gate that one caller    *)
(* holds for a whole call, a minimum gap that grows with a penalty, a      *)
(* cooldown after rate-limit responses, and the delay before a retry.      *)
(*                                                                         *)
(* Gate, penalty, cooldown and caches only work after http_init, which the *)
(* command line calls (main.c:211, one thread) and the interactive program *)
(* never does; there, several workers run and every function of the gate   *)
(* returns at once.                                                        *)
(*                                                                         *)
(* Times are relative and counted in units: what is stored as a moment is  *)
(* kept as the time since it or until it, as far as it matters.            *)
(***************************************************************************)
EXTENDS Integers, FiniteSets

CONSTANTS
  Worker,      \* threads that download tracks
  NoWorker,    \* nobody
  Interactive, \* the TUI (TRUE) or "squidget playlist" (FALSE)
  Gap,         \* SQUIDGET_RESOLVER_GAP_MS, 250
  MaxGap,      \* limit of gap and penalty, 10000 ms
  Relief,      \* what a good download takes off the penalty, 250 ms
  Response,    \* kinds of bad responses: 429, 403, 5xx or no media, others
  Bump,        \* for each, what is added to the penalty
  Cooldown,    \* for each, the cooldown it starts, 0 for none
  RetryAfter,  \* values of a Retry-After header
  MinBump,     \* the least addition, 1000 ms
  RetryDelay,  \* SQUIDGET_RETRY_DELAY_MS, 1500
  MaxDelay,    \* SQUIDGET_RETRY_DELAY_MAX_MS, 15000
  Retries      \* SQUIDGET_TRACK_RETRIES, 2

Least(a, b) == IF a < b THEN a ELSE b
Most(a, b) == IF a > b THEN a ELSE b

ResolverGateAssumption ==
  /\ NoWorker \notin Worker
  /\ Interactive \in BOOLEAN
  /\ ~Interactive => \E w \in Worker : Worker = {w}
  /\ {Gap, MaxGap, Relief, MinBump, RetryDelay, MaxDelay, Retries} \subseteq Nat
  /\ RetryAfter \subseteq Nat \ {0}
  /\ Bump \in [Response -> Nat] /\ Cooldown \in [Response -> Nat]

ASSUME ResolverGateAssumption

VARIABLES
  serial,    \* SQUIDGET_SERIAL_RESOLVER, of the environment, on by default
  ready,     \* g_qobuz_cache_ready
  gate,      \* who holds g_qobuz_resolver_gate
  since,     \* time since g_qobuz_resolver_last_ms, at most MaxGap
  cool,      \* time until g_qobuz_resolver_cooldown_until_ms, 0 if it is past
  penalty,   \* g_qobuz_resolver_penalty_ms
  pc,        \* where each worker is
  sleep,     \* what is left of its sleep
  stage,     \* its lookup: ID and URL by ISRC (1, 2), by title (3, 4)
  first,     \* 1, or 3 for a track without an ISRC
  attempt,   \* its attempt
  sinceCall, \* history: time since anybody last began a call, at most MaxGap
  told,      \* history: time until the last moment that a response to the command
             \* line asked to wait for
  left       \* history: told when a worker decided on its retry

settings == <<gate, since, cool, penalty>>
history == <<sinceCall, told, left>>
vars == <<ready, serial, settings, pc, sleep, stage, first, attempt, history>>

Init ==
  /\ serial \in BOOLEAN
  /\ ready = FALSE
  /\ gate = NoWorker
  /\ since = MaxGap
  /\ cool = 0
  /\ penalty = 0
  /\ pc = [w \in Worker |-> IF Interactive THEN "idle" ELSE "init"]
  /\ sleep = [w \in Worker |-> 0]
  /\ stage = [w \in Worker |-> 1]
  /\ first = [w \in Worker |-> 1]
  /\ attempt = [w \in Worker |-> 0]
  /\ sinceCall = MaxGap
  /\ told = 0
  /\ left = [w \in Worker |-> 0]

Goto(w, from, to) == pc[w] = from /\ pc' = [pc EXCEPT ![w] = to]

\* run_playlist_cli, before its first track.
HttpInit(w) ==
  /\ Goto(w, "init", "idle")
  /\ ready' = TRUE
  /\ UNCHANGED <<serial, settings, sleep, stage, first, attempt, history>>

\* A track is downloaded, with an ISRC or without.
BeginTrack(w) ==
  /\ Goto(w, "idle", "lookup")
  /\ \E s \in {1, 3} : /\ first' = [first EXCEPT ![w] = s]
                       /\ stage' = [stage EXCEPT ![w] = s]
  /\ attempt' = [attempt EXCEPT ![w] = 0]
  /\ UNCHANGED <<ready, serial, settings, sleep, history>>

HasURL(w) == stage[w] \in {2, 4}

\* The ID or the URL was found: on to the URL, or to the download.
Found(w) ==
  /\ pc' = [pc EXCEPT ![w] = IF HasURL(w) THEN "download" ELSE "lookup"]
  /\ stage' = [stage EXCEPT ![w] = IF HasURL(w) THEN @ ELSE @ + 1]

\* It was found in a cache, and nobody is called.
CacheHit(w) ==
  /\ pc[w] = "lookup"
  /\ ready
  /\ Found(w)
  /\ UNCHANGED <<ready, serial, settings, sleep, first, attempt, history>>

-------------------------------------------------------------------------------
(* The gate.                                                               *)

CurrentGap == Least(Gap + penalty, MaxGap)

\* How long qobuz_resolver_gate_begin sleeps.
GateWait == Most(CurrentGap - since, cool)

GateBegin(w) ==
  /\ Goto(w, "lookup", "gate")
  /\ ready /\ serial
  /\ gate = NoWorker
  /\ gate' = w
  /\ sleep' = [sleep EXCEPT ![w] = Most(GateWait, 0)]
  /\ UNCHANGED <<ready, serial, since, cool, penalty, stage, first, attempt, history>>

\* The sleep is over, and the call begins.
GateEnter(w) ==
  /\ Goto(w, "gate", "call")
  /\ sleep[w] = 0
  /\ since' = 0
  /\ sinceCall' = 0
  /\ UNCHANGED <<ready, serial, gate, cool, penalty, sleep, stage, first, attempt, told, left>>

\* Without http_init, or when it is switched off, the gate is not there.
NoGate(w) ==
  /\ Goto(w, "lookup", "call")
  /\ ~(ready /\ serial)
  /\ sinceCall' = 0
  /\ UNCHANGED <<ready, serial, settings, sleep, stage, first, attempt, told, left>>

GateEnd(w) == gate' = IF gate = w THEN NoWorker ELSE gate

CallSucceeds(w) ==
  /\ pc[w] = "call"
  /\ GateEnd(w)
  /\ Found(w)
  /\ UNCHANGED <<ready, serial, since, cool, penalty, sleep, first, attempt, history>>

\* Mutant: a return without qobuz_resolver_gate_end.
CallFails_KeepsGate(w) ==
  /\ pc[w] = "call"
  /\ pc' = [pc EXCEPT ![w] = IF stage[w] < 3 THEN "lookup" ELSE "failed"]
  /\ stage' = [stage EXCEPT ![w] = 3]
  /\ UNCHANGED <<ready, serial, settings, sleep, first, attempt, history>>

\* A failed lookup by ISRC is followed by one by title.
CallFails(w) ==
  /\ pc[w] = "call"
  /\ GateEnd(w)
  /\ pc' = [pc EXCEPT ![w] = IF stage[w] < 3 THEN "lookup" ELSE "failed"]
  /\ stage' = [stage EXCEPT ![w] = 3]
  /\ UNCHANGED <<ready, serial, since, cool, penalty, sleep, first, attempt, history>>

-------------------------------------------------------------------------------
(* The response of the download, and what it teaches.                      *)

\* Mutant: the cooldown of the last response replaces the one that lasts.
Learn_Replaces(bump, time) ==
  IF ready
  THEN /\ gate = NoWorker
       /\ penalty' = Least(penalty + Most(bump, MinBump), MaxGap)
       /\ cool' = IF time = 0 THEN cool ELSE time
       /\ told' = Most(told, time)
       /\ UNCHANGED <<gate, since>>
  ELSE UNCHANGED <<settings, told>>

\* The penalty grows and a longer cooldown replaces a shorter one.  The moment is
\* read before the lock is taken; with one worker nothing comes in between.
Learn(bump, time) ==
  IF ready
  THEN /\ gate = NoWorker
       /\ penalty' = Least(penalty + Most(bump, MinBump), MaxGap)
       /\ cool' = Most(cool, time)
       /\ told' = Most(told, time)
       /\ UNCHANGED <<gate, since>>
  ELSE UNCHANGED <<settings, told>>

\* Mutant: the penalty is not kept from falling below 0.
LessPenalty_NoFloor(p) == p - Relief

LessPenalty(p) == Most(p - Relief, 0)

\* The media arrived.
LearnSuccess ==
  IF ready
  THEN /\ gate = NoWorker
       /\ penalty' = LessPenalty(penalty)
       /\ UNCHANGED <<gate, since, cool>>
  ELSE UNCHANGED settings

DownloadSucceeds(w) ==
  /\ Goto(w, "download", "idle")
  /\ LearnSuccess
  /\ UNCHANGED <<ready, serial, sleep, stage, first, attempt, history>>

\* They did, but rename() fails.
SaveFails(w) ==
  /\ Goto(w, "download", "failed")
  /\ LearnSuccess
  /\ UNCHANGED <<ready, serial, sleep, stage, first, attempt, history>>

DownloadFails(w) ==
  /\ Goto(w, "download", "failed")
  /\ \/ \E r \in Response : Learn(Bump[r], Cooldown[r])
     \/ \E t \in RetryAfter : Learn(t, t)
  /\ UNCHANGED <<ready, serial, sleep, stage, first, attempt, sinceCall, left>>

\* Mutant: the delay does not wait for the cooldown.
RetryDelayOf_NoCooldown(n) == Least(RetryDelay * (n + 1) + penalty, MaxDelay)

\* api_qobuz_retry_delay_ms
RetryDelayOf(n) ==
  Least(Most(RetryDelay * (n + 1) + penalty, cool), MaxDelay)

Retry(w) ==
  /\ Goto(w, "failed", "backoff")
  /\ attempt[w] < Retries
  /\ ready => gate = NoWorker
  /\ sleep' = [sleep EXCEPT ![w] = RetryDelayOf(attempt[w])]
  /\ left' = [left EXCEPT ![w] = told]
  /\ UNCHANGED <<ready, serial, settings, stage, first, attempt, sinceCall, told>>

RetryBegins(w) ==
  /\ Goto(w, "backoff", "lookup")
  /\ sleep[w] = 0
  /\ attempt' = [attempt EXCEPT ![w] = @ + 1]
  /\ stage' = [stage EXCEPT ![w] = first[w]]
  /\ left' = [left EXCEPT ![w] = 0]
  /\ UNCHANGED <<ready, serial, settings, sleep, first, sinceCall, told>>

\* The next track follows at once.
GiveUp(w) ==
  /\ Goto(w, "failed", "idle")
  /\ attempt[w] >= Retries
  /\ UNCHANGED <<ready, serial, settings, sleep, stage, first, attempt, history>>

\* One unit of time passes.
Tick ==
  /\ since' = Least(since + 1, MaxGap)
  /\ sinceCall' = Least(sinceCall + 1, MaxGap)
  /\ cool' = Most(cool - 1, 0)
  /\ told' = Most(told - 1, 0)
  /\ sleep' = [w \in Worker |-> Most(sleep[w] - 1, 0)]
  /\ UNCHANGED <<ready, serial, gate, penalty, pc, stage, first, attempt, left>>

\* What a worker does on the way through a track.
Work(w) == \/ HttpInit(w) \/ CacheHit(w)
           \/ GateBegin(w) \/ GateEnter(w) \/ NoGate(w)
           \/ CallSucceeds(w) \/ CallFails(w)
           \/ DownloadSucceeds(w) \/ SaveFails(w) \/ DownloadFails(w)
           \/ Retry(w) \/ RetryBegins(w) \/ GiveUp(w)

Next == \/ \E w \in Worker : BeginTrack(w) \/ Work(w)
        \/ Tick

Spec == Init /\ [][Next]_vars

\* Threads are scheduled, transfers end (each has a timeout), and time passes; it
\* is not assumed that there is another track.
Fairness == WF_vars(Tick) /\ \A w \in Worker : WF_vars(Work(w))

FairSpec == Spec /\ Fairness

-------------------------------------------------------------------------------
(* Properties *)

TypeOK ==
  /\ serial \in BOOLEAN /\ ready \in BOOLEAN
  /\ gate \in Worker \cup {NoWorker}
  /\ {since, penalty, sinceCall} \subseteq 0 .. MaxGap
  /\ cool \in Nat /\ told \in Nat /\ left \in [Worker -> Nat]
  /\ pc \in [Worker -> {"init", "idle", "lookup", "gate", "call", "download",
                        "failed", "backoff"}]
  /\ sleep \in [Worker -> Nat]
  /\ stage \in [Worker -> 1 .. 4]
  /\ first \in [Worker -> {1, 3}]
  /\ attempt \in [Worker -> 0 .. Retries]

Begins(w) == pc[w] # "call" /\ pc'[w] = "call"

\* Behind the gate, a call begins only when the gap, widened by the penalty that
\* failures have left, has passed since the previous call began, and when every
\* moment is past that any earlier response asked to wait for, whatever shorter
\* wait a later one asked for (api.c:256-275), and whatever retries, cache hits
\* and tracks came in between.
SpacedAndCool ==
  [][serial => \A w \in Worker :
                  Begins(w) => sinceCall >= CurrentGap /\ told = 0]_vars

\* On the command line, with the gate or without, the delay before a retry alone
\* waits for all that the responses have asked for when it is decided on, as far
\* as MaxDelay allows: what is left when the retry begins lies beyond MaxDelay.
RetryAwaitsCooldown ==
  [][\A w \in Worker :
       pc[w] = "backoff" /\ pc'[w] = "lookup" => told <= Most(left[w] - MaxDelay, 0)]_vars

\* Whatever fails, a track comes to its end: every way out of a call gives the
\* gate back, the cooldown and the gap pass, and the retries are counted.
TrackEnds ==
  \A w \in Worker : pc[w] # "idle" ~> pc[w] = "idle"

\* "Serializes resolver calls to avoid burst throttling", on by default,
\* README.md:226: at most one worker is in a call.
SerialCalls ==
  serial => Cardinality({w \in Worker : pc[w] = "call"}) <= 1
===============================================================================
