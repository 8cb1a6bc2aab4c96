----------------------------- MODULE DownloadPool -----------------------------
(***************************************************************************)
(* The parallel download of an album or a playlist: the bg_worker thread   *)
(* creates up to max_threads pool workers, each of which claims the next   *)
(* track, downloads it and records the outcome, and joins them before it   *)
(* reports (main.c:256-354, 490-526, 594-627).                             *)
(*                                                                         *)
(* Two mutexes meet here.  pool.mu guards next, done and failed; s->lock   *)
(* guards the status line, which the UI thread also takes.  A section that *)
(* holds one mutex only is one action; the nested section, pool.mu and     *)
(* then s->lock, is taken and released step by step.  The resolver gate is *)
(* not taken inside the program that runs these pools (see the README), so *)
(* the cooldown suffix of the messages is left out.                        *)
(***************************************************************************)
EXTENDS Integers, FiniteSets

CONSTANTS
  NTracks,     \* pool.n, at least 1: an empty batch returns before the pool
  MaxThreads,  \* SQUIDGET_ALBUM_THREADS / _PLAYLIST_THREADS, clamped to 1..4
  MaxMsgs      \* bound: progress messages of one track's download

DownloadPoolAssumption ==
  /\ NTracks \in Nat \ {0}
  /\ MaxThreads \in Nat \ {0}
  /\ MaxMsgs \in Nat

VARIABLES
  next,      \* pool.next
  done,      \* pool.done
  failed,    \* pool.failed
  mu,        \* holder of pool.mu
  sLock,     \* holder of s->lock
  pc,        \* where each pool worker is
  idx,       \* the worker's local idx: the track it claimed last
  finished,  \* the worker's local finished: done + failed as it read them
  msgs,      \* progress messages sent for the current track
  handle,    \* workers[ti] of the parent: what the create left there
  parent,    \* where the bg_worker thread is in the task
  ti,        \* its loop index
  shown,     \* s->status: which kind of message, and the count in it
  outcome,   \* history: what has become of each track
  counted    \* history: the last count written by a recording worker

vars == <<next, done, failed, mu, sLock, pc, idx, finished, msgs,
          handle, parent, ti, shown, outcome, counted>>

counters    == <<next, done, failed>>
parentState == <<handle, parent, ti>>

NThreads == IF NTracks < MaxThreads THEN NTracks ELSE MaxThreads
Worker   == 1 .. NThreads
Track    == 0 .. (NTracks - 1)

\* Holders of a mutex that are not pool workers.
Nobody == 0
UI     == -1

\* "claim" is about to lock pool.mu for the next track, "work" is downloading,
\* "tell" has read the counts for a progress message and wants s->lock,
\* "record" has an outcome and wants pool.mu, "nested" holds pool.mu and wants
\* s->lock, "write" holds both, "release" still holds pool.mu.
WorkerPC == {"absent", "claim", "work", "tell", "recordOk", "recordBad",
             "nested", "write", "release", "gone"}
ParentPC == {"create", "join", "report", "end", "crashed"}
Outcome  == {"waiting", "claimed", "done", "failed"}

Running == parent # "crashed"

\* Owns a track: between claiming it and counting its outcome.
Busy(w) == pc[w] \in {"work", "tell", "recordOk", "recordBad"}

Init ==
  /\ next = 0 /\ done = 0 /\ failed = 0
  /\ mu = Nobody /\ sLock = Nobody
  /\ pc = [w \in Worker |-> "absent"]
  /\ idx = [w \in Worker |-> 0]
  /\ finished = [w \in Worker |-> 0]
  /\ msgs = [w \in Worker |-> 0]
  /\ handle = [w \in Worker |-> "unset"]
  /\ parent = "create" /\ ti = 1
  /\ shown = [kind |-> "other", n |-> 0]
  /\ outcome = [t \in Track |-> "waiting"]
  /\ counted = 0

------------------------------------------------------------------------------
(* The bg_worker thread: create, join, report.                             *)

\* One turn of a for loop over the workers; the last turn enters the next phase.
Turn(phase, following) ==
  /\ parent = phase
  /\ parent' = IF ti = NThreads THEN following ELSE phase
  /\ ti' = IF ti = NThreads THEN 1 ELSE ti + 1

CreateWorker ==
  /\ Turn("create", "join")
  /\ handle' = [handle EXCEPT ![ti] = "thread"]
  /\ pc' = [pc EXCEPT ![ti] = "claim"]
  /\ UNCHANGED <<counters, mu, sLock, idx, finished, msgs, shown, outcome, counted>>

\* The result of sqt_thread_create is not looked at: workers[ti] keeps whatever
\* the stack held.
CreateFails ==
  /\ Turn("create", "join")
  /\ handle' = [handle EXCEPT ![ti] = "garbage"]
  /\ UNCHANGED <<counters, mu, sLock, pc, idx, finished, msgs, shown, outcome, counted>>

\* Mutant: the parent does not wait for the worker.
JoinWorker_NoWait ==
  /\ handle[ti] = "thread"
  /\ Turn("join", "report")
  /\ UNCHANGED <<counters, mu, sLock, pc, idx, finished, msgs, handle, shown, outcome, counted>>

JoinWorker ==
  /\ handle[ti] = "thread"
  /\ pc[ti] = "gone"
  /\ Turn("join", "report")
  /\ UNCHANGED <<counters, mu, sLock, pc, idx, finished, msgs, handle, shown, outcome, counted>>

\* Joining an uninitialised handle is undefined: the call comes back with an
\* error or takes the process down.
JoinGarbage ==
  /\ parent = "join"
  /\ handle[ti] = "garbage"
  /\ \/ Turn("join", "report")
     \/ parent' = "crashed" /\ UNCHANGED ti
  /\ UNCHANGED <<counters, mu, sLock, pc, idx, finished, msgs, handle, shown, outcome, counted>>

\* pool.mu is destroyed, then the last message is written under s->lock.
Report ==
  /\ parent = "report"
  /\ sLock = Nobody
  /\ shown' = [kind |-> IF failed > 0 THEN "someErrors" ELSE "allDone", n |-> done]
  /\ parent' = "end"
  /\ UNCHANGED <<counters, mu, sLock, pc, idx, finished, msgs, handle, ti, outcome, counted>>

------------------------------------------------------------------------------
(* sqt_download_pool_worker.                                               *)

\* Mutant: the test lets one index too many through.
Claim_OffByOne(w) ==
  /\ pc[w] = "claim"
  /\ mu = Nobody
  /\ next <= NTracks
  /\ idx' = [idx EXCEPT ![w] = next]
  /\ next' = next + 1
  /\ outcome' = [outcome EXCEPT ![next] = "claimed"]
  /\ msgs' = [msgs EXCEPT ![w] = 0]
  /\ pc' = [pc EXCEPT ![w] = "work"]
  /\ UNCHANGED <<done, failed, mu, sLock, finished, parentState, shown, counted>>

\* Mutant: next is read in the section but not incremented.
Claim_NotIncremented(w) ==
  /\ pc[w] = "claim"
  /\ mu = Nobody
  /\ next < NTracks
  /\ idx' = [idx EXCEPT ![w] = next]
  /\ outcome' = [outcome EXCEPT ![next] = "claimed"]
  /\ msgs' = [msgs EXCEPT ![w] = 0]
  /\ pc' = [pc EXCEPT ![w] = "work"]
  /\ UNCHANGED <<counters, mu, sLock, finished, parentState, shown, counted>>

\* The section that claims a track: read next, test it, increment it.
Claim(w) ==
  /\ pc[w] = "claim"
  /\ mu = Nobody
  /\ next < NTracks
  /\ idx' = [idx EXCEPT ![w] = next]
  /\ next' = next + 1
  /\ outcome' = [outcome EXCEPT ![next] = "claimed"]
  /\ msgs' = [msgs EXCEPT ![w] = 0]
  /\ pc' = [pc EXCEPT ![w] = "work"]
  /\ UNCHANGED <<done, failed, mu, sLock, finished, parentState, shown, counted>>

\* Mutant: no break when the tracks are used up.
Leave_Spins(w) ==
  /\ pc[w] = "claim"
  /\ mu = Nobody
  /\ next >= NTracks
  /\ UNCHANGED vars

\* The same section when no track is left.
Leave(w) ==
  /\ pc[w] = "claim"
  /\ mu = Nobody
  /\ next >= NTracks
  /\ pc' = [pc EXCEPT ![w] = "gone"]
  /\ UNCHANGED <<counters, mu, sLock, idx, finished, msgs, parentState, shown, outcome, counted>>

\* batch_progress_cb: read the counts under pool.mu, release it, ...
ReadCounts(w) ==
  /\ pc[w] = "work"
  /\ msgs[w] < MaxMsgs
  /\ mu = Nobody
  /\ msgs' = [msgs EXCEPT ![w] = @ + 1]
  /\ finished' = [finished EXCEPT ![w] = done + failed]
  /\ pc' = [pc EXCEPT ![w] = "tell"]
  /\ UNCHANGED <<counters, mu, sLock, idx, parentState, shown, outcome, counted>>

\* ... and write what may by now be an old count under s->lock.
TellProgress(w) ==
  /\ pc[w] = "tell"
  /\ sLock = Nobody
  /\ shown' = [kind |-> "progress", n |-> finished[w]]
  /\ pc' = [pc EXCEPT ![w] = "work"]
  /\ UNCHANGED <<counters, mu, sLock, idx, finished, msgs, parentState, outcome, counted>>

\* resolve_download_track and download_track return: success or failure.
TrackReturns(w) ==
  /\ pc[w] = "work"
  /\ \E result \in {"recordOk", "recordBad"} : pc' = [pc EXCEPT ![w] = result]
  /\ UNCHANGED <<counters, mu, sLock, idx, finished, msgs, parentState, shown, outcome, counted>>

\* Mutant: a failed track is counted as done.
Record_AlwaysDone(w) ==
  /\ pc[w] \in {"recordOk", "recordBad"}
  /\ mu = Nobody
  /\ mu' = w
  /\ done' = done + 1
  /\ finished' = [finished EXCEPT ![w] = done' + failed]
  /\ outcome' = [outcome EXCEPT ![idx[w]] = IF pc[w] = "recordOk" THEN "done" ELSE "failed"]
  /\ pc' = [pc EXCEPT ![w] = "nested"]
  /\ UNCHANGED <<next, failed, sLock, idx, msgs, parentState, shown, counted>>

\* Mutant: pool.mu is unlocked before the status is written.
Record_UnlocksFirst(w) ==
  /\ pc[w] \in {"recordOk", "recordBad"}
  /\ mu = Nobody
  /\ done' = IF pc[w] = "recordOk" THEN done + 1 ELSE done
  /\ failed' = IF pc[w] = "recordOk" THEN failed ELSE failed + 1
  /\ finished' = [finished EXCEPT ![w] = done' + failed']
  /\ outcome' = [outcome EXCEPT ![idx[w]] = IF pc[w] = "recordOk" THEN "done" ELSE "failed"]
  /\ pc' = [pc EXCEPT ![w] = "nested"]
  /\ UNCHANGED <<next, mu, sLock, idx, msgs, parentState, shown, counted>>

\* Lock pool.mu and count the outcome; pool.mu stays locked.
Record(w) ==
  /\ pc[w] \in {"recordOk", "recordBad"}
  /\ mu = Nobody
  /\ mu' = w
  /\ done' = IF pc[w] = "recordOk" THEN done + 1 ELSE done
  /\ failed' = IF pc[w] = "recordOk" THEN failed ELSE failed + 1
  /\ finished' = [finished EXCEPT ![w] = done' + failed']
  /\ outcome' = [outcome EXCEPT ![idx[w]] = IF pc[w] = "recordOk" THEN "done" ELSE "failed"]
  /\ pc' = [pc EXCEPT ![w] = "nested"]
  /\ UNCHANGED <<next, sLock, idx, msgs, parentState, shown, counted>>

LockStatus(w) ==
  /\ pc[w] = "nested"
  /\ sLock = Nobody
  /\ sLock' = w
  /\ pc' = [pc EXCEPT ![w] = "write"]
  /\ UNCHANGED <<counters, mu, idx, finished, msgs, parentState, shown, outcome, counted>>

WriteCount(w) ==
  /\ pc[w] = "write"
  /\ shown' = [kind |-> "count", n |-> finished[w]]
  /\ counted' = finished[w]
  /\ sLock' = Nobody
  /\ pc' = [pc EXCEPT ![w] = "release"]
  /\ UNCHANGED <<counters, mu, idx, finished, msgs, parentState, outcome>>

ReleasePool(w) ==
  /\ pc[w] = "release"
  /\ mu' = Nobody
  /\ pc' = [pc EXCEPT ![w] = "claim"]
  /\ UNCHANGED <<counters, sLock, idx, finished, msgs, parentState, shown, outcome, counted>>

------------------------------------------------------------------------------
(* The UI thread handles a key under s->lock and may replace the status.   *)

UiLocks ==
  /\ sLock = Nobody
  /\ sLock' = UI
  /\ UNCHANGED <<counters, mu, pc, idx, finished, msgs, parentState, shown, outcome, counted>>

UiUnlocks ==
  /\ sLock = UI
  /\ sLock' = Nobody
  /\ shown' \in {shown, [kind |-> "other", n |-> 0]}
  /\ UNCHANGED <<counters, mu, pc, idx, finished, msgs, parentState, outcome, counted>>

------------------------------------------------------------------------------
Parent == CreateWorker \/ CreateFails \/ JoinWorker \/ JoinGarbage \/ Report

WorkerStep(w) ==
  \/ Claim(w) \/ Leave(w) \/ ReadCounts(w) \/ TellProgress(w) \/ TrackReturns(w)
  \/ Record(w) \/ LockStatus(w) \/ WriteCount(w) \/ ReleasePool(w)

UiStep == UiLocks \/ UiUnlocks

Next ==
  \/ Running /\ Parent
  \/ Running /\ \E w \in Worker : WorkerStep(w)
  \/ Running /\ UiStep
  \/ ~Running /\ UNCHANGED vars

Spec == Init /\ [][Next]_vars

(***************************************************************************)
(* Threads are scheduled; a download ends, because every request has a     *)
(* timeout and the retries are counted.  The waits for a mutex are strongly*)
(* fair: the UI thread sleeps in its wait for a key between two sections,  *)
(* so a waiter is not overtaken for ever.                                  *)
(***************************************************************************)
Fairness ==
  /\ SF_vars(Running /\ Parent)
  /\ \A w \in Worker : SF_vars(Running /\ WorkerStep(w))
  /\ WF_vars(Running /\ UiUnlocks)

FairSpec == Spec /\ Fairness

------------------------------------------------------------------------------
(* Properties.                                                             *)

\* Every variable has its type; pool.next never passes pool.n.
TypeOK ==
  /\ next \in 0 .. NTracks
  /\ done \in Nat
  /\ failed \in Nat
  /\ mu \in Worker \cup {Nobody}
  /\ sLock \in Worker \cup {Nobody, UI}
  /\ pc \in [Worker -> WorkerPC]
  /\ idx \in [Worker -> Track]
  /\ finished \in [Worker -> Nat]
  /\ msgs \in [Worker -> 0 .. MaxMsgs]
  /\ handle \in [Worker -> {"unset", "thread", "garbage"}]
  /\ parent \in ParentPC
  /\ ti \in Worker
  /\ shown \in [kind : {"other", "progress", "count", "allDone", "someErrors"},
                n : Nat]
  /\ outcome \in [Track -> Outcome]
  /\ counted \in Nat

\* Work distribution (main.c:309-313): the tracks below next, and no others,
\* have been claimed; a claimed track has one worker and only one, so no track
\* is downloaded twice at a time and none is dropped.
ClaimedExactlyOnce ==
  /\ \A t \in Track : outcome[t] # "waiting" <=> t < next
  /\ \A t \in Track : outcome[t] = "claimed" <=> \E w \in Worker : Busy(w) /\ idx[w] = t
  /\ \A v, w \in Worker : Busy(v) /\ Busy(w) /\ idx[v] = idx[w] => v = w

Finished(kind) == {t \in Track : outcome[t] = kind}

\* The two counters (main.c:329-330) agree with what happened to the tracks.
CountsMatchOutcomes ==
  /\ done = Cardinality(Finished("done"))
  /\ failed = Cardinality(Finished("failed"))

SomeWorkerCreated == \E w \in Worker : handle[w] = "thread"

\* The message that closes a batch (main.c:518-524, 621-624) is exact: every
\* track has an outcome, the count is the number of files, and errors are
\* mentioned exactly when a track is missing.  If no thread could be created
\* at all nothing is guaranteed: the message then reads 0 of n, without errors.
ReportIsExact ==
  parent = "end" /\ SomeWorkerCreated =>
    /\ done + failed = NTracks
    /\ shown.kind \in {"allDone", "someErrors"} => shown.n = Cardinality(Finished("done"))
    /\ shown.kind = "allDone" => Finished("done") = Track

\* When the parent destroys pool.mu and frees the tracks (main.c:516-525,
\* 619-626), no worker can touch the pool any more, whichever creates failed.
PoolOutlivesWorkers ==
  parent \in {"report", "end"} =>
    /\ \A w \in Worker : pc[w] \in {"absent", "gone"}
    /\ mu = Nobody

\* The counts the workers write as they finish tracks go up by one each time:
\* taking s->lock inside pool.mu (main.c:328-347) keeps two workers from
\* writing their counts in the other order.
CountsNeverGoBack == [][counted' # counted => counted' = counted + 1]_vars

\* The batch comes to its last message (or to the undefined join): two nested
\* mutexes, the UI and the joins never wait for each other in a circle.
BatchEnds == <>(parent \in {"end", "crashed"})
================================================================================
