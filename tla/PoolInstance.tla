----------------------------- MODULE PoolInstance -----------------------------
(***************************************************************************)
(* DownloadPool under names that can stand beside those of TaskQueue, one  *)
(* of whose tasks creates the pool: TLC checks it here, and TaskQueueProofs*)
(* has the proofs about both.                                              *)
(***************************************************************************)
EXTENDS Integers, FiniteSets

CONSTANTS NTracks, MaxThreads, MaxMsgs
VARIABLES next, done, failed, mu, sLock, at, idx, finished, msgs,
          handle, parent, ti, shown, outcome, counted

\* The pool; its pc is called at here.
Pool == INSTANCE DownloadPool WITH pc <- at

ASSUME PoolAssumption == Pool!DownloadPoolAssumption

PoolSpec == Pool!FairSpec

\* main.c:309-313: a track that was claimed has one worker and only one, so none
\* is downloaded twice at a time and none is dropped.
ClaimedExactlyOnce == Pool!ClaimedExactlyOnce

\* main.c:518-524: the message that closes a batch is exact, if a thread could be
\* created at all.
ReportIsExact == Pool!ReportIsExact

\* main.c:514-525: no worker can touch the pool when its mutex is destroyed and
\* its tracks are freed, whichever creates failed.
PoolOutlivesWorkers == Pool!PoolOutlivesWorkers

\* main.c:328-347: the counts that the workers write as they finish tracks go up
\* by one each time.
CountsNeverGoBack == Pool!CountsNeverGoBack

\* main.c:512-527: the batch comes to its last message; two nested mutexes, the
\* UI and the joins never wait for each other in a circle.
BatchEnds == Pool!BatchEnds
===============================================================================
