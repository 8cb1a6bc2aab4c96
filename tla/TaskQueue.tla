------------------------------ MODULE TaskQueue ------------------------------
(***************************************************************************)
(* The background task queue of main.c: the UI thread pushes tasks into a  *)
(* ring buffer, a bg_worker thread drains it and retires when it is empty, *)
(* the next push starts a new worker, and leaving the key loop joins the   *)
(* worker that is still running.                                           *)
(*                                                                         *)
(* Every access to q_head, q_tail, q_count, queue[], bg_running and        *)
(* bg_thread is inside one s->lock section, so a section is one action;    *)
(* what happens between two sections (the task itself, a thread that has   *)
(* unlocked but not ended, the UI between reading bg_running and joining)  *)
(* is a state of its own.  What a task does is in the other modules: here  *)
(* a task is the serial number of its acceptance.                          *)
(***************************************************************************)
EXTENDS Integers, Sequences

CONSTANTS
  Thread,     \* the threads the OS can give to bg_worker before create fails;
              \* a finished worker is never joined, so its slot never returns
  NoThread,   \* bg_thread before the first create and after a failed one
  MaxQueue,   \* SQT_MAX_QUEUE
  MaxTasks    \* bound: pushes accepted in one session

ASSUME TaskQueueAssumption ==
  /\ NoThread \notin Thread
  /\ MaxQueue \in Nat \ {0}
  /\ MaxTasks \in Nat

VARIABLES
  queue,      \* s->queue: the ring's slots (0 before a slot is first written)
  qHead,      \* s->q_head: next slot to pop
  qTail,      \* s->q_tail: next slot to fill
  qCount,     \* s->q_count
  bgRunning,  \* s->bg_running
  bgThread,   \* s->bg_thread: handle of the last worker created
  status,     \* s->status, as far as push_task writes it
  pc,         \* where each bg_worker thread is
  task,       \* bg_worker's local t: the task the thread popped last
  ui,         \* where the UI thread (main) is
  issued,     \* history: tasks accepted so far
  spawnOk,    \* history: did the last sqt_thread_create succeed?
  log         \* history: tasks finished, in order

vars == <<queue, qHead, qTail, qCount, bgRunning, bgThread, status,
          pc, task, ui, issued, spawnOk, log>>

ring == <<queue, qHead, qTail, qCount>>

\* "top" is about to take the lock, "exec" is inside the switch, "ending" has
\* cleared bg_running and unlocked but has not returned, "gone" has returned.
WorkerPC == {"unused", "top", "exec", "ending", "gone"}
UiPC     == {"loop", "quit", "joining", "exited", "killed"}
Slot     == 0 .. (MaxQueue - 1)

ProcessAlive == ui \notin {"exited", "killed"}

\* A thread that will still look at the queue or run a task.
Live(t) == pc[t] \in {"top", "exec"}

Init ==
  /\ queue = [i \in Slot |-> 0]
  /\ qHead = 0 /\ qTail = 0 /\ qCount = 0
  /\ bgRunning = FALSE
  /\ bgThread = NoThread
  /\ status = "other"
  /\ pc = [t \in Thread |-> "unused"]
  /\ task = [t \in Thread |-> 0]
  /\ ui = "loop"
  /\ issued = 0
  /\ spawnOk = TRUE
  /\ log = << >>

------------------------------------------------------------------------------
(* push_task, called by the UI thread from the key handlers.               *)

\* Mutant: the index is not reduced modulo the size.
NextSlot_NoWrap(i) == i + 1

NextSlot(i) == (i + 1) % MaxQueue

CreateFails ==
  /\ bgRunning' = FALSE
  /\ bgThread' = NoThread
  /\ status' = "no_thread"
  /\ spawnOk' = FALSE
  /\ UNCHANGED <<pc, task>>

CreateWorker(t) ==
  /\ pc[t] = "unused"
  /\ pc' = [pc EXCEPT ![t] = "top"]
  /\ bgThread' = t
  /\ bgRunning' = TRUE
  /\ spawnOk' = TRUE
  /\ status' = "other"
  /\ UNCHANGED task

\* bg_running is set: the running worker will find the task.
LeaveToWorker ==
  /\ bgRunning
  /\ status' = "other"
  /\ UNCHANGED <<bgRunning, bgThread, spawnOk, pc, task>>

\* Mutant: a thread is created without looking at bg_running.
StartWorker_Unchecked ==
  \/ \E t \in Thread : CreateWorker(t)
  \/ CreateFails

StartWorker ==
  /\ ~bgRunning
  /\ \/ \E t \in Thread : CreateWorker(t)
     \/ CreateFails

\* Mutant: q_tail is not advanced.
Enqueue_TailStays ==
  /\ qCount < MaxQueue
  /\ issued < MaxTasks
  /\ queue' = [queue EXCEPT ![qTail] = issued + 1]
  /\ qCount' = qCount + 1
  /\ issued' = issued + 1
  /\ UNCHANGED <<qHead, qTail>>

Enqueue ==
  /\ qCount < MaxQueue
  /\ issued < MaxTasks
  /\ queue' = [queue EXCEPT ![qTail] = issued + 1]
  /\ qTail' = NextSlot(qTail)
  /\ qCount' = qCount + 1
  /\ issued' = issued + 1
  /\ UNCHANGED qHead

PushAccepted ==
  /\ ui = "loop"
  /\ Enqueue
  /\ LeaveToWorker \/ StartWorker
  /\ UNCHANGED <<ui, log>>

\* Mutant: a full queue does not return before the thread is looked at.
PushRefused_StartsWorker ==
  /\ ui = "loop"
  /\ qCount >= MaxQueue
  /\ LeaveToWorker \/ StartWorker
  /\ UNCHANGED <<ring, ui, issued, log>>

\* The early return of a full queue comes before the thread is looked at.
PushRefused ==
  /\ ui = "loop"
  /\ qCount >= MaxQueue
  /\ status' = "queue_full"
  /\ UNCHANGED <<ring, bgRunning, bgThread, pc, task, ui, issued, spawnOk, log>>

------------------------------------------------------------------------------
(* bg_worker.                                                              *)

\* Mutant: the slot is copied after q_head has moved.
Pop_CopiesAfterAdvance(t) ==
  /\ ProcessAlive
  /\ pc[t] = "top"
  /\ qCount # 0
  /\ task' = [task EXCEPT ![t] = queue[NextSlot(qHead)]]
  /\ qHead' = NextSlot(qHead)
  /\ qCount' = qCount - 1
  /\ pc' = [pc EXCEPT ![t] = "exec"]
  /\ UNCHANGED <<queue, qTail, bgRunning, bgThread, status, ui, issued, spawnOk, log>>

\* The locked section at the top of the loop, with a task to pop.
Pop(t) ==
  /\ ProcessAlive
  /\ pc[t] = "top"
  /\ qCount # 0
  /\ task' = [task EXCEPT ![t] = queue[qHead]]
  /\ qHead' = NextSlot(qHead)
  /\ qCount' = qCount - 1
  /\ pc' = [pc EXCEPT ![t] = "exec"]
  /\ UNCHANGED <<queue, qTail, bgRunning, bgThread, status, ui, issued, spawnOk, log>>

\* The switch has run to its break; its status messages replace push_task's.
Finish(t) ==
  /\ ProcessAlive
  /\ pc[t] = "exec"
  /\ pc' = [pc EXCEPT ![t] = "top"]
  /\ log' = Append(log, task[t])
  /\ status' = "other"
  /\ UNCHANGED <<ring, bgRunning, bgThread, task, ui, issued, spawnOk>>

\* Mutant: the worker leaves without clearing bg_running.
Retire_FlagStays(t) ==
  /\ ProcessAlive
  /\ pc[t] = "top"
  /\ qCount = 0
  /\ pc' = [pc EXCEPT ![t] = "ending"]
  /\ UNCHANGED <<ring, bgRunning, bgThread, status, task, ui, issued, spawnOk, log>>

\* Mutant: the worker stays and waits for more work.
Retire_Waits(t) ==
  /\ ProcessAlive
  /\ pc[t] = "top"
  /\ qCount = 0
  /\ UNCHANGED vars

\* The same section with an empty queue: clear bg_running and leave the loop.
Retire(t) ==
  /\ ProcessAlive
  /\ pc[t] = "top"
  /\ qCount = 0
  /\ bgRunning' = FALSE
  /\ pc' = [pc EXCEPT ![t] = "ending"]
  /\ UNCHANGED <<ring, bgThread, status, task, ui, issued, spawnOk, log>>

ThreadEnds(t) ==
  /\ ProcessAlive
  /\ pc[t] = "ending"
  /\ pc' = [pc EXCEPT ![t] = "gone"]
  /\ UNCHANGED <<ring, bgRunning, bgThread, status, task, ui, issued, spawnOk, log>>

------------------------------------------------------------------------------
(* The end of main.                                                        *)

\* A quit key breaks the key loop; tui_cleanup follows.
Quit ==
  /\ ui = "loop"
  /\ ui' = "quit"
  /\ UNCHANGED <<ring, bgRunning, bgThread, status, pc, task, issued, spawnOk, log>>

\* Mutant: main returns without looking at bg_running.
ReadRunning_NoJoin ==
  /\ ui = "quit"
  /\ ui' = "exited"
  /\ UNCHANGED <<ring, bgRunning, bgThread, status, pc, task, issued, spawnOk, log>>

\* was_running is read under the lock and used after the unlock.
ReadRunning ==
  /\ ui = "quit"
  /\ ui' = IF bgRunning THEN "joining" ELSE "exited"
  /\ UNCHANGED <<ring, bgRunning, bgThread, status, pc, task, issued, spawnOk, log>>

Join ==
  /\ ui = "joining"
  /\ pc[bgThread] = "gone"
  /\ ui' = "exited"
  /\ UNCHANGED <<ring, bgRunning, bgThread, status, pc, task, issued, spawnOk, log>>

\* on_fatal_sig: _exit(1) from the handler, whatever the threads are doing.
Signal ==
  /\ ProcessAlive
  /\ ui' = "killed"
  /\ UNCHANGED <<ring, bgRunning, bgThread, status, pc, task, issued, spawnOk, log>>

Terminated == ~ProcessAlive /\ UNCHANGED vars

Worker(t) == Pop(t) \/ Finish(t) \/ Retire(t) \/ ThreadEnds(t)

Next ==
  \/ PushAccepted \/ PushRefused
  \/ Quit \/ ReadRunning \/ Join \/ Signal
  \/ \E t \in Thread : Worker(t)
  \/ Terminated

Spec == Init /\ [][Next]_vars

(***************************************************************************)
(* The scheduler runs every thread, every task comes to its break (libcurl *)
(* has a timeout on each request, WinHTTP on each phase), and main runs    *)
(* once the key loop is left.  Nothing obliges the user to push or to      *)
(* quit, or a signal to come.                                              *)
(***************************************************************************)
Fairness ==
  /\ \A t \in Thread : WF_vars(Worker(t))
  /\ WF_vars(ReadRunning)
  /\ WF_vars(Join)

FairSpec == Spec /\ Fairness

------------------------------------------------------------------------------
(* Properties.                                                             *)

\* The number of tasks a worker has popped: all the accepted ones that the
\* ring no longer holds.
Started == issued - qCount

Stranded == qCount > 0 /\ ~bgRunning

\* Every variable has its type; in particular the ring indices stay slots.
TypeOK ==
  /\ queue \in [Slot -> Nat]
  /\ qHead \in Slot
  /\ qTail \in Slot
  /\ qCount \in 0 .. MaxQueue
  /\ bgRunning \in BOOLEAN
  /\ bgThread \in Thread \cup {NoThread}
  /\ status \in {"other", "queue_full", "no_thread"}
  /\ pc \in [Thread -> WorkerPC]
  /\ task \in [Thread -> Nat]
  /\ ui \in UiPC
  /\ issued \in 0 .. MaxTasks
  /\ spawnOk \in BOOLEAN
  /\ log \in Seq(Nat)

\* The occupied part of the ring (main.c:366-368, 649-651) is exactly the
\* accepted tasks that have not begun, in the order of acceptance, however
\* often the indices have wrapped and workers have come and gone.
RingHoldsPending ==
  /\ qTail = (qHead + qCount) % MaxQueue
  /\ \A i \in 0 .. (qCount - 1) :
        queue[(qHead + i) % MaxQueue] = Started + 1 + i

\* bg_running tells the truth (main.c:362, 653-656): when it is set the thread
\* in bg_thread, and no other, is in the loop; when it is clear no thread is.
\* So tasks never overlap, and the handle main joins is the right one.
FlagNamesTheOnlyWorker ==
  /\ \A t \in Thread : Live(t) => bgRunning /\ bgThread = t
  /\ bgRunning => bgThread \in Thread /\ Live(bgThread)

\* No lost wake-up: a waiting task always has a worker that will still look
\* at the queue, unless the last attempt to create one failed
\* (main.c:360-364 against 649-659).
NoLostWakeup ==
  qCount > 0 => \/ \E t \in Thread : Live(t)
                \/ ~spawnOk

\* Tasks run one after the other, in the order of acceptance, each once
\* (main.c:366-371): the finished ones are 1, 2, ... up to the last one begun,
\* less the one a worker is executing.  ImplementsExecutor says the same of the
\* refined state, so no run checks it by itself; it is a part of the proofs.
Executing == \E t \in Thread : pc[t] = "exec"

RunsInOrderOnce ==
  /\ \A t \in Thread : pc[t] = "exec" => task[t] = Started
  /\ Len(log) = IF Executing THEN Started - 1 ELSE Started
  /\ \A i \in 1 .. Len(log) : log[i] = i

\* When main returns in good order (main.c:1286-1294) no thread is running a
\* task or about to take the lock main destroys, and every accepted task has
\* been carried out, except those that no thread could be created for.
CleanExit ==
  ui = "exited" =>
    /\ \A t \in Thread : ~Live(t)
    /\ Len(log) = Started
    /\ qCount > 0 => ~spawnOk

\* What push_task cannot recover from (main.c:642-647): once the ring is full
\* and no thread runs, the early return comes first on every push, so no
\* worker is ever started again, however many threads have become available.
FullRingWithoutWorkerIsFinal ==
  [][qCount = MaxQueue /\ ~bgRunning => qCount' = MaxQueue /\ ~bgRunning']_vars

\* Every accepted task is carried out, unless it is left in the queue by a
\* failed create or the process is killed.
AcceptedTaskFinishes ==
  \A k \in 1 .. MaxTasks :
    issued >= k ~> \/ \E i \in DOMAIN log : log[i] = k
                   \/ Stranded
                   \/ ui = "killed"

\* Leaving the key loop ends the process: main never waits for ever in
\* sqt_thread_join, although the worker first drains the whole queue.
QuitReturns == ui = "quit" ~> ~ProcessAlive

\* TaskQueue implements the serial executor.
ActiveTask ==
  IF Executing
  THEN task[CHOOSE t \in Thread : pc[t] = "exec"]
  ELSE 0

Executor ==
  INSTANCE TaskExecutor WITH
    Capacity    <- MaxQueue,
    MaxAccepted <- MaxTasks,
    accepted    <- issued,
    pending     <- [i \in 1 .. qCount |-> queue[(qHead + i - 1) % MaxQueue]],
    active      <- ActiveTask,
    completed   <- log,
    open        <- CASE ui = "loop" -> "open"
                     [] ui \in {"quit", "joining"} -> "closing"
                     [] OTHER -> "over"

\* Serial, first-in first-out, exactly once, and no exit under a running task.
ImplementsExecutor == Executor!Spec
==============================================================================
