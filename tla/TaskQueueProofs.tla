---------------------------- MODULE TaskQueueProofs ----------------------------
(***************************************************************************)
(* Proofs about TaskQueue for every set of threads, queue size and number  *)
(* of tasks.  The inductive invariant IInv joins the ring, the flag, the   *)
(* wake-up and the order of execution: none of them is inductive alone.    *)
(* Then about DownloadPool, which is what one of those tasks does.         *)
(***************************************************************************)
EXTENDS TaskQueue, PoolInstance, FiniteSetTheorems, SequenceTheorems, TLAPS

------------------------------------------------------------------------------
(* Ring arithmetic: % is only ever applied to a sum of two ring offsets.   *)

\* Below the size, reduction does nothing.
LEMMA ModSmall ==
  ASSUME NEW N \in Nat \ {0}, NEW x \in 0 .. (N - 1)
  PROVE  x % N = x
  BY SMT

\* One turn above, it subtracts the size.
LEMMA ModWrap ==
  ASSUME NEW N \in Nat \ {0}, NEW x \in N .. (2 * N - 1)
  PROVE  x % N = x - N
  BY SMT

\* The slot of the j-th task after slot h, for every j up to a full turn.
LEMMA RingOffset ==
  ASSUME NEW N \in Nat \ {0}, NEW h \in 0 .. (N - 1), NEW j \in 0 .. N
  PROVE  /\ (h + j) % N \in 0 .. (N - 1)
         /\ (h + j) % N = IF h + j < N THEN h + j ELSE h + j - N
  <1>1. CASE h + j < N
    BY <1>1, h + j \in 0 .. (N - 1), ModSmall
  <1>2. CASE h + j >= N
    BY <1>2, h + j \in N .. (2 * N - 1), ModWrap
  <1> QED
    BY <1>1, <1>2

\* Advancing the first index is the same as advancing the offset.
LEMMA RingShift ==
  ASSUME NEW N \in Nat \ {0}, NEW h \in 0 .. (N - 1), NEW j \in 0 .. (N - 1)
  PROVE  (((h + 1) % N) + j) % N = (h + (j + 1)) % N
  <1>1. (h + 1) % N = IF h + 1 < N THEN h + 1 ELSE h + 1 - N
    BY RingOffset, 1 \in 0 .. N
  <1>2. (h + 1) % N \in 0 .. (N - 1)
    BY RingOffset, 1 \in 0 .. N
  <1>3. (((h + 1) % N) + j) % N =
          IF ((h + 1) % N) + j < N THEN ((h + 1) % N) + j ELSE ((h + 1) % N) + j - N
    <2> DEFINE g == (h + 1) % N
    <2>1. g \in 0 .. (N - 1)
      BY <1>2
    <2> HIDE DEF g
    <2>2. (g + j) % N = IF g + j < N THEN g + j ELSE g + j - N
      BY <2>1, RingOffset, j \in 0 .. N
    <2> QED
      BY <2>2 DEF g
  <1>4. (h + (j + 1)) % N = IF h + (j + 1) < N THEN h + (j + 1) ELSE h + (j + 1) - N
    BY RingOffset, j + 1 \in 0 .. N
  <1> QED
    BY <1>1, <1>3, <1>4

\* Two tasks of a ring that is not over-full are in different slots.
LEMMA RingInjective ==
  ASSUME NEW N \in Nat \ {0}, NEW h \in 0 .. (N - 1),
         NEW i \in 0 .. (N - 1), NEW j \in 0 .. (N - 1),
         (h + i) % N = (h + j) % N
  PROVE  i = j
  <1>1. /\ (h + i) % N = IF h + i < N THEN h + i ELSE h + i - N
        /\ (h + j) % N = IF h + j < N THEN h + j ELSE h + j - N
    BY RingOffset, i \in 0 .. N, j \in 0 .. N
  <1> QED
    BY <1>1

------------------------------------------------------------------------------
(* Typing.                                                                 *)

\* Every push_task that finds room does one of three things with the thread.
LEMMA PushCases ==
  ASSUME PushAccepted
  PROVE  \/ LeaveToWorker
         \/ ~bgRunning /\ \E t \in Thread : CreateWorker(t)
         \/ ~bgRunning /\ CreateFails
  BY DEF PushAccepted, StartWorker

\* TypeOK is inductive by itself: indices are reduced into the ring and the
\* counter is only decremented when it is not zero (main.c:361-368, 642-651).
LEMMA TypeStep == TypeOK /\ [Next]_vars => TypeOK'
  <1> SUFFICES ASSUME TypeOK, [Next]_vars
               PROVE  TypeOK'
    OBVIOUS
  <1> USE TaskQueueAssumption DEF TypeOK, ring, WorkerPC, UiPC
  <1>0. \A i \in Slot : NextSlot(i) \in Slot
    BY RingOffset, 1 \in 0 .. MaxQueue DEF Slot, NextSlot
  <1>1. CASE PushAccepted
    <2>1. /\ queue' \in [Slot -> Nat] /\ qHead' \in Slot /\ qTail' \in Slot
          /\ qCount' \in 0 .. MaxQueue /\ issued' \in 0 .. MaxTasks
          /\ ui' = ui /\ log' = log
      BY <1>0, <1>1 DEF PushAccepted, Enqueue
    <2>2. CASE LeaveToWorker
      BY <2>1, <2>2 DEF LeaveToWorker
    <2>3. ASSUME NEW t \in Thread, CreateWorker(t)
          PROVE  TypeOK'
      BY <2>1, <2>3 DEF CreateWorker
    <2>4. CASE CreateFails
      BY <2>1, <2>4 DEF CreateFails
    <2> QED
      BY <1>1, <2>2, <2>3, <2>4, PushCases
  <1>2. CASE PushRefused
    BY <1>2 DEF PushRefused
  <1>3. CASE Quit \/ ReadRunning \/ Join \/ Signal
    BY <1>3 DEF Quit, ReadRunning, Join, Signal
  <1>4. ASSUME NEW t \in Thread, Pop(t)
        PROVE  TypeOK'
    BY <1>0, <1>4 DEF Pop
  <1>5. ASSUME NEW t \in Thread, Finish(t)
        PROVE  TypeOK'
    BY <1>5 DEF Finish
  <1>6. ASSUME NEW t \in Thread, Retire(t)
        PROVE  TypeOK'
    BY <1>6 DEF Retire
  <1>7. ASSUME NEW t \in Thread, ThreadEnds(t)
        PROVE  TypeOK'
    BY <1>7 DEF ThreadEnds
  <1>8. CASE UNCHANGED vars
    BY <1>8 DEF vars
  <1> QED
    BY <1>1, <1>2, <1>3, <1>4, <1>5, <1>6, <1>7, <1>8
    DEF Next, Worker, Terminated

\* The session starts with an empty ring and no worker.
LEMMA TypeInit == Init => TypeOK
  BY TaskQueueAssumption DEF Init, TypeOK, Slot, WorkerPC, UiPC

\* In every reachable state every variable has its type.
THEOREM TypeCorrect == Spec => []TypeOK
  BY TypeInit, TypeStep, PTL DEF Spec

------------------------------------------------------------------------------
(* The inductive invariant.                                                *)

\* main is past the join, or skipped it, only when no worker is in the loop.
ExitedAlone == ui = "exited" => \A t \in Thread : ~Live(t)

IInv ==
  /\ TypeOK
  /\ RingHoldsPending
  /\ FlagNamesTheOnlyWorker
  /\ NoLostWakeup
  /\ RunsInOrderOnce
  /\ ExitedAlone

\* The flag part alone is inductive: a worker is created only when bg_running
\* is clear, clears it as it leaves, and is the one bg_thread names
\* (main.c:361-364, 653-659).
LEMMA FlagStep ==
  ASSUME TypeOK, FlagNamesTheOnlyWorker, [Next]_vars
  PROVE  FlagNamesTheOnlyWorker'
  <1> USE TaskQueueAssumption DEF TypeOK, FlagNamesTheOnlyWorker, Live
  <1>1. CASE PushAccepted
    <2>1. CASE LeaveToWorker
      BY <2>1 DEF LeaveToWorker
    <2>2. ASSUME NEW t \in Thread, ~bgRunning, CreateWorker(t)
          PROVE  FlagNamesTheOnlyWorker'
      BY <2>2 DEF CreateWorker
    <2>3. CASE ~bgRunning /\ CreateFails
      BY <2>3 DEF CreateFails
    <2> QED
      BY <1>1, <2>1, <2>2, <2>3, PushCases
  <1>2. CASE PushRefused \/ Quit \/ ReadRunning \/ Join \/ Signal
    BY <1>2 DEF PushRefused, Quit, ReadRunning, Join, Signal
  <1>3. ASSUME NEW t \in Thread, Pop(t) \/ Finish(t) \/ Retire(t) \/ ThreadEnds(t)
        PROVE  FlagNamesTheOnlyWorker'
    BY <1>3 DEF Pop, Finish, Retire, ThreadEnds
  <1>4. CASE UNCHANGED vars
    BY <1>4 DEF vars
  <1> QED
    BY <1>1, <1>2, <1>3, <1>4 DEF Next, Worker, Terminated

\* The ring: push_task fills the slot after the youngest task, the worker
\* empties the slot of the oldest (main.c:366-368, 649-651).
LEMMA RingStep ==
  ASSUME TypeOK, RingHoldsPending, [Next]_vars
  PROVE  RingHoldsPending'
  <1> USE TaskQueueAssumption DEF TypeOK, Slot
  <1>1. CASE Enqueue
    <2>1. /\ qCount < MaxQueue /\ qHead' = qHead /\ qCount' = qCount + 1
          /\ queue' = [queue EXCEPT ![qTail] = issued + 1]
          /\ issued' = issued + 1 /\ qTail' = (qTail + 1) % MaxQueue
      BY <1>1 DEF Enqueue, NextSlot
    <2>2. qTail' = (qHead' + qCount') % MaxQueue
      <3>1. /\ qTail = IF qHead + qCount < MaxQueue
                       THEN qHead + qCount ELSE qHead + qCount - MaxQueue
            /\ (qTail + 1) % MaxQueue =
                 IF qTail + 1 < MaxQueue THEN qTail + 1 ELSE qTail + 1 - MaxQueue
        BY <2>1, RingOffset, 1 \in 0 .. MaxQueue, qCount \in 0 .. MaxQueue
        DEF RingHoldsPending
      <3>2. (qHead + (qCount + 1)) % MaxQueue =
              IF qHead + (qCount + 1) < MaxQueue
              THEN qHead + (qCount + 1) ELSE qHead + (qCount + 1) - MaxQueue
        BY <2>1, RingOffset, qCount + 1 \in 0 .. MaxQueue
      <3> QED
        BY <2>1, <3>1, <3>2
    <2>3. ASSUME NEW i \in 0 .. (qCount' - 1)
          PROVE  queue'[(qHead' + i) % MaxQueue] = Started' + 1 + i
      <3>0. i \in 0 .. (MaxQueue - 1) /\ i \in Int
        BY <2>1
      <3>1. (qHead + i) % MaxQueue \in Slot
        BY <3>0, RingOffset, i \in 0 .. MaxQueue
      <3>2. Started' = Started
        BY <2>1 DEF Started
      <3>3. CASE i = qCount
        BY <2>1, <3>1, <3>2, <3>3 DEF RingHoldsPending, Started
      <3>4. CASE i # qCount
        <4>1. i \in 0 .. (qCount - 1)
          BY <2>1, <3>4
        <4>2. (qHead + i) % MaxQueue # qTail
          BY <2>1, <3>0, <3>4, RingInjective, qCount \in 0 .. (MaxQueue - 1)
          DEF RingHoldsPending
        <4> QED
          BY <2>1, <3>1, <3>2, <4>1, <4>2 DEF RingHoldsPending
      <3> QED
        BY <3>3, <3>4
    <2> QED
      BY <2>2, <2>3 DEF RingHoldsPending
  <1>2. ASSUME NEW t \in Thread, Pop(t)
        PROVE  RingHoldsPending'
    <2>1. /\ qCount # 0 /\ qCount' = qCount - 1 /\ qHead' = (qHead + 1) % MaxQueue
          /\ queue' = queue /\ qTail' = qTail /\ issued' = issued
      BY <1>2 DEF Pop, NextSlot
    <2>2. ASSUME NEW j \in 0 .. (qCount - 1)
          PROVE  (qHead' + j) % MaxQueue = (qHead + (j + 1)) % MaxQueue
      BY <2>1, RingShift, j \in 0 .. (MaxQueue - 1)
    <2>3. qTail' = (qHead' + qCount') % MaxQueue
      BY <2>1, <2>2, qCount - 1 \in 0 .. (qCount - 1), qCount - 1 + 1 = qCount
      DEF RingHoldsPending
    <2>4. Started' = Started + 1
      BY <2>1 DEF Started
    <2>5. ASSUME NEW i \in Nat, i < qCount - 1
          PROVE  queue'[(qHead' + i) % MaxQueue] = Started' + 1 + i
      <3>1. i \in 0 .. (qCount - 1) /\ i + 1 \in 0 .. (qCount - 1)
        BY <2>5
      <3>2. queue[(qHead + (i + 1)) % MaxQueue] = Started + 1 + (i + 1)
        BY <3>1 DEF RingHoldsPending
      <3>3. queue'[(qHead' + i) % MaxQueue] = queue[(qHead + (i + 1)) % MaxQueue]
        BY <2>1, <2>2, <3>1
      <3>4. Started \in Int
        BY DEF Started
      <3> QED
        BY <2>4, <3>2, <3>3, <3>4
    <2>6. \A i \in 0 .. (qCount' - 1) : i \in Nat /\ i < qCount - 1
      BY <2>1
    <2> QED
      BY <2>3, <2>5, <2>6 DEF RingHoldsPending
  <1>3. CASE UNCHANGED <<ring, issued>>
    BY <1>3 DEF RingHoldsPending, Started, ring
  <1>4. \/ Enqueue
        \/ \E t \in Thread : Pop(t)
        \/ UNCHANGED <<ring, issued>>
    BY DEF Next, Worker, Terminated, vars, ring, PushAccepted, PushRefused,
           Quit, ReadRunning, Join, Signal, Finish, Retire, ThreadEnds
  <1> QED
    BY <1>1, <1>2, <1>3, <1>4

\* Wake-ups: the worker that retires has seen an empty queue in the section
\* that clears the flag, so a later push finds the flag clear (main.c:361-364).
LEMMA WakeupStep ==
  ASSUME TypeOK, FlagNamesTheOnlyWorker, NoLostWakeup, [Next]_vars
  PROVE  NoLostWakeup'
  <1> USE DEF TypeOK, NoLostWakeup, Live
  <1>1. CASE PushAccepted
    <2>1. CASE LeaveToWorker
      BY <2>1 DEF LeaveToWorker, FlagNamesTheOnlyWorker
    <2>2. ASSUME NEW t \in Thread, CreateWorker(t)
          PROVE  NoLostWakeup'
      BY <2>2 DEF CreateWorker
    <2>3. CASE CreateFails
      BY <2>3 DEF CreateFails
    <2> QED
      BY <1>1, <2>1, <2>2, <2>3, PushCases
  <1>2. CASE PushRefused \/ Quit \/ ReadRunning \/ Join \/ Signal
    BY <1>2 DEF PushRefused, Quit, ReadRunning, Join, Signal, ring
  <1>3. ASSUME NEW t \in Thread, Pop(t) \/ Finish(t)
        PROVE  NoLostWakeup'
    <2>1. Live(t)'
      BY <1>3 DEF Pop, Finish
    <2> QED
      BY <2>1
  <1>4. ASSUME NEW t \in Thread, Retire(t)
        PROVE  NoLostWakeup'
    BY <1>4 DEF Retire, ring
  <1>5. ASSUME NEW t \in Thread, ThreadEnds(t)
        PROVE  NoLostWakeup'
    BY <1>5 DEF ThreadEnds, ring
  <1>6. CASE UNCHANGED vars
    BY <1>6 DEF vars
  <1> QED
    BY <1>1, <1>2, <1>3, <1>4, <1>5, <1>6 DEF Next, Worker, Terminated

\* Execution order: the slot at q_head holds the task after the last one begun
\* (the ring), and no second worker is executing (the flag).
LEMMA OrderStep ==
  ASSUME TypeOK, RingHoldsPending, FlagNamesTheOnlyWorker, RunsInOrderOnce,
         [Next]_vars
  PROVE  RunsInOrderOnce'
  <1> USE TaskQueueAssumption DEF TypeOK
  <1>0. Started \in Int
    BY DEF Started
  <1>1. CASE PushAccepted
    <2>1. Started' = Started /\ log' = log
      BY <1>1 DEF PushAccepted, Enqueue, Started
    <2>2. /\ \A t \in Thread : pc'[t] = "exec" <=> pc[t] = "exec"
          /\ task' = task
      <3>1. CASE LeaveToWorker
        BY <3>1 DEF LeaveToWorker
      <3>2. ASSUME NEW t \in Thread, CreateWorker(t)
            PROVE  /\ \A u \in Thread : pc'[u] = "exec" <=> pc[u] = "exec"
                   /\ task' = task
        BY <3>2 DEF CreateWorker
      <3>3. CASE CreateFails
        BY <3>3 DEF CreateFails
      <3> QED
        BY <1>1, <3>1, <3>2, <3>3, PushCases
    <2> QED
      BY <2>1, <2>2 DEF RunsInOrderOnce, Executing
  <1>2. CASE PushRefused \/ Quit \/ ReadRunning \/ Join \/ Signal
    BY <1>2 DEF PushRefused, Quit, ReadRunning, Join, Signal, ring,
                RunsInOrderOnce, Executing, Started
  <1>3. ASSUME NEW t \in Thread, Pop(t)
        PROVE  RunsInOrderOnce'
    <2>1. /\ pc[t] = "top" /\ qCount # 0 /\ qCount' = qCount - 1
          /\ issued' = issued /\ log' = log
          /\ task' = [task EXCEPT ![t] = queue[qHead]]
          /\ pc' = [pc EXCEPT ![t] = "exec"]
      BY <1>3 DEF Pop
    <2>2. ~Executing /\ \A u \in Thread : pc[u] = "exec" => FALSE
      BY <2>1 DEF FlagNamesTheOnlyWorker, Live, Executing
    <2>3. Started' = Started + 1
      BY <2>1 DEF Started
    <2>4. queue[qHead] = Started + 1
      <3>1. (qHead + 0) % MaxQueue = qHead
        <4>1. qHead \in 0 .. (MaxQueue - 1) /\ qHead + 0 = qHead
          BY DEF Slot
        <4> QED
          BY <4>1, ModSmall
      <3>2. queue[(qHead + 0) % MaxQueue] = Started + 1 + 0
        BY <2>1, 0 \in 0 .. (qCount - 1) DEF RingHoldsPending
      <3> QED
        BY <1>0, <3>1, <3>2
    <2>5. Executing'
      BY <2>1 DEF Executing
    <2>6. Len(log) \in Nat
      OBVIOUS
    <2>7. \A u \in Thread : pc'[u] = "exec" => task'[u] = Started'
      BY <2>1, <2>2, <2>3, <2>4
    <2>8. Len(log') = Started' - 1
      BY <1>0, <2>1, <2>2, <2>3 DEF RunsInOrderOnce
    <2> QED
      BY <2>1, <2>5, <2>7, <2>8 DEF RunsInOrderOnce
  <1>4. ASSUME NEW t \in Thread, Finish(t)
        PROVE  RunsInOrderOnce'
    <2>1. /\ pc[t] = "exec" /\ pc' = [pc EXCEPT ![t] = "top"]
          /\ log' = Append(log, task[t])
          /\ qCount' = qCount /\ issued' = issued /\ task' = task
      BY <1>4 DEF Finish, ring
    <2>2. Started' = Started
      BY <2>1 DEF Started
    <2>3. task[t] = Started /\ Len(log) = Started - 1
      BY <2>1 DEF RunsInOrderOnce, Executing
    <2>4. \A u \in Thread : pc'[u] # "exec"
      BY <2>1 DEF FlagNamesTheOnlyWorker, Live
    <2>5. ~Executing'
      BY <2>4 DEF Executing
    <2>6. Len(log') = Started'
      BY <1>0, <2>1, <2>2, <2>3
    <2>7. \A i \in 1 .. Len(log') : log'[i] = i
      BY <1>0, <2>1, <2>3 DEF RunsInOrderOnce
    <2> QED
      BY <2>4, <2>5, <2>6, <2>7 DEF RunsInOrderOnce
  <1>5. ASSUME NEW t \in Thread, Retire(t) \/ ThreadEnds(t)
        PROVE  RunsInOrderOnce'
    BY <1>5 DEF Retire, ThreadEnds, ring, RunsInOrderOnce, Executing, Started
  <1>6. CASE UNCHANGED vars
    BY <1>6 DEF vars, RunsInOrderOnce, Executing, Started
  <1> QED
    BY <1>1, <1>2, <1>3, <1>4, <1>5, <1>6 DEF Next, Worker, Terminated

\* main returns only after reading bg_running clear or joining bg_thread: with
\* the flag invariant either one means that no worker is left (main.c:1286-1290).
LEMMA ExitStep ==
  ASSUME TypeOK, FlagNamesTheOnlyWorker, ExitedAlone, [Next]_vars
  PROVE  ExitedAlone'
  <1> USE DEF TypeOK, ExitedAlone, Live, FlagNamesTheOnlyWorker
  <1>1. CASE PushAccepted
    BY <1>1 DEF PushAccepted
  <1>2. CASE PushRefused \/ Quit \/ Signal
    BY <1>2 DEF PushRefused, Quit, Signal
  <1>3. CASE ReadRunning
    BY <1>3 DEF ReadRunning
  <1>4. CASE Join
    BY <1>4 DEF Join
  <1>5. ASSUME NEW t \in Thread, Pop(t) \/ Finish(t) \/ Retire(t) \/ ThreadEnds(t)
        PROVE  ExitedAlone'
    BY <1>5 DEF Pop, Finish, Retire, ThreadEnds, ProcessAlive
  <1>6. CASE UNCHANGED vars
    BY <1>6 DEF vars
  <1> QED
    BY <1>1, <1>2, <1>3, <1>4, <1>5, <1>6 DEF Next, Worker, Terminated

\* IInv holds in every reachable state.
THEOREM Invariance == Spec => []IInv
  <1>1. Init => IInv
    <2> SUFFICES ASSUME Init
                 PROVE  IInv
      OBVIOUS
    <2>1. TypeOK
      BY TypeInit
    <2>2. RingHoldsPending
      <3>1. (0 + 0) % MaxQueue = 0
        BY TaskQueueAssumption, ModSmall, 0 \in 0 .. (MaxQueue - 1)
      <3> QED
        BY <3>1 DEF Init, RingHoldsPending
    <2>3. /\ FlagNamesTheOnlyWorker /\ NoLostWakeup
          /\ RunsInOrderOnce /\ ExitedAlone
      BY DEF Init, FlagNamesTheOnlyWorker, NoLostWakeup, RunsInOrderOnce,
             ExitedAlone, Live, Executing, Started
    <2> QED
      BY <2>1, <2>2, <2>3 DEF IInv
  <1>2. IInv /\ [Next]_vars => IInv'
    BY TypeStep, FlagStep, RingStep, WakeupStep, OrderStep, ExitStep DEF IInv
  <1> QED
    BY <1>1, <1>2, PTL DEF Spec

------------------------------------------------------------------------------
(* The results.                                                            *)

\* The ring never loses, duplicates or reorders a waiting task.
THEOREM RingCorrect == Spec => []RingHoldsPending
  BY Invariance, PTL DEF IInv

\* At most one worker is in the loop, and bg_running and bg_thread name it.
THEOREM OnlyWorker == Spec => []FlagNamesTheOnlyWorker
  BY Invariance, PTL DEF IInv

\* No push is ever missed by a worker that is about to retire.
THEOREM WakeupsNotLost == Spec => []NoLostWakeup
  BY Invariance, PTL DEF IInv

\* Tasks are executed first-in first-out, one at a time, exactly once.
THEOREM ExecutionOrder == Spec => []RunsInOrderOnce
  BY Invariance, PTL DEF IInv

\* A normal exit leaves no worker behind and no runnable task undone.
THEOREM ExitIsClean == Spec => []CleanExit
  <1>1. IInv => CleanExit
    BY DEF IInv, ExitedAlone, NoLostWakeup, RunsInOrderOnce, Executing, Live, CleanExit
  <1> QED
    BY <1>1, Invariance, PTL

\* A full ring without a worker stays one: push_task has no way out of it.
THEOREM WedgedForEver == Spec => FullRingWithoutWorkerIsFinal
  <1>1. IInv /\ [Next]_vars =>
          [qCount = MaxQueue /\ ~bgRunning => qCount' = MaxQueue /\ ~bgRunning']_vars
    <2> SUFFICES ASSUME IInv, Next, qCount = MaxQueue, ~bgRunning
                 PROVE  qCount' = MaxQueue /\ ~bgRunning'
      BY DEF vars
    <2>1. ~PushAccepted
      BY TaskQueueAssumption DEF PushAccepted, Enqueue
    <2>2. \A t \in Thread : ~Live(t)
      BY DEF IInv, FlagNamesTheOnlyWorker
    <2>3. ASSUME NEW t \in Thread, Worker(t)
          PROVE  ThreadEnds(t)
      BY <2>2, <2>3 DEF Worker, Pop, Finish, Retire, Live
    <2> QED
      BY <2>1, <2>3 DEF Next, PushRefused, Quit, ReadRunning, Join, Signal,
                        ThreadEnds, Terminated, ring, vars
  <1> QED
    BY <1>1, Invariance, PTL DEF Spec, FullRingWithoutWorkerIsFinal

------------------------------------------------------------------------------
(* TaskQueue implements TaskExecutor.                                      *)

\* The abstract values of pending, active and open.
Pending == [i \in 1 .. qCount |-> queue[(qHead + i - 1) % MaxQueue]]
Open    == CASE ui = "loop" -> "open"
             [] ui \in {"quit", "joining"} -> "closing"
             [] OTHER -> "over"

\* Sequences of consecutive numbers: appending the next, taking the first.
LEMMA IntervalAppend ==
  ASSUME NEW a \in Nat, NEW n \in Nat
  PROVE  Append([i \in 1 .. n |-> a + i], a + n + 1) = [i \in 1 .. (n + 1) |-> a + i]
  <1> DEFINE s == [i \in 1 .. n |-> a + i]
             t == [i \in 1 .. (n + 1) |-> a + i]
  <1>1. s \in Seq(Nat) /\ t \in Seq(Nat) /\ Len(s) = n /\ Len(t) = n + 1
    OBVIOUS
  <1>2. /\ Append(s, a + n + 1) \in Seq(Nat)
        /\ Len(Append(s, a + n + 1)) = n + 1
        /\ \A i \in 1 .. n : Append(s, a + n + 1)[i] = s[i]
        /\ Append(s, a + n + 1)[n + 1] = a + n + 1
    BY <1>1, AppendProperties, a + n + 1 \in Nat
  <1>3. \A i \in 1 .. (n + 1) : Append(s, a + n + 1)[i] = t[i]
    BY <1>2
  <1> QED
    BY <1>1, <1>2, <1>3, SeqEqual

LEMMA IntervalHeadTail ==
  ASSUME NEW a \in Nat, NEW n \in Nat \ {0}
  PROVE  /\ [i \in 1 .. n |-> a + i] # << >>
         /\ Head([i \in 1 .. n |-> a + i]) = a + 1
         /\ Tail([i \in 1 .. n |-> a + i]) = [i \in 1 .. (n - 1) |-> a + 1 + i]
  <1> DEFINE s == [i \in 1 .. n |-> a + i]
             t == [i \in 1 .. (n - 1) |-> a + 1 + i]
  <1>1. s \in Seq(Nat) /\ t \in Seq(Nat) /\ Len(s) = n /\ Len(t) = n - 1
    OBVIOUS
  <1>2. s # << >> /\ Head(s) = a + 1
    BY <1>1
  <1>3. /\ Tail(s) \in Seq(Nat) /\ Len(Tail(s)) = n - 1
        /\ \A i \in 1 .. (n - 1) : Tail(s)[i] = s[i + 1]
    BY <1>1, <1>2, HeadTailProperties
  <1>4. \A i \in 1 .. (n - 1) : Tail(s)[i] = t[i]
    BY <1>3
  <1> QED
    BY <1>1, <1>2, <1>3, <1>4, SeqEqual

\* What the ring and the threads look like to the abstract specification: the
\* waiting tasks are the interval above Started, and at most one runs.
AbstractView ==
  /\ Started \in Nat
  /\ Pending = [i \in 1 .. qCount |-> Started + i]
  /\ Len(Pending) = qCount
  /\ ActiveTask = IF Executing THEN Started ELSE 0
  /\ Executing => Started > 0

LEMMA ViewOfInvariant ==
  ASSUME IInv
  PROVE  AbstractView
  <1> USE TaskQueueAssumption DEF IInv, TypeOK
  <1>1. Started \in Nat /\ (Executing => Started > 0)
    <2>1. Len(log) \in Nat
      OBVIOUS
    <2> QED
      BY <2>1 DEF RunsInOrderOnce, Started
  <1>2. ASSUME NEW i \in 1 .. qCount
        PROVE  queue[(qHead + i - 1) % MaxQueue] = Started + i
    <2>1. i - 1 \in 0 .. (qCount - 1) /\ qHead + i - 1 = qHead + (i - 1)
      BY DEF Slot
    <2>2. queue[(qHead + (i - 1)) % MaxQueue] = Started + 1 + (i - 1)
      BY <2>1 DEF RingHoldsPending
    <2> QED
      BY <1>1, <2>1, <2>2
  <1>3. Pending = [i \in 1 .. qCount |-> Started + i]
    BY <1>2 DEF Pending
  <1>4. Len([i \in 1 .. qCount |-> Started + i]) = qCount
    BY <1>1
  <1>5. ActiveTask = IF Executing THEN Started ELSE 0
    BY DEF RunsInOrderOnce, ActiveTask, Executing
  <1> QED
    BY <1>1, <1>3, <1>4, <1>5 DEF AbstractView

\* Every step of the threads is a step of the executor or leaves it alone.
LEMMA ExecutorStep ==
  ASSUME IInv, AbstractView, AbstractView', [Next]_vars
  PROVE  [Executor!Next]_(Executor!vars)
  <1> USE TaskQueueAssumption DEF IInv, TypeOK, AbstractView
  <1> USE DEF Executor!Next, Executor!vars
  <1>1. CASE PushAccepted
    <2>1. /\ ui = "loop" /\ ui' = ui /\ log' = log
          /\ qCount < MaxQueue /\ qCount' = qCount + 1
          /\ issued < MaxTasks /\ issued' = issued + 1
      BY <1>1 DEF PushAccepted, Enqueue
    <2>2. Started' = Started /\ Started + qCount = issued
      BY <2>1 DEF Started
    <2>3. Pending' = Append(Pending, issued + 1)
      <3>1. Pending' = [i \in 1 .. (qCount + 1) |-> Started + i]
        BY <2>1, <2>2
      <3>2. Append([i \in 1 .. qCount |-> Started + i], issued + 1)
              = [i \in 1 .. (qCount + 1) |-> Started + i]
        <4>1. Started \in Nat /\ qCount \in Nat /\ issued + 1 = Started + qCount + 1
          BY <2>2
        <4> QED
          BY ONLY <4>1, IntervalAppend
      <3> QED
        BY <3>1, <3>2
    <2>4. Executing' <=> Executing
      <3>1. CASE LeaveToWorker
        BY <3>1 DEF LeaveToWorker, Executing
      <3>2. ASSUME NEW t \in Thread, CreateWorker(t)
            PROVE  Executing' <=> Executing
        BY <3>2 DEF CreateWorker, Executing
      <3>3. CASE CreateFails
        BY <3>3 DEF CreateFails, Executing
      <3> QED
        BY <1>1, <3>1, <3>2, <3>3, PushCases
    <2>5. ActiveTask' = ActiveTask
      BY <2>2, <2>4
    <2>6. Open = "open" /\ Open' = Open
      BY <2>1 DEF Open
    <2> QED
      BY <2>1, <2>3, <2>5, <2>6 DEF Executor!Accept, Pending, Open
  <1>2. ASSUME NEW t \in Thread, Pop(t)
        PROVE  Executor!Begin
    <2>1. /\ qCount # 0 /\ qCount' = qCount - 1 /\ issued' = issued
          /\ log' = log /\ ui' = ui /\ ProcessAlive /\ pc[t] = "top"
          /\ pc' = [pc EXCEPT ![t] = "exec"]
      BY <1>2 DEF Pop
    <2>2. Started' = Started + 1
      BY <2>1 DEF Started
    <2>3. ~Executing /\ Executing'
      BY <2>1 DEF Executing, FlagNamesTheOnlyWorker, Live
    <2>4. ActiveTask = 0 /\ ActiveTask' = Started + 1
      BY <2>2, <2>3
    <2>5. /\ Pending # << >>
          /\ Head(Pending) = Started + 1
          /\ Tail(Pending) = Pending'
      <3>1. Pending' = [i \in 1 .. (qCount - 1) |-> Started + 1 + i]
        BY <2>1, <2>2
      <3>2. qCount \in Nat \ {0}
        BY <2>1
      <3> QED
        BY <3>1, <3>2, IntervalHeadTail
    <2>6. Open # "over" /\ Open' = Open
      BY <2>1 DEF Open, ProcessAlive, UiPC
    <2> QED
      BY <2>1, <2>4, <2>5, <2>6 DEF Executor!Begin, Pending, Open
  <1>3. ASSUME NEW t \in Thread, Finish(t)
        PROVE  Executor!Complete
    <2>1. /\ pc[t] = "exec" /\ pc' = [pc EXCEPT ![t] = "top"]
          /\ log' = Append(log, task[t])
          /\ UNCHANGED <<queue, qHead, qCount, issued, ui>> /\ ProcessAlive
      BY <1>3 DEF Finish, ring
    <2>2. Executing /\ task[t] = Started
      BY <2>1 DEF Executing, RunsInOrderOnce
    <2>3. ~Executing'
      BY <2>1 DEF Executing, FlagNamesTheOnlyWorker, Live
    <2>4. ActiveTask = Started /\ ActiveTask # 0 /\ ActiveTask' = 0
      BY <2>2, <2>3
    <2>5. Pending' = Pending
      BY <2>1 DEF Pending
    <2>6. Open # "over" /\ Open' = Open
      BY <2>1 DEF Open, ProcessAlive, UiPC
    <2> QED
      BY <2>1, <2>2, <2>4, <2>5, <2>6 DEF Executor!Complete, Pending, Open
  <1>4. ASSUME UNCHANGED <<queue, qHead, qCount, issued, log>>,
               Executing' <=> Executing
        PROVE  UNCHANGED <<issued, Pending, ActiveTask, log>>
    <2>1. Started' = Started /\ Pending' = Pending
      BY <1>4 DEF Started, Pending
    <2> QED
      BY <1>4, <2>1
  <1>5. ASSUME NEW t \in Thread, Retire(t) \/ ThreadEnds(t)
        PROVE  UNCHANGED Executor!vars
    <2>1. UNCHANGED <<queue, qHead, qCount, issued, log, ui>>
      BY <1>5 DEF Retire, ThreadEnds, ring
    <2>2. Executing' <=> Executing
      BY <1>5 DEF Retire, ThreadEnds, Executing
    <2>3. UNCHANGED Open
      BY <2>1 DEF Open
    <2> QED
      BY <1>4, <2>1, <2>2, <2>3 DEF Pending, Open
  <1>6. ASSUME PushRefused \/ Quit \/ ReadRunning \/ Join \/ Signal
        PROVE  UNCHANGED <<issued, Pending, ActiveTask, log>>
    <2>1. UNCHANGED <<queue, qHead, qCount, issued, log, pc>>
      BY <1>6 DEF PushRefused, Quit, ReadRunning, Join, Signal, ring
    <2> QED
      BY <1>4, <2>1 DEF Executing
  <1>7. CASE PushRefused
    <2>1. UNCHANGED Open
      BY <1>7 DEF PushRefused, Open
    <2> QED
      BY <1>6, <1>7, <2>1 DEF Pending, Open
  <1>8. CASE Quit
    <2>1. Open = "open" /\ Open' = "closing"
      BY <1>8 DEF Quit, Open
    <2> QED
      BY <1>6, <1>8, <2>1 DEF Executor!Close, Pending, Open
  <1>9. CASE Signal
    <2>1. Open # "over" /\ Open' = "over"
      BY <1>9 DEF Signal, Open, ProcessAlive, UiPC
    <2> QED
      BY <1>6, <1>9, <2>1 DEF Executor!Abort, Pending, Open
  <1>10. CASE ReadRunning \/ Join
    <2>1. CASE ui' = "joining"
      <3>1. UNCHANGED Open
        BY <1>10, <2>1 DEF ReadRunning, Join, Open
      <3> QED
        BY <1>6, <1>10, <3>1 DEF Pending, Open
    <2>2. CASE ui' = "exited"
      <3>1. ~Executing
        BY <1>10, <2>2 DEF ReadRunning, Join, Executing, Live, FlagNamesTheOnlyWorker
      <3>2. ActiveTask = 0
        BY <3>1
      <3>3. Open = "closing" /\ Open' = "over"
        BY <1>10, <2>2 DEF ReadRunning, Join, Open
      <3> QED
        BY <1>6, <1>10, <3>2, <3>3 DEF Executor!Leave, Pending, Open
    <2> QED
      BY <1>10, <2>1, <2>2 DEF ReadRunning, Join
  <1>11. CASE UNCHANGED vars
    <2>1. UNCHANGED <<queue, qHead, qCount, issued, log>> /\ UNCHANGED Open
      BY <1>11 DEF vars, Open
    <2>2. Executing' <=> Executing
      BY <1>11 DEF vars, Executing
    <2> QED
      BY <1>4, <2>1, <2>2 DEF Pending, Open
  <1> QED
    BY <1>1, <1>2, <1>3, <1>5, <1>7, <1>8, <1>9, <1>10, <1>11
    DEF Next, Worker, Terminated

\* The background queue of main.c is a serial first-in first-out executor: a
\* user who knows nothing of threads and rings can rely on TaskExecutor.
THEOREM Refinement == Spec => ImplementsExecutor
  <1>1. Init => Executor!Init
    <2> SUFFICES ASSUME Init
                 PROVE  Executor!Init
      OBVIOUS
    <2>1. [i \in 1 .. qCount |-> queue[(qHead + i - 1) % MaxQueue]] = << >>
      BY DEF Init
    <2>2. ActiveTask = 0
      BY DEF Init, ActiveTask, Executing
    <2> QED
      BY <2>1, <2>2 DEF Init, Executor!Init
  <1>2. IInv => AbstractView
    BY ViewOfInvariant
  <1>3. IInv /\ AbstractView /\ AbstractView' /\ [Next]_vars
          => [Executor!Next]_(Executor!vars)
    BY ExecutorStep
  <1> QED
    BY <1>1, <1>2, <1>3, Invariance, PTL DEF Spec, ImplementsExecutor, Executor!Spec
-------------------------------------------------------------------------------
(* The pool that a task for an album or a playlist creates, for every      *)
(* number of tracks and of workers.                                        *)

\* There is at least one worker slot, and the tracks are finitely many.
LEMMA PoolConstants ==
  /\ NTracks \in Nat \ {0} /\ MaxThreads \in Nat \ {0} /\ MaxMsgs \in Nat
  /\ Pool!NThreads \in Nat \ {0}
  /\ IsFiniteSet(Pool!Track)
  /\ Cardinality(Pool!Track) = NTracks
  <1>0. NTracks \in Nat \ {0} /\ MaxThreads \in Nat \ {0} /\ MaxMsgs \in Nat
    BY PoolAssumption DEF Pool!DownloadPoolAssumption
  <1>1. Pool!NThreads \in Nat \ {0}
    BY <1>0 DEF Pool!NThreads
  <1>2. IsFiniteSet(Pool!Track) /\ Cardinality(Pool!Track) = NTracks
    BY <1>0, FS_Interval, 0 \in Int, NTracks - 1 \in Int DEF Pool!Track
  <1> QED
    BY <1>0, <1>1, <1>2

\* The instance counts as this module does.
LEMMA PoolCounts == \A S : Pool!Cardinality(S) = Cardinality(S)
  BY DEF Pool!Cardinality, Cardinality

\* A turn of a loop of the parent stays in the loop or enters the next phase.
LEMMA TurnCases ==
  ASSUME ti \in Pool!Worker, NEW phase, NEW following, Pool!Turn(phase, following)
  PROVE  /\ parent = phase
         /\ \/ parent' = phase /\ ti' = ti + 1 /\ ti' \in Pool!Worker
            \/ parent' = following /\ ti = Pool!NThreads /\ ti' = 1 /\ ti' \in Pool!Worker
  BY PoolConstants DEF Pool!Turn, Pool!Worker

------------------------------------------------------------------------------
(* Typing.                                                                 *)

LEMMA PoolTypeInit == ASSUME Pool!Init PROVE Pool!TypeOK
  BY PoolConstants
  DEF Pool!Init, Pool!TypeOK, Pool!Worker, Pool!Track, Pool!WorkerPC, Pool!ParentPC,
      Pool!Outcome, Pool!Nobody, Pool!UI

LEMMA PoolTypeStep ==
  ASSUME Pool!TypeOK, [Pool!Next]_(Pool!vars)
  PROVE  Pool!TypeOK'
  <1> USE PoolConstants
      DEF Pool!TypeOK, Pool!counters, Pool!parentState, Pool!WorkerPC, Pool!ParentPC,
          Pool!Outcome
  <1>1. CASE Pool!CreateWorker
    BY <1>1, TurnCases DEF Pool!CreateWorker
  <1>2. CASE Pool!CreateFails
    BY <1>2, TurnCases DEF Pool!CreateFails
  <1>3. CASE Pool!JoinWorker
    BY <1>3, TurnCases DEF Pool!JoinWorker
  <1>4. CASE Pool!JoinGarbage
    BY <1>4, TurnCases DEF Pool!JoinGarbage
  <1>5. CASE Pool!Report
    BY <1>5 DEF Pool!Report
  <1>6. ASSUME NEW w \in Pool!Worker, Pool!Claim(w) \/ Pool!Leave(w)
        PROVE  Pool!TypeOK'
    <2>1. CASE Pool!Claim(w)
      <3>1. next \in Pool!Track /\ next + 1 \in 0 .. NTracks /\ 0 \in 0 .. MaxMsgs
        BY <2>1 DEF Pool!Claim, Pool!Track
      <3> QED
        BY <2>1, <3>1 DEF Pool!Claim
    <2>2. CASE Pool!Leave(w)
      BY <2>2 DEF Pool!Leave
    <2> QED
      BY <1>6, <2>1, <2>2
  <1>7. ASSUME NEW w \in Pool!Worker,
               Pool!ReadCounts(w) \/ Pool!TellProgress(w) \/ Pool!TrackReturns(w)
        PROVE  Pool!TypeOK'
    BY <1>7 DEF Pool!ReadCounts, Pool!TellProgress, Pool!TrackReturns
  <1>8. ASSUME NEW w \in Pool!Worker, Pool!Record(w)
        PROVE  Pool!TypeOK'
    BY <1>8 DEF Pool!Record
  <1>9. ASSUME NEW w \in Pool!Worker,
               Pool!LockStatus(w) \/ Pool!WriteCount(w) \/ Pool!ReleasePool(w)
        PROVE  Pool!TypeOK'
    BY <1>9 DEF Pool!LockStatus, Pool!WriteCount, Pool!ReleasePool, Pool!Nobody
  <1>10. CASE Pool!UiStep
    BY <1>10 DEF Pool!UiStep, Pool!UiLocks, Pool!UiUnlocks, Pool!UI, Pool!Nobody
  <1>11. CASE UNCHANGED Pool!vars
    BY <1>11 DEF Pool!vars
  <1> QED
    BY <1>1, <1>2, <1>3, <1>4, <1>5, <1>6, <1>7, <1>8, <1>9, <1>10, <1>11
    DEF Pool!Next, Pool!Parent, Pool!WorkerStep

\* In every reachable state every variable has its type, whatever the number
\* of tracks and threads; in particular pool.next stays within the batch.
THEOREM PoolTypeCorrect == Pool!Spec => []Pool!TypeOK
  <1>1. Pool!Init => Pool!TypeOK
    BY PoolTypeInit
  <1>2. Pool!TypeOK /\ [Pool!Next]_(Pool!vars) => Pool!TypeOK'
    BY PoolTypeStep
  <1> QED
    BY <1>1, <1>2, PTL DEF Pool!Spec

------------------------------------------------------------------------------
(* The inductive invariant.                                                *)

\* Who holds the mutexes, in terms of where the workers are.
LockState ==
  /\ \A w \in Pool!Worker : mu = w <=> at[w] \in {"nested", "write", "release"}
  /\ \A w \in Pool!Worker : sLock = w <=> at[w] = "write"

\* What the parent's progress says about the workers.
ThreadState ==
  /\ \A w \in Pool!Worker : handle[w] = "thread" <=> at[w] # "absent"
  /\ parent = "create" => \A w \in Pool!Worker : w >= ti => at[w] = "absent"
  /\ parent = "join" => \A w \in Pool!Worker : w < ti => at[w] \in {"absent", "gone"}
  /\ parent \in {"report", "end"} => \A w \in Pool!Worker : at[w] \in {"absent", "gone"}
  /\ \A w \in Pool!Worker : at[w] = "gone" => next = NTracks

\* The count a worker is about to write is the current one, because pool.mu
\* has been held since it was read; the last one written is at most one behind.
CountState ==
  /\ \A w \in Pool!Worker : at[w] \in {"nested", "write"} => finished[w] = done + failed
  /\ counted = IF \E w \in Pool!Worker : at[w] \in {"nested", "write"}
               THEN done + failed - 1 ELSE done + failed

\* The closing message, while it is displayed.
ShownState ==
  shown.kind \in {"allDone", "someErrors"} =>
    /\ parent = "end"
    /\ shown.n = done
    /\ shown.kind = "allDone" <=> failed = 0

PoolInv ==
  /\ Pool!TypeOK
  /\ LockState
  /\ ThreadState
  /\ Pool!ClaimedExactlyOnce
  /\ Pool!CountsMatchOutcomes
  /\ CountState
  /\ ShownState

------------------------------------------------------------------------------
(* Each part of IInv is preserved.                                         *)

\* Mutual exclusion: a mutex is taken only when nobody holds it, and a worker
\* is in its own section exactly while it is the holder (main.c:328-347).
LEMMA LockStep ==
  ASSUME Pool!TypeOK, LockState, ThreadState, [Pool!Next]_(Pool!vars)
  PROVE  LockState'
  <1> USE PoolConstants DEF Pool!TypeOK, LockState, Pool!counters, Pool!parentState
  <1>1. CASE Pool!CreateWorker
    <2>1. at[ti] = "absent"
      BY <1>1 DEF Pool!CreateWorker, Pool!Turn, ThreadState, Pool!Worker
    <2> QED
      BY <1>1, <2>1 DEF Pool!CreateWorker
  <1>2. CASE Pool!CreateFails \/ Pool!JoinWorker \/ Pool!JoinGarbage \/ Pool!Report
    BY <1>2 DEF Pool!CreateFails, Pool!JoinWorker, Pool!JoinGarbage, Pool!Report
  <1>3. ASSUME NEW w \in Pool!Worker,
               \/ Pool!Claim(w) \/ Pool!Leave(w) \/ Pool!ReadCounts(w) \/ Pool!TellProgress(w)
               \/ Pool!TrackReturns(w)
        PROVE  LockState'
    BY <1>3 DEF Pool!Claim, Pool!Leave, Pool!ReadCounts, Pool!TellProgress,
                Pool!TrackReturns
  <1>4. ASSUME NEW w \in Pool!Worker, Pool!Record(w)
        PROVE  LockState'
    BY <1>4 DEF Pool!Record, Pool!Nobody, Pool!Worker
  <1>5. ASSUME NEW w \in Pool!Worker, Pool!LockStatus(w)
        PROVE  LockState'
    BY <1>5 DEF Pool!LockStatus, Pool!Nobody, Pool!Worker
  <1>6. ASSUME NEW w \in Pool!Worker, Pool!WriteCount(w)
        PROVE  LockState'
    BY <1>6 DEF Pool!WriteCount, Pool!Nobody, Pool!Worker
  <1>7. ASSUME NEW w \in Pool!Worker, Pool!ReleasePool(w)
        PROVE  LockState'
    BY <1>7 DEF Pool!ReleasePool, Pool!Nobody, Pool!Worker
  <1>8. CASE Pool!UiStep
    <2>1. Pool!UI \notin Pool!Worker /\ Pool!Nobody \notin Pool!Worker
      BY DEF Pool!UI, Pool!Nobody, Pool!Worker
    <2> QED
      BY <1>8, <2>1 DEF Pool!UiStep, Pool!UiLocks, Pool!UiUnlocks
  <1>9. CASE UNCHANGED Pool!vars
    BY <1>9 DEF Pool!vars
  <1> QED
    BY <1>1, <1>2, <1>3, <1>4, <1>5, <1>6, <1>7, <1>8, <1>9
    DEF Pool!Next, Pool!Parent, Pool!WorkerStep

\* The parent is past a join only if that worker is gone, and a worker is gone
\* only once every track has been claimed (main.c:311-312, 513-515).
LEMMA ThreadStep ==
  ASSUME Pool!TypeOK, ThreadState, [Pool!Next]_(Pool!vars)
  PROVE  ThreadState'
  <1> USE PoolConstants DEF Pool!TypeOK, ThreadState, Pool!counters, Pool!parentState
  <1>1. CASE Pool!CreateWorker
    <2>1. at[ti] = "absent" /\ parent = "create"
      BY <1>1 DEF Pool!CreateWorker, Pool!Turn, Pool!Worker
    <2> QED
      BY <1>1, <2>1, TurnCases DEF Pool!CreateWorker, Pool!Worker
  <1>2. CASE Pool!CreateFails
    <2>1. at[ti] = "absent" /\ parent = "create"
      BY <1>2 DEF Pool!CreateFails, Pool!Turn, Pool!Worker
    <2>2. /\ at' = at /\ next' = next
          /\ \A w \in Pool!Worker : handle'[w] = "thread" <=> at[w] # "absent"
      BY <1>2, <2>1 DEF Pool!CreateFails
    <2>3. \/ parent' = "create" /\ ti' = ti + 1
          \/ parent' = "join" /\ ti' = 1
      BY <1>2, TurnCases DEF Pool!CreateFails
    <2> QED
      BY <2>1, <2>2, <2>3 DEF Pool!Worker
  <1>3. CASE Pool!JoinWorker
    <2>1. \A w \in Pool!Worker : w <= ti => at[w] \in {"absent", "gone"}
      BY <1>3 DEF Pool!JoinWorker, Pool!Turn, Pool!Worker
    <2> QED
      BY <1>3, <2>1, TurnCases DEF Pool!JoinWorker, Pool!Worker
  <1>4. CASE Pool!JoinGarbage
    <2>1. \A w \in Pool!Worker : w <= ti => at[w] \in {"absent", "gone"}
      BY <1>4 DEF Pool!JoinGarbage, Pool!Worker
    <2> QED
      BY <1>4, <2>1, TurnCases DEF Pool!JoinGarbage, Pool!Worker
  <1>5. CASE Pool!Report
    BY <1>5 DEF Pool!Report
  <1>6. ASSUME NEW w \in Pool!Worker, Pool!Claim(w)
        PROVE  ThreadState'
    BY <1>6 DEF Pool!Claim
  <1>7. ASSUME NEW w \in Pool!Worker, Pool!Leave(w)
        PROVE  ThreadState'
    <2>1. next = NTracks
      BY <1>7, PoolConstants DEF Pool!Leave
    <2> QED
      BY <1>7, <2>1 DEF Pool!Leave
  <1>8. ASSUME NEW w \in Pool!Worker,
               \/ Pool!ReadCounts(w) \/ Pool!TellProgress(w) \/ Pool!TrackReturns(w) \/ Pool!Record(w)
               \/ Pool!LockStatus(w) \/ Pool!WriteCount(w) \/ Pool!ReleasePool(w)
        PROVE  ThreadState'
    BY <1>8 DEF Pool!ReadCounts, Pool!TellProgress, Pool!TrackReturns, Pool!Record,
                Pool!LockStatus,
                Pool!WriteCount, Pool!ReleasePool
  <1>9. CASE Pool!UiStep \/ UNCHANGED Pool!vars
    BY <1>9 DEF Pool!UiStep, Pool!UiLocks, Pool!UiUnlocks, Pool!vars
  <1> QED
    BY <1>1, <1>2, <1>3, <1>4, <1>5, <1>6, <1>7, <1>8, <1>9
    DEF Pool!Next, Pool!Parent, Pool!WorkerStep

\* Claims are disjoint: next is read and incremented in one section, so the
\* track claimed is one nobody has claimed (main.c:309-313).
LEMMA ClaimStep ==
  ASSUME Pool!TypeOK, ThreadState, Pool!ClaimedExactlyOnce, [Pool!Next]_(Pool!vars)
  PROVE  Pool!ClaimedExactlyOnce'
  <1> USE PoolConstants DEF Pool!TypeOK, Pool!ClaimedExactlyOnce, Pool!Busy, Pool!counters,
                            Pool!parentState
  <1>1. CASE Pool!CreateWorker
    <2>1. at[ti] = "absent"
      BY <1>1 DEF Pool!CreateWorker, Pool!Turn, ThreadState, Pool!Worker
    <2> QED
      BY <1>1, <2>1 DEF Pool!CreateWorker
  <1>2. CASE Pool!CreateFails \/ Pool!JoinWorker \/ Pool!JoinGarbage \/ Pool!Report
    BY <1>2 DEF Pool!CreateFails, Pool!JoinWorker, Pool!JoinGarbage, Pool!Report
  <1>3. ASSUME NEW w \in Pool!Worker, Pool!Claim(w)
        PROVE  Pool!ClaimedExactlyOnce'
    <2>1. next \in Pool!Track /\ outcome[next] = "waiting"
      BY <1>3, PoolConstants DEF Pool!Claim, Pool!Track
    <2>2. \A v \in Pool!Worker : Pool!Busy(v) => idx[v] # next
      BY <2>1
    <2>3. \A t \in Pool!Track : outcome'[t] # "waiting" <=> t < next'
      BY <1>3, <2>1 DEF Pool!Claim, Pool!Track
    <2>4. \A v \in Pool!Worker : Pool!Busy(v)' <=> (v = w \/ Pool!Busy(v))
      BY <1>3 DEF Pool!Claim
    <2>5. \A t \in Pool!Track : outcome'[t] = "claimed"
                            <=> \E v \in Pool!Worker : Pool!Busy(v)' /\ idx'[v] = t
      BY <1>3, <2>1, <2>2, <2>4 DEF Pool!Claim
    <2>6. \A u, v \in Pool!Worker : Pool!Busy(u)' /\ Pool!Busy(v)' /\ idx'[u] = idx'[v] => u = v
      BY <1>3, <2>2, <2>4 DEF Pool!Claim
    <2> QED
      BY <2>3, <2>5, <2>6
  <1>4. ASSUME NEW w \in Pool!Worker, Pool!Record(w)
        PROVE  Pool!ClaimedExactlyOnce'
    <2>1. Pool!Busy(w) /\ idx' = idx /\ next' = next
      BY <1>4 DEF Pool!Record
    <2>2. outcome[idx[w]] = "claimed"
      BY <2>1
    <2>3. \A v \in Pool!Worker : Pool!Busy(v)' <=> (v # w /\ Pool!Busy(v))
      BY <1>4 DEF Pool!Record
    <2>4. \A t \in Pool!Track : outcome'[t] # "waiting" <=> outcome[t] # "waiting"
      BY <1>4, <2>2 DEF Pool!Record
    <2>5. \A t \in Pool!Track : outcome'[t] = "claimed" <=> outcome[t] = "claimed" /\ t # idx[w]
      BY <1>4 DEF Pool!Record
    <2> QED
      BY <2>1, <2>3, <2>4, <2>5
  <1>5. ASSUME NEW w \in Pool!Worker,
               \/ Pool!Leave(w) \/ Pool!ReadCounts(w) \/ Pool!TellProgress(w) \/ Pool!TrackReturns(w)
               \/ Pool!LockStatus(w) \/ Pool!WriteCount(w) \/ Pool!ReleasePool(w)
        PROVE  Pool!ClaimedExactlyOnce'
    BY <1>5 DEF Pool!Leave, Pool!ReadCounts, Pool!TellProgress, Pool!TrackReturns,
                Pool!LockStatus,
                Pool!WriteCount, Pool!ReleasePool
  <1>6. CASE Pool!UiStep \/ UNCHANGED Pool!vars
    BY <1>6 DEF Pool!UiStep, Pool!UiLocks, Pool!UiUnlocks, Pool!vars
  <1> QED
    BY <1>1, <1>2, <1>3, <1>4, <1>5, <1>6 DEF Pool!Next, Pool!Parent, Pool!WorkerStep

\* Counting an outcome moves one claimed track into one of the two finished
\* sets, whose cardinality the counter follows (main.c:328-330).
LEMMA OutcomeStep ==
  ASSUME Pool!TypeOK, Pool!ClaimedExactlyOnce, Pool!CountsMatchOutcomes,
         [Pool!Next]_(Pool!vars)
  PROVE  Pool!CountsMatchOutcomes'
  <1> USE DEF Pool!TypeOK, Pool!CountsMatchOutcomes, Pool!counters, Pool!parentState
  <1>0. \A kind : IsFiniteSet(Pool!Finished(kind))
    BY PoolConstants, FS_Subset DEF Pool!Finished
  <1>1. CASE Pool!Parent \/ Pool!UiStep \/ UNCHANGED Pool!vars
    <2>1. outcome' = outcome /\ done' = done /\ failed' = failed
      BY <1>1 DEF Pool!Parent, Pool!CreateWorker, Pool!CreateFails, Pool!JoinWorker,
                  Pool!JoinGarbage,
                  Pool!Report, Pool!UiStep, Pool!UiLocks, Pool!UiUnlocks, Pool!vars
    <2> QED
      BY <2>1 DEF Pool!Finished
  <1>2. ASSUME NEW w \in Pool!Worker,
               \/ Pool!Leave(w) \/ Pool!ReadCounts(w) \/ Pool!TellProgress(w) \/ Pool!TrackReturns(w)
               \/ Pool!LockStatus(w) \/ Pool!WriteCount(w) \/ Pool!ReleasePool(w)
        PROVE  Pool!CountsMatchOutcomes'
    <2>1. outcome' = outcome /\ done' = done /\ failed' = failed
      BY <1>2 DEF Pool!Leave, Pool!ReadCounts, Pool!TellProgress, Pool!TrackReturns,
                  Pool!LockStatus,
                  Pool!WriteCount, Pool!ReleasePool
    <2> QED
      BY <2>1 DEF Pool!Finished
  <1>3. ASSUME NEW w \in Pool!Worker, Pool!Claim(w)
        PROVE  Pool!CountsMatchOutcomes'
    <2>1. next \in Pool!Track /\ outcome[next] = "waiting"
      BY <1>3, PoolConstants DEF Pool!Claim, Pool!Track, Pool!ClaimedExactlyOnce
    <2>2. outcome' = [outcome EXCEPT ![next] = "claimed"]
          /\ done' = done /\ failed' = failed
      BY <1>3 DEF Pool!Claim
    <2>3. Pool!Finished("done")' = Pool!Finished("done") /\ Pool!Finished("failed")' = Pool!Finished("failed")
      BY <2>1, <2>2 DEF Pool!Finished
    <2> QED
      BY <2>2, <2>3
  <1>4. ASSUME NEW w \in Pool!Worker, Pool!Record(w)
        PROVE  Pool!CountsMatchOutcomes'
    <2>1. idx[w] \in Pool!Track /\ outcome[idx[w]] = "claimed"
      BY <1>4 DEF Pool!Record, Pool!ClaimedExactlyOnce, Pool!Busy
    <2>2. idx[w] \notin Pool!Finished("done") /\ idx[w] \notin Pool!Finished("failed")
      BY <2>1 DEF Pool!Finished
    <2>3. CASE at[w] = "recordOk"
      <3>1. /\ outcome' = [outcome EXCEPT ![idx[w]] = "done"]
            /\ done' = done + 1 /\ failed' = failed
        BY <1>4, <2>3 DEF Pool!Record
      <3>2. Pool!Finished("done")' = Pool!Finished("done") \cup {idx[w]}
            /\ Pool!Finished("failed")' = Pool!Finished("failed")
        BY <2>1, <3>1 DEF Pool!Finished
      <3>3. Cardinality(Pool!Finished("done") \cup {idx[w]}) = Cardinality(Pool!Finished("done")) + 1
        BY <1>0, <2>2, FS_AddElement
      <3> QED
        BY PoolCounts, <3>1, <3>2, <3>3
    <2>4. CASE at[w] = "recordBad"
      <3>1. /\ outcome' = [outcome EXCEPT ![idx[w]] = "failed"]
            /\ done' = done /\ failed' = failed + 1
        BY <1>4, <2>4 DEF Pool!Record
      <3>2. Pool!Finished("failed")' = Pool!Finished("failed") \cup {idx[w]}
            /\ Pool!Finished("done")' = Pool!Finished("done")
        BY <2>1, <3>1 DEF Pool!Finished
      <3>3. Cardinality(Pool!Finished("failed") \cup {idx[w]}) = Cardinality(Pool!Finished("failed")) + 1
        BY <1>0, <2>2, FS_AddElement
      <3> QED
        BY PoolCounts, <3>1, <3>2, <3>3
    <2> QED
      BY <1>4, <2>3, <2>4 DEF Pool!Record
  <1> QED
    BY <1>1, <1>2, <1>3, <1>4 DEF Pool!Next, Pool!WorkerStep

\* Only the holder of pool.mu is between counting and writing, so the count it
\* has read is still the current one when it writes it (main.c:328-346).
LEMMA CountStep ==
  ASSUME Pool!TypeOK, LockState, ThreadState, CountState, [Pool!Next]_(Pool!vars)
  PROVE  CountState'
  <1> USE DEF Pool!TypeOK, CountState, Pool!counters, Pool!parentState
  <1> DEFINE Writing == \E w \in Pool!Worker : at[w] \in {"nested", "write"}
  <1>1. CASE Pool!CreateWorker
    <2>1. at[ti] = "absent"
      BY <1>1 DEF Pool!CreateWorker, Pool!Turn, ThreadState, Pool!Worker
    <2>2. \A w \in Pool!Worker : at'[w] \in {"nested", "write"} <=> at[w] \in {"nested", "write"}
      BY <1>1, <2>1 DEF Pool!CreateWorker
    <2> QED
      BY <1>1, <2>2 DEF Pool!CreateWorker
  <1>2. CASE \/ Pool!CreateFails \/ Pool!JoinWorker \/ Pool!JoinGarbage \/ Pool!Report
             \/ Pool!UiStep \/ UNCHANGED Pool!vars
    BY <1>2 DEF Pool!CreateFails, Pool!JoinWorker, Pool!JoinGarbage, Pool!Report,
                Pool!UiStep, Pool!UiLocks,
                Pool!UiUnlocks, Pool!vars
  <1>3. ASSUME NEW w \in Pool!Worker,
               \/ Pool!Claim(w) \/ Pool!Leave(w) \/ Pool!ReadCounts(w) \/ Pool!TellProgress(w)
               \/ Pool!TrackReturns(w) \/ Pool!LockStatus(w) \/ Pool!ReleasePool(w)
        PROVE  CountState'
    <2>1. \A v \in Pool!Worker : at'[v] \in {"nested", "write"} <=> at[v] \in {"nested", "write"}
      BY <1>3 DEF Pool!Claim, Pool!Leave, Pool!ReadCounts, Pool!TellProgress,
                  Pool!TrackReturns,
                  Pool!LockStatus, Pool!ReleasePool
    <2>2. /\ done' = done /\ failed' = failed /\ counted' = counted
          /\ \A v \in Pool!Worker : at[v] \in {"nested", "write"} => finished'[v] = finished[v]
      BY <1>3 DEF Pool!Claim, Pool!Leave, Pool!ReadCounts, Pool!TellProgress,
                  Pool!TrackReturns,
                  Pool!LockStatus, Pool!ReleasePool
    <2> QED
      BY <2>1, <2>2
  <1>4. ASSUME NEW w \in Pool!Worker, Pool!Record(w)
        PROVE  CountState'
    <2>1. \A v \in Pool!Worker : at[v] \notin {"nested", "write"}
      BY <1>4 DEF Pool!Record, LockState, Pool!Nobody, Pool!Worker
    <2>2. /\ at' = [at EXCEPT ![w] = "nested"]
          /\ finished' = [finished EXCEPT ![w] = done' + failed']
          /\ counted' = counted
          /\ done' + failed' = done + failed + 1
      BY <1>4 DEF Pool!Record
    <2>3. \A v \in Pool!Worker : at'[v] \in {"nested", "write"} <=> v = w
      BY <2>1, <2>2
    <2>4. finished'[w] = done' + failed'
      BY <2>2
    <2>5. counted' = done + failed
      BY <2>1, <2>2
    <2>6. counted' = done' + failed' - 1
      BY <1>4, <2>5 DEF Pool!Record
    <2> QED
      BY <2>3, <2>4, <2>6
  <1>5. ASSUME NEW w \in Pool!Worker, Pool!WriteCount(w)
        PROVE  CountState'
    <2>1. \A v \in Pool!Worker : at[v] \in {"nested", "write"} => v = w
      BY <1>5 DEF Pool!WriteCount, LockState
    <2>2. /\ at' = [at EXCEPT ![w] = "release"]
          /\ finished' = finished /\ done' = done /\ failed' = failed
          /\ counted' = done + failed
      BY <1>5 DEF Pool!WriteCount
    <2> QED
      BY <2>1, <2>2
  <1> QED
    BY <1>1, <1>2, <1>3, <1>4, <1>5 DEF Pool!Next, Pool!Parent, Pool!WorkerStep

\* The closing message stays until the UI replaces it: the workers that could
\* overwrite it are gone by then (main.c:514-526, 616-626).
LEMMA ShownStep ==
  ASSUME Pool!TypeOK, ThreadState, ShownState, [Pool!Next]_(Pool!vars)
  PROVE  ShownState'
  <1> USE DEF Pool!TypeOK, ShownState, Pool!counters, Pool!parentState
  <1>1. CASE Pool!CreateWorker \/ Pool!CreateFails \/ Pool!JoinWorker \/ Pool!JoinGarbage
    BY <1>1 DEF Pool!CreateWorker, Pool!CreateFails, Pool!JoinWorker, Pool!JoinGarbage,
                Pool!Turn
  <1>2. CASE Pool!Report
    BY <1>2 DEF Pool!Report
  <1>3. ASSUME NEW w \in Pool!Worker, Pool!WorkerStep(w)
        PROVE  ShownState'
    <2>1. at[w] \notin {"absent", "gone"}
      BY <1>3 DEF Pool!WorkerStep, Pool!Claim, Pool!Leave, Pool!ReadCounts,
                  Pool!TellProgress,
                  Pool!TrackReturns, Pool!Record, Pool!LockStatus, Pool!WriteCount, Pool!ReleasePool
    <2>2. parent # "end"
      BY <2>1 DEF ThreadState
    <2>3. shown' = shown \/ shown'.kind \in {"progress", "count"}
      BY <1>3 DEF Pool!WorkerStep, Pool!Claim, Pool!Leave, Pool!ReadCounts,
                  Pool!TellProgress,
                  Pool!TrackReturns, Pool!Record, Pool!LockStatus, Pool!WriteCount, Pool!ReleasePool
    <2> QED
      BY <2>2, <2>3
  <1>4. CASE Pool!UiStep
    BY <1>4 DEF Pool!UiStep, Pool!UiLocks, Pool!UiUnlocks
  <1>5. CASE UNCHANGED Pool!vars
    BY <1>5 DEF Pool!vars
  <1> QED
    BY <1>1, <1>2, <1>3, <1>4, <1>5 DEF Pool!Next, Pool!Parent

LEMMA PoolInvInit == ASSUME Pool!Init PROVE PoolInv
  <1>1. Pool!TypeOK
    BY PoolTypeInit
  <1>2. LockState
    BY DEF Pool!Init, LockState, Pool!Nobody, Pool!Worker
  <1>3. ThreadState
    BY DEF Pool!Init, ThreadState
  <1>4. Pool!ClaimedExactlyOnce
    BY PoolConstants DEF Pool!Init, Pool!ClaimedExactlyOnce, Pool!Busy, Pool!Track
  <1>5. Pool!CountsMatchOutcomes
    <2>1. Pool!Finished("done") = {} /\ Pool!Finished("failed") = {}
      BY DEF Pool!Init, Pool!Finished
    <2> QED
      BY PoolCounts, <2>1, FS_EmptySet DEF Pool!Init, Pool!CountsMatchOutcomes
  <1>6. CountState
    BY DEF Pool!Init, CountState
  <1>7. ShownState
    BY DEF Pool!Init, ShownState
  <1> QED
    BY <1>1, <1>2, <1>3, <1>4, <1>5, <1>6, <1>7 DEF PoolInv

\* The inductive invariant: who holds which mutex, which threads the parent may
\* still wait for, whose track is whose, and what the counters stand for.
THEOREM PoolInvariance == Pool!Spec => []PoolInv
  <1>1. PoolInv /\ [Pool!Next]_(Pool!vars) => PoolInv'
    BY PoolTypeStep, LockStep, ThreadStep, ClaimStep, OutcomeStep, CountStep, ShownStep
    DEF PoolInv
  <1> QED
    BY PoolInvInit, <1>1, PTL DEF Pool!Spec

------------------------------------------------------------------------------
(* What the invariant says of the program.                                 *)

\* Every claimed track belongs to exactly one worker, for any number of tracks
\* and threads (main.c:309-313).
THEOREM ClaimsDisjoint == Pool!Spec => []ClaimedExactlyOnce
  BY PoolInvariance, PTL DEF PoolInv, ClaimedExactlyOnce

\* done and failed count the tracks that were saved and that were not.
THEOREM CountsCorrect == Pool!Spec => []Pool!CountsMatchOutcomes
  BY PoolInvariance, PTL DEF PoolInv

\* The pool's mutex and tracks are released after the last worker has left,
\* although the parent does not know which creates succeeded (main.c:512-516).
THEOREM PoolSafe == Pool!Spec => []PoolOutlivesWorkers
  <1>1. PoolInv => PoolOutlivesWorkers
    <2> SUFFICES ASSUME PoolInv, parent \in {"report", "end"}
                 PROVE  /\ \A w \in Pool!Worker : at[w] \in {"absent", "gone"}
                        /\ mu = Pool!Nobody
      BY DEF PoolOutlivesWorkers, Pool!PoolOutlivesWorkers
    <2>1. \A w \in Pool!Worker : at[w] \in {"absent", "gone"}
      BY DEF PoolInv, ThreadState
    <2>2. \A w \in Pool!Worker : mu # w
      BY <2>1 DEF PoolInv, LockState
    <2>3. mu \in Pool!Worker \cup {Pool!Nobody}
      BY DEF PoolInv, Pool!TypeOK
    <2> QED
      BY <2>1, <2>2, <2>3
  <1> QED
    BY PoolInvariance, <1>1, PTL

\* Once the parent is past its joins and one worker existed, every track has an
\* outcome: that worker left only after the last track had been claimed, and a
\* claimed track has a worker that has not left.
LEMMA BatchComplete ==
  ASSUME PoolInv, parent \in {"report", "end"}, Pool!SomeWorkerCreated
  PROVE  Pool!Track = Pool!Finished("done") \cup Pool!Finished("failed")
  <1>1. \A w \in Pool!Worker : at[w] \in {"absent", "gone"}
    BY DEF PoolInv, ThreadState
  <1>2. PICK w \in Pool!Worker : handle[w] = "thread"
    BY DEF Pool!SomeWorkerCreated
  <1>3. at[w] = "gone"
    BY <1>1, <1>2 DEF PoolInv, ThreadState
  <1>4. next = NTracks
    BY <1>3 DEF PoolInv, ThreadState
  <1>5. \A t \in Pool!Track : t < NTracks
    BY PoolConstants DEF Pool!Track
  <1>6. \A t \in Pool!Track : outcome[t] # "waiting"
    BY <1>4, <1>5 DEF PoolInv, Pool!ClaimedExactlyOnce
  <1>7. \A v \in Pool!Worker : ~Pool!Busy(v)
    BY <1>1 DEF Pool!Busy
  <1>8. \A t \in Pool!Track : outcome[t] # "claimed"
    BY <1>7 DEF PoolInv, Pool!ClaimedExactlyOnce
  <1>9. \A t \in Pool!Track : outcome[t] \in Pool!Outcome
    BY DEF PoolInv, Pool!TypeOK
  <1> QED
    BY <1>6, <1>8, <1>9 DEF Pool!Finished, Pool!Outcome

\* The last message of a batch is exact, for any number of tracks and threads
\* and any subset of creates that fail but all of them (main.c:518-524).
THEOREM ReportCorrect == Pool!Spec => []ReportIsExact
  <1>1. PoolInv => ReportIsExact
    <2> SUFFICES ASSUME PoolInv, parent = "end", Pool!SomeWorkerCreated
                 PROVE  /\ done + failed = NTracks
                        /\ shown.kind \in {"allDone", "someErrors"}
                             => shown.n = Cardinality(Pool!Finished("done"))
                        /\ shown.kind = "allDone" => Pool!Finished("done") = Pool!Track
      BY PoolCounts DEF ReportIsExact, Pool!ReportIsExact
    <2>1. Pool!Track = Pool!Finished("done") \cup Pool!Finished("failed")
      BY BatchComplete
    <2>2. Pool!Finished("done") \cap Pool!Finished("failed") = {}
      BY DEF Pool!Finished
    <2>3. IsFiniteSet(Pool!Finished("done")) /\ IsFiniteSet(Pool!Finished("failed"))
      BY PoolConstants, FS_Subset DEF Pool!Finished
    <2>4. Cardinality(Pool!Finished("done") \cap Pool!Finished("failed")) = 0
      BY <2>2, FS_EmptySet
    <2>5. Cardinality(Pool!Track) =   Cardinality(Pool!Finished("done"))
                               + Cardinality(Pool!Finished("failed"))
                               - Cardinality(Pool!Finished("done") \cap Pool!Finished("failed"))
      BY <2>1, <2>3, FS_Union
    <2>6. done = Cardinality(Pool!Finished("done")) /\ failed = Cardinality(Pool!Finished("failed"))
      BY PoolCounts DEF PoolInv, Pool!CountsMatchOutcomes
    <2>7. done \in Nat /\ failed \in Nat
      BY DEF PoolInv, Pool!TypeOK
    <2>8. done + failed = NTracks
      BY <2>4, <2>5, <2>6, <2>7, PoolConstants
    <2>9. shown.kind \in {"allDone", "someErrors"} => shown.n = Cardinality(Pool!Finished("done"))
      BY <2>6 DEF PoolInv, ShownState
    <2>10. shown.kind = "allDone" => Pool!Finished("done") = Pool!Track
      <3>1. SUFFICES ASSUME shown.kind = "allDone"
                     PROVE  Pool!Finished("done") = Pool!Track
        OBVIOUS
      <3>2. failed = 0
        BY <3>1 DEF PoolInv, ShownState
      <3>3. Pool!Finished("failed") = {}
        BY <2>3, <2>6, <3>2, FS_EmptySet
      <3> QED
        BY <2>1, <3>3
    <2> QED
      BY <2>8, <2>9, <2>10
  <1> QED
    BY PoolInvariance, <1>1, PTL

\* The counts written as tracks finish go up by one each time, because pool.mu
\* is held across the nested section (main.c:328-347).
THEOREM CountsAscend == Pool!Spec => CountsNeverGoBack
  <1>1. PoolInv /\ [Pool!Next]_(Pool!vars)
          => [counted' # counted => counted' = counted + 1]_(Pool!vars)
    <2> SUFFICES ASSUME PoolInv, Pool!Next, counted' # counted
                 PROVE  counted' = counted + 1
      BY DEF Pool!vars
    <2>1. PICK w \in Pool!Worker : Pool!WriteCount(w)
      BY DEF Pool!Next, Pool!Parent, Pool!CreateWorker, Pool!CreateFails, Pool!JoinWorker,
             Pool!JoinGarbage, Pool!Report, Pool!WorkerStep, Pool!Claim, Pool!Leave,
             Pool!ReadCounts, Pool!TellProgress, Pool!TrackReturns, Pool!Record,
             Pool!LockStatus, Pool!ReleasePool, Pool!UiStep, Pool!UiLocks, Pool!UiUnlocks,
             Pool!vars
    <2>2. at[w] = "write" /\ counted' = finished[w]
      BY <2>1 DEF Pool!WriteCount
    <2>3. finished[w] = done + failed /\ counted = done + failed - 1
      BY <2>2 DEF PoolInv, CountState
    <2>4. done \in Nat /\ failed \in Nat
      BY DEF PoolInv, Pool!TypeOK
    <2> QED
      BY <2>2, <2>3, <2>4
  <1> QED
    BY PoolInvariance, <1>1, PTL DEF Pool!Spec, CountsNeverGoBack, Pool!CountsNeverGoBack
===============================================================================
