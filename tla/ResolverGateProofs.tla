-------------------------- MODULE ResolverGateProofs --------------------------
(***************************************************************************)
(* Proofs about ResolverGate for any times, responses and retries: types   *)
(* for both programs, and the spacing of calls for the command line with   *)
(* the gate switched on.                                                   *)
(***************************************************************************)
EXTENDS ResolverGate, TLAPS

\* The constants of ResolverGateAssumption.
LEMMA Constants ==
  /\ NoWorker \notin Worker
  /\ Gap \in Nat /\ MaxGap \in Nat /\ Relief \in Nat /\ MinBump \in Nat
  /\ RetryDelay \in Nat /\ MaxDelay \in Nat /\ Retries \in Nat
  /\ RetryAfter \subseteq Nat
  /\ \A r \in Response : Bump[r] \in Nat /\ Cooldown[r] \in Nat
BY ResolverGateAssumption DEF ResolverGateAssumption

-------------------------------------------------------------------------------
(* Types.                                                                  *)

\* A retry waits only while there are retries left.
Counted == \A w \in Worker : pc[w] = "backoff" => attempt[w] < Retries

LEMMA InitTypes == Init => TypeOK /\ Counted
<1> SUFFICES ASSUME Init PROVE TypeOK /\ Counted
  OBVIOUS
<1>1. pc \in [Worker -> {"init", "idle"}]
  BY DEF Init
<1>2. {since, penalty, sinceCall} \subseteq 0 .. MaxGap
  BY Constants DEF Init
<1>3. sleep \in [Worker -> Nat] /\ stage \in [Worker -> 1 .. 4]
      /\ first \in [Worker -> {1, 3}]
  BY DEF Init
<1>4. attempt \in [Worker -> 0 .. Retries]
  BY Constants DEF Init
<1>5. serial \in BOOLEAN /\ ready \in BOOLEAN /\ gate \in Worker \cup {NoWorker} /\ cool \in Nat
  BY DEF Init
<1>6. told \in Nat /\ left \in [Worker -> Nat]
  BY DEF Init
<1> QED
  BY <1>1, <1>2, <1>3, <1>4, <1>5, <1>6 DEF TypeOK, Counted

\* What a response teaches keeps the penalty within its limit.
LEMMA LearnTypes ==
  ASSUME TypeOK, NEW bump \in Nat, NEW time \in Nat, Learn(bump, time)
  PROVE  /\ gate' = gate /\ since' = since /\ penalty' \in 0 .. MaxGap
         /\ cool' \in Nat /\ told' \in Nat
<1>1. CASE ready
  BY <1>1, Constants DEF Learn, TypeOK, Least, Most
<1>2. CASE ~ready
  BY <1>2 DEF Learn, TypeOK, settings
<1> QED
  BY <1>1, <1>2 DEF TypeOK

LEMMA DownloadFailsTypes == ASSUME TypeOK, NEW w \in Worker, DownloadFails(w) PROVE TypeOK'
<1>1. gate' = gate /\ since' = since /\ penalty' \in 0 .. MaxGap /\ cool' \in Nat /\ told' \in Nat
  <2>1. CASE \E r \in Response : Learn(Bump[r], Cooldown[r])
    BY <2>1, LearnTypes, Constants
  <2>2. CASE \E t \in RetryAfter : Learn(t, t)
    BY <2>2, LearnTypes, Constants
  <2> QED
    BY <2>1, <2>2 DEF DownloadFails
<1>2. pc' = [pc EXCEPT ![w] = "failed"] /\ ready' = ready /\ serial' = serial /\ sleep' = sleep
      /\ stage' = stage /\ first' = first /\ attempt' = attempt /\ sinceCall' = sinceCall /\ left' = left
  BY DEF DownloadFails, Goto
<1> QED
  BY <1>1, <1>2 DEF TypeOK

LEMMA LearnSuccessTypes ==
  ASSUME TypeOK, NEW w \in Worker, DownloadSucceeds(w) \/ SaveFails(w) PROVE TypeOK'
<1>1. LearnSuccess
  BY DEF DownloadSucceeds, SaveFails
<1>2. gate' = gate /\ since' = since /\ cool' = cool /\ penalty' \in 0 .. MaxGap
  BY <1>1, Constants DEF LearnSuccess, LessPenalty, TypeOK, Most, settings
<1> QED
  BY <1>2 DEF DownloadSucceeds, SaveFails, Goto, history, TypeOK

LEMMA FoundTypes ==
  ASSUME TypeOK, NEW w \in Worker, Found(w)
  PROVE  /\ pc' \in [Worker -> {"init", "idle", "lookup", "gate", "call", "download",
                                "failed", "backoff"}]
         /\ stage' \in [Worker -> 1 .. 4]
BY DEF Found, HasURL, TypeOK

\* How long a retry waits is a time.
LEMMA DelayIsTime == ASSUME TypeOK, NEW n \in Nat PROVE RetryDelayOf(n) \in Nat
<1>1. RetryDelay * (n + 1) \in Nat
  BY Constants
<1> QED
  BY <1>1, Constants DEF RetryDelayOf, Least, Most, TypeOK

LEMMA WorkTypes == ASSUME TypeOK, Counted, NEW w \in Worker, Work(w) PROVE TypeOK'
<1>1. CASE HttpInit(w)
  BY <1>1 DEF HttpInit, Goto, settings, history, TypeOK
<1>2. CASE CacheHit(w)
  BY <1>2, FoundTypes DEF CacheHit, settings, history, TypeOK
<1>3. CASE GateBegin(w)
  <2>1. Most(GateWait, 0) \in Nat
    BY Constants DEF GateWait, CurrentGap, Least, Most, TypeOK
  <2> QED
    BY <1>3, <2>1 DEF GateBegin, Goto, history, TypeOK
<1>4. CASE GateEnter(w)
  BY <1>4, Constants DEF GateEnter, Goto, TypeOK
<1>5. CASE NoGate(w)
  BY <1>5, Constants DEF NoGate, Goto, settings, TypeOK
<1>6. CASE CallSucceeds(w)
  BY <1>6, FoundTypes DEF CallSucceeds, GateEnd, history, TypeOK
<1>7. CASE CallFails(w)
  BY <1>7 DEF CallFails, GateEnd, history, TypeOK
<1>8. CASE Retry(w)
  <2>1. RetryDelayOf(attempt[w]) \in Nat
    BY DelayIsTime DEF TypeOK
  <2> QED
    BY <1>8, <2>1 DEF Retry, Goto, settings, TypeOK
<1>9. CASE RetryBegins(w)
  <2>1. Retries \in Nat /\ attempt[w] \in 0 .. Retries /\ attempt[w] < Retries
    BY <1>9, Constants DEF TypeOK, Counted, RetryBegins, Goto
  <2> QED
    BY <1>9, <2>1 DEF RetryBegins, Goto, settings, TypeOK
<1>10. CASE GiveUp(w)
  BY <1>10 DEF GiveUp, Goto, settings, history, TypeOK
<1> QED
  BY <1>1, <1>2, <1>3, <1>4, <1>5, <1>6, <1>7, <1>8, <1>9, <1>10,
     LearnSuccessTypes, DownloadFailsTypes DEF Work

LEMMA WorkCounted == ASSUME TypeOK, Counted, NEW w \in Worker, Work(w) PROVE Counted'
<1> DEFINE Quiet == attempt' = attempt /\ \A v \in Worker : pc'[v] = "backoff" => pc[v] = "backoff"
<1>1. CASE Retry(w)
  BY <1>1 DEF Retry, Goto, TypeOK, Counted
<1>2. CASE RetryBegins(w)
  BY <1>2 DEF RetryBegins, Goto, TypeOK, Counted
<1>3. CASE Quiet
  BY <1>3 DEF Counted
<1>4. Retry(w) \/ RetryBegins(w) \/ HttpInit(w) \/ CacheHit(w) \/ GateBegin(w)
      \/ GateEnter(w) \/ NoGate(w) \/ CallSucceeds(w) \/ CallFails(w)
      \/ DownloadSucceeds(w) \/ SaveFails(w) \/ DownloadFails(w) \/ GiveUp(w)
  BY DEF Work
<1>5. HttpInit(w) \/ GateBegin(w) \/ GateEnter(w) \/ NoGate(w)
        \/ DownloadSucceeds(w) \/ SaveFails(w) \/ DownloadFails(w) \/ GiveUp(w)
      => Quiet
  BY DEF HttpInit, GateBegin, GateEnter, NoGate, DownloadSucceeds, SaveFails, DownloadFails, GiveUp,
         Goto, TypeOK
<1>6. CacheHit(w) \/ CallSucceeds(w) \/ CallFails(w) => Quiet
  BY DEF CacheHit, CallSucceeds, CallFails, Found, TypeOK
<1> QED
  BY <1>1, <1>2, <1>3, <1>4, <1>5, <1>6

LEMMA BeginTrackTypes ==
  ASSUME TypeOK, Counted, NEW w \in Worker, BeginTrack(w) PROVE TypeOK' /\ Counted'
<1>1. PICK s \in {1, 3} : first' = [first EXCEPT ![w] = s] /\ stage' = [stage EXCEPT ![w] = s]
  BY DEF BeginTrack
<1>2. pc' = [pc EXCEPT ![w] = "lookup"] /\ attempt' = [attempt EXCEPT ![w] = 0]
      /\ ready' = ready /\ serial' = serial /\ sleep' = sleep /\ sinceCall' = sinceCall
      /\ told' = told /\ left' = left /\ gate' = gate /\ since' = since /\ cool' = cool /\ penalty' = penalty
  BY DEF BeginTrack, Goto, settings, history
<1>3. 0 \in 0 .. Retries
  BY Constants
<1>4. TypeOK'
  BY <1>1, <1>2, <1>3 DEF TypeOK
<1> QED
  BY <1>2, <1>4 DEF TypeOK, Counted

LEMMA TickTypes == TypeOK /\ Counted /\ Tick => TypeOK' /\ Counted'
<1> SUFFICES ASSUME TypeOK, Counted, Tick PROVE TypeOK' /\ Counted'
  OBVIOUS
<1>1. since' \in 0 .. MaxGap /\ sinceCall' \in 0 .. MaxGap /\ cool' \in Nat /\ told' \in Nat
  BY Constants DEF Tick, TypeOK, Least, Most
<1>2. sleep' \in [Worker -> Nat]
  BY DEF Tick, TypeOK, Most
<1> QED
  BY <1>1, <1>2 DEF Tick, TypeOK, Counted

\* Types; in particular the penalty never leaves its range, whatever the order of
\* good and bad responses.
THEOREM TypeCorrect == Spec => []TypeOK
<1>1. TypeOK /\ Counted /\ [Next]_vars => (TypeOK /\ Counted)'
  <2> SUFFICES ASSUME TypeOK, Counted, [Next]_vars PROVE (TypeOK /\ Counted)'
    OBVIOUS
  <2>1. CASE UNCHANGED vars
    BY <2>1 DEF vars, settings, history, TypeOK, Counted
  <2> QED
    BY <2>1, WorkTypes, WorkCounted, BeginTrackTypes, TickTypes DEF Next
<1> QED
  BY InitTypes, <1>1, PTL DEF Spec

-------------------------------------------------------------------------------
(* The spacing of calls.                                                   *)

\* The moment kept is the last that any response asked to wait for: a shorter
\* cooldown never replaces a longer one.
Kept == told = cool

LEMMA NextKept == ASSUME Kept, [Next]_vars PROVE Kept'
<1>1. CASE UNCHANGED vars \/ Tick
  BY <1>1 DEF vars, settings, history, Tick, Kept
<1>2. ASSUME NEW w \in Worker, Work(w) \/ BeginTrack(w) PROVE Kept'
  <2>1. CASE DownloadFails(w)
    BY <2>1 DEF DownloadFails, Learn, settings, Kept
  <2>2. CASE DownloadSucceeds(w) \/ SaveFails(w)
    BY <2>2 DEF DownloadSucceeds, SaveFails, LearnSuccess, settings, history, Kept
  <2> QED
    BY <1>2, <2>1, <2>2 DEF Work, HttpInit, CacheHit, GateBegin, GateEnter, NoGate, CallSucceeds,
         CallFails, Retry, RetryBegins, GiveUp, BeginTrack, settings, history, Kept
<1> QED
  BY <1>1, <1>2 DEF Next

\* The command line works with the gate, and its clock is the true one: every
\* call begins behind the gate.
Gated ==
  /\ \A w \in Worker : pc[w] # "init" => ready
  /\ since = sinceCall

\* Who waits behind the gate sleeps at least as long as the cooldown and what is
\* left of the gap, and only the holder is there: penalty and cooldown cannot
\* change under it.
Waits ==
  \A w \in Worker : pc[w] = "gate" =>
    /\ gate = w
    /\ sleep[w] >= cool
    /\ sleep[w] >= CurrentGap - since

IInv == TypeOK /\ Counted /\ Kept /\ (serial => Gated /\ Waits)

LEMMA InitIInv == ASSUME ~Interactive, Init PROVE IInv
BY InitTypes DEF Init, IInv, Kept, Gated, Waits

\* A step of a worker that neither goes to the gate nor touches what it guards.
LEMMA Elsewhere ==
  ASSUME TypeOK, Waits,
         \A v \in Worker : pc'[v] = "gate" => pc[v] = "gate" /\ sleep'[v] = sleep[v],
         gate' = gate \/ \E v \in Worker : gate = v /\ pc'[v] # "gate",
         since' = since, cool' = cool, penalty' = penalty
  PROVE  Waits'
BY DEF Waits, CurrentGap, Least

LEMMA WorkWaits ==
  ASSUME serial, TypeOK, Gated, Waits, NEW w \in Worker, Work(w) \/ BeginTrack(w)
  PROVE  Waits'
<1>1. CASE HttpInit(w) \/ BeginTrack(w) \/ GiveUp(w) \/ NoGate(w)
  BY <1>1, Elsewhere DEF HttpInit, BeginTrack, GiveUp, NoGate, Goto, settings, TypeOK
<1>2. CASE CacheHit(w)
  BY <1>2, Elsewhere DEF CacheHit, Found, settings, TypeOK
<1>3. CASE Retry(w) \/ RetryBegins(w)
  BY <1>3, Elsewhere DEF Retry, RetryBegins, Goto, settings, TypeOK
<1>4. CASE CallSucceeds(w) \/ CallFails(w)
  BY <1>4, Elsewhere DEF CallSucceeds, CallFails, GateEnd, Found, TypeOK
<1>5. CASE GateBegin(w)
  <2>1. \A v \in Worker \ {w} : pc'[v] # "gate"
    BY <1>5, Constants DEF GateBegin, Goto, TypeOK, Waits
  <2>2. sleep'[w] = Most(GateWait, 0) /\ gate' = w
        /\ since' = since /\ cool' = cool /\ penalty' = penalty
    BY <1>5 DEF GateBegin, TypeOK
  <2>3. CurrentGap \in Int /\ since \in Int /\ cool \in Int
    BY Constants DEF CurrentGap, Least, TypeOK
  <2>4. sleep'[w] >= cool /\ sleep'[w] >= CurrentGap - since
    BY <2>2, <2>3 DEF GateWait, Most
  <2>5. CurrentGap' = CurrentGap
    BY <2>2 DEF CurrentGap
  <2> QED
    BY <2>1, <2>2, <2>4, <2>5 DEF Waits
<1>6. CASE GateEnter(w)
  <2>1. \A v \in Worker : pc'[v] # "gate"
    BY <1>6 DEF GateEnter, Goto, TypeOK, Waits
  <2> QED
    BY <2>1 DEF Waits
<1>7. CASE DownloadSucceeds(w) \/ SaveFails(w) \/ DownloadFails(w)
  <2>1. gate = NoWorker
    BY <1>7 DEF DownloadSucceeds, SaveFails, DownloadFails, Goto, Learn, LearnSuccess,
              Gated
  <2>2. \A v \in Worker : pc'[v] # "gate"
    BY <1>7, <2>1, Constants DEF DownloadSucceeds, SaveFails, DownloadFails, Goto, TypeOK, Waits
  <2> QED
    BY <2>2 DEF Waits
<1> QED
  BY <1>1, <1>2, <1>3, <1>4, <1>5, <1>6, <1>7 DEF Work

LEMMA WorkGated ==
  ASSUME serial, TypeOK, Gated, NEW w \in Worker, Work(w) \/ BeginTrack(w)
  PROVE  Gated'
<1>1. ready' = ready \/ ready'
  BY DEF Work, HttpInit, CacheHit, GateBegin, GateEnter, NoGate, CallSucceeds, CallFails,
         DownloadSucceeds, SaveFails, DownloadFails, Retry, RetryBegins, GiveUp, BeginTrack
<1>2. since' = sinceCall'
  BY DEF Work, HttpInit, CacheHit, GateBegin, GateEnter, NoGate, CallSucceeds, CallFails,
         DownloadSucceeds, SaveFails, DownloadFails, Retry, RetryBegins, GiveUp, BeginTrack, Learn,
         LearnSuccess, settings, history, Goto, Gated
<1>3. ASSUME NEW v \in Worker, pc'[v] # "init" PROVE ready'
  <2>1. pc[v] # "init" \/ v = w
    BY <1>3 DEF Work, HttpInit, CacheHit, GateBegin, GateEnter, NoGate, CallSucceeds,
                CallFails, DownloadSucceeds, SaveFails, DownloadFails, Retry, RetryBegins, GiveUp,
                BeginTrack, Goto, Found, TypeOK
  <2>2. HttpInit(w) \/ pc[w] # "init"
    BY DEF Work, CacheHit, GateBegin, GateEnter, NoGate, CallSucceeds, CallFails,
           DownloadSucceeds, SaveFails, DownloadFails, Retry, RetryBegins, GiveUp, BeginTrack, Goto
  <2>3. HttpInit(w) => ready'
    BY DEF HttpInit
  <2> QED
    BY <1>1, <2>1, <2>2, <2>3 DEF Gated
<1> QED
  BY <1>2, <1>3 DEF Gated

LEMMA TickIInv == ASSUME TypeOK, Gated, Waits, Tick PROVE Gated' /\ Waits'
<1>1. Gated'
  BY DEF Tick, Gated
<1>2. ASSUME NEW w \in Worker, pc'[w] = "gate"
      PROVE  gate' = w /\ sleep'[w] >= cool' /\ sleep'[w] >= CurrentGap' - since'
  <2>1. pc[w] = "gate" /\ gate' = w /\ sleep[w] >= cool /\ sleep[w] >= CurrentGap - since
    BY <1>2 DEF Tick, Waits
  <2>2. CurrentGap' = CurrentGap
    BY DEF Tick, CurrentGap
  <2>3. CurrentGap \in Int /\ CurrentGap <= MaxGap /\ since \in 0 .. MaxGap /\ cool \in Nat
        /\ sleep[w] \in Nat /\ MaxGap \in Nat
    BY Constants DEF CurrentGap, Least, TypeOK
  <2>4. sleep'[w] = Most(sleep[w] - 1, 0) /\ cool' = Most(cool - 1, 0)
        /\ since' = Least(since + 1, MaxGap)
    BY DEF Tick
  <2> QED
    BY <2>1, <2>2, <2>3, <2>4 DEF Least, Most
<1> QED
  BY <1>1, <1>2 DEF Waits

\* The environment does not change.
LEMMA SerialStays == [Next]_vars => serial' = serial
BY DEF Next, Tick, Work, HttpInit, CacheHit, GateBegin, GateEnter, NoGate, CallSucceeds,
       CallFails, DownloadSucceeds, SaveFails, DownloadFails, Retry, RetryBegins, GiveUp,
       BeginTrack, vars

LEMMA NextIInv == ASSUME IInv, [Next]_vars PROVE IInv'
<1>1. CASE UNCHANGED vars
  BY <1>1, NextKept DEF vars, settings, history, IInv, TypeOK, Counted, Gated, Waits, CurrentGap
<1>2. CASE Tick
  BY <1>2, TickTypes, TickIInv, NextKept, SerialStays DEF IInv
<1>3. ASSUME NEW w \in Worker, Work(w) \/ BeginTrack(w) PROVE IInv'
  BY <1>3, WorkTypes, WorkCounted, BeginTrackTypes, WorkGated, WorkWaits, NextKept, SerialStays DEF IInv
<1> QED
  BY <1>1, <1>2, <1>3 DEF Next

\* On the command line, with the gate switched on, a call begins only when the
\* gap, widened by the penalty, has passed since the previous one, and when every
\* moment is past that any response before it asked to wait for.
THEOREM Spacing == ~Interactive => (Spec => SpacedAndCool)
<1> SUFFICES ASSUME ~Interactive PROVE Spec => SpacedAndCool
  OBVIOUS
<1> DEFINE Prop ==
      serial => \A w \in Worker : Begins(w) => sinceCall >= CurrentGap /\ told = 0
<1>1. Init => IInv
  BY InitIInv
<1>2. IInv /\ [Next]_vars => IInv'
  BY NextIInv
<1>3. IInv /\ [Next]_vars => Prop
  <2> SUFFICES ASSUME IInv, [Next]_vars, serial, NEW w \in Worker, Begins(w)
               PROVE  sinceCall >= CurrentGap /\ told = 0
    OBVIOUS
  <2>1. pc[w] # "call" /\ pc'[w] = "call"
    BY DEF Begins
  <2>2. GateEnter(w) \/ NoGate(w)
    <3>1. PICK v \in Worker : Work(v) \/ BeginTrack(v)
      BY <2>1 DEF Next, Tick, vars
    <3> QED
      BY <2>1, <3>1 DEF Work, HttpInit, CacheHit, GateBegin, GateEnter, NoGate, CallSucceeds,
           CallFails, DownloadSucceeds, SaveFails, DownloadFails, Retry, RetryBegins, GiveUp,
           BeginTrack, Goto, Found, IInv, TypeOK
  <2>3. ~NoGate(w)
    BY DEF NoGate, Goto, IInv, Gated
  <2>4. sleep[w] = 0 /\ sleep[w] >= cool /\ sleep[w] >= CurrentGap - since
    BY <2>2, <2>3 DEF GateEnter, Goto, IInv, Waits
  <2>5. told = cool /\ cool \in Nat /\ since \in Nat /\ CurrentGap \in Int /\ since = sinceCall
    BY Constants DEF IInv, Kept, TypeOK, Gated, CurrentGap, Least
  <2> QED
    BY <2>4, <2>5
<1> QED
  BY <1>1, <1>2, <1>3, PTL DEF Spec, SpacedAndCool, Prop

-------------------------------------------------------------------------------
(* The delay before a retry.                                               *)

\* Only the command line learns, and it has one worker.
Learnt ==
  /\ Interactive => ~ready /\ \A w \in Worker : pc[w] # "init"
  /\ ~ready => told = 0
  /\ Kept

\* Who waits for its retry sleeps until all is over that was asked for when it
\* decided on it, but for what lies beyond MaxDelay.
Waited ==
  \A w \in Worker : pc[w] = "backoff" => told <= sleep[w] + Most(left[w] - MaxDelay, 0)

LEMMA InitLearnt == Init => Learnt /\ Waited
BY DEF Init, Learnt, Waited, Kept

\* Most steps teach nothing and send nobody to wait.
LEMMA NothingLearnt ==
  ASSUME Learnt, Waited, ready' = ready, cool' = cool, told' = told,
         \A v \in Worker : /\ pc'[v] = "backoff" =>
                                pc[v] = "backoff" /\ sleep'[v] = sleep[v] /\ left'[v] = left[v]
                           /\ pc'[v] = "init" => pc[v] = "init"
  PROVE  Learnt' /\ Waited'
<1>1. Learnt'
  BY DEF Learnt, Kept
<1> QED
  BY <1>1 DEF Waited

\* Who learns is the only worker, and is not waiting.
LEMMA DownloadLearnt ==
  ASSUME TypeOK, Learnt, Waited, NEW w \in Worker, DownloadFails(w)
  PROVE  Learnt' /\ Waited'
<1>1. ready' = ready /\ sleep' = sleep /\ left' = left /\ pc' = [pc EXCEPT ![w] = "failed"]
  BY DEF DownloadFails, Goto
<1>2. ~ready => cool' = cool /\ told' = told
  BY DEF DownloadFails, Learn, settings
<1>3. Kept'
  BY DEF DownloadFails, Learn, settings, Learnt, Kept
<1>4. Learnt'
  BY <1>1, <1>2, <1>3 DEF Learnt, TypeOK
<1>5. CASE ready
  <2>1. Worker = {w}
    BY <1>5, ResolverGateAssumption DEF ResolverGateAssumption, Learnt
  <2> QED
    BY <1>1, <1>4, <2>1 DEF Waited, TypeOK
<1>6. CASE ~ready
  BY <1>1, <1>2, <1>6, NothingLearnt DEF TypeOK
<1> QED
  BY <1>4, <1>5, <1>6

LEMMA RetryLearnt ==
  ASSUME TypeOK, Learnt, Waited, NEW w \in Worker, Retry(w)
  PROVE  Learnt' /\ Waited'
<1>1. ready' = ready /\ cool' = cool /\ told' = told /\ pc' = [pc EXCEPT ![w] = "backoff"]
      /\ sleep' = [sleep EXCEPT ![w] = RetryDelayOf(attempt[w])]
      /\ left' = [left EXCEPT ![w] = told]
  BY DEF Retry, Goto, settings
<1>2. Learnt'
  BY <1>1 DEF Learnt, Kept, TypeOK
<1>3. told <= RetryDelayOf(attempt[w]) + Most(told - MaxDelay, 0)
  <2> DEFINE d == RetryDelay * (attempt[w] + 1)
  <2>1. d \in Nat
    BY Constants DEF TypeOK
  <2>2. RetryDelayOf(attempt[w]) = Least(Most(d + penalty, cool), MaxDelay)
    BY DEF RetryDelayOf
  <2> HIDE DEF d
  <2> QED
    BY <2>1, <2>2, Constants DEF Least, Most, TypeOK, Learnt, Kept
<1>4. Waited'
  BY <1>1, <1>3 DEF Waited, TypeOK
<1> QED
  BY <1>2, <1>4

LEMMA TickLearnt == ASSUME TypeOK, Learnt, Waited, Tick PROVE Learnt' /\ Waited'
<1>1. cool' = Most(cool - 1, 0) /\ told' = Most(told - 1, 0) /\ pc' = pc /\ ready' = ready
      /\ left' = left /\ told \in Nat
      /\ \A v \in Worker : sleep'[v] = Most(sleep[v] - 1, 0) /\ sleep[v] \in Nat /\ left[v] \in Nat
  BY DEF Tick, TypeOK
<1>2. Learnt'
  BY <1>1 DEF Learnt, Kept, Most
<1>3. ASSUME NEW v \in Worker, pc'[v] = "backoff"
      PROVE  told' <= sleep'[v] + Most(left'[v] - MaxDelay, 0)
  <2>1. told <= sleep[v] + Most(left[v] - MaxDelay, 0)
    BY <1>1, <1>3 DEF Waited
  <2> QED
    BY <1>1, <2>1, Constants DEF Most
<1> QED
  BY <1>2, <1>3 DEF Waited

LEMMA WorkLearnt ==
  ASSUME TypeOK, Learnt, Waited, NEW w \in Worker, Work(w) \/ BeginTrack(w)
  PROVE  Learnt' /\ Waited'
<1>1. CASE HttpInit(w)
  BY <1>1 DEF HttpInit, Goto, settings, history, Learnt, Kept, Waited, TypeOK
<1>2. CASE BeginTrack(w) \/ GateBegin(w) \/ GateEnter(w) \/ NoGate(w) \/ RetryBegins(w) \/ GiveUp(w)
  BY <1>2, NothingLearnt DEF BeginTrack, GateBegin, GateEnter, NoGate, RetryBegins, GiveUp, Goto,
                             settings, history, TypeOK
<1>3. CASE CacheHit(w) \/ CallSucceeds(w) \/ CallFails(w)
  BY <1>3, NothingLearnt DEF CacheHit, CallSucceeds, CallFails, Found, settings, history, TypeOK
<1>4. CASE DownloadSucceeds(w) \/ SaveFails(w)
  BY <1>4, NothingLearnt DEF DownloadSucceeds, SaveFails, LearnSuccess, Goto, settings, history,
                             TypeOK
<1> QED
  BY <1>1, <1>2, <1>3, <1>4, DownloadLearnt, RetryLearnt DEF Work

\* On the command line, with the gate or without, when a retry begins, all is over
\* that the responses had asked for when it was decided on, or what is left of it
\* is what went beyond the longest delay, MaxDelay.
THEOREM RetriesWait == Spec => RetryAwaitsCooldown
<1> DEFINE Inv  == TypeOK /\ Counted /\ Learnt /\ Waited
           Prop == \A w \in Worker : pc[w] = "backoff" /\ pc'[w] = "lookup" =>
                     told <= Most(left[w] - MaxDelay, 0)
<1>1. Init => Inv
  BY InitTypes, InitLearnt
<1>2. Inv /\ [Next]_vars => Inv'
  <2> SUFFICES ASSUME Inv, [Next]_vars PROVE Inv'
    OBVIOUS
  <2>1. CASE UNCHANGED vars
    BY <2>1, NothingLearnt DEF vars, settings, history, TypeOK, Counted
  <2>2. CASE Tick
    BY <2>2, TickTypes, TickLearnt
  <2>3. ASSUME NEW w \in Worker, Work(w) \/ BeginTrack(w) PROVE Inv'
    BY <2>3, WorkTypes, WorkCounted, BeginTrackTypes, WorkLearnt
  <2> QED
    BY <2>1, <2>2, <2>3 DEF Next
<1>3. Inv /\ [Next]_vars => Prop
  <2> SUFFICES ASSUME Inv, [Next]_vars, NEW w \in Worker, pc[w] = "backoff", pc'[w] = "lookup"
               PROVE  told <= Most(left[w] - MaxDelay, 0)
    OBVIOUS
  <2>1. PICK v \in Worker : Work(v) \/ BeginTrack(v)
    BY DEF Next, Tick, vars
  <2>2. sleep[w] = 0
    BY <2>1 DEF Work, HttpInit, CacheHit, GateBegin, GateEnter, NoGate, CallSucceeds, CallFails,
         DownloadSucceeds, SaveFails, DownloadFails, Retry, RetryBegins, GiveUp, BeginTrack, Goto,
         Found, TypeOK
  <2>3. told <= sleep[w] + Most(left[w] - MaxDelay, 0)
    BY DEF Waited
  <2> QED
    BY <2>2, <2>3, Constants DEF Most, TypeOK
<1> QED
  BY <1>1, <1>2, <1>3, PTL DEF Spec, RetryAwaitsCooldown, Prop
===============================================================================
