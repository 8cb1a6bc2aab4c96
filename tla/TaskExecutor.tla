----------------------------- MODULE TaskExecutor -----------------------------
(***************************************************************************)
(* What the background queue promises its user: a serial executor.  Tasks  *)
(* are accepted while there is room, run one at a time in the order of     *)
(* acceptance, each exactly once, and the program only leaves in good      *)
(* order while nothing runs.  Threads, ring indices and flags are not      *)
(* mentioned; TaskQueue implements this module.                            *)
(***************************************************************************)
EXTENDS Integers, Sequences

CONSTANTS
  Capacity,   \* accepted tasks that may wait
  MaxAccepted \* bound: tasks accepted in one session

VARIABLES
  accepted,   \* number of tasks accepted so far; the k-th is task k
  pending,    \* accepted tasks that have not begun, oldest first
  active,     \* the task being run, 0 for none
  completed,  \* finished tasks in order
  open        \* "open" to new tasks, "closing", or "over"

vars == <<accepted, pending, active, completed, open>>

Init ==
  /\ accepted = 0
  /\ pending = << >>
  /\ active = 0
  /\ completed = << >>
  /\ open = "open"

Accept ==
  /\ open = "open"
  /\ accepted < MaxAccepted
  /\ Len(pending) < Capacity
  /\ accepted' = accepted + 1
  /\ pending' = Append(pending, accepted + 1)
  /\ UNCHANGED <<active, completed, open>>

Begin ==
  /\ open # "over"
  /\ active = 0
  /\ pending # << >>
  /\ active' = Head(pending)
  /\ pending' = Tail(pending)
  /\ UNCHANGED <<accepted, completed, open>>

Complete ==
  /\ open # "over"
  /\ active # 0
  /\ completed' = Append(completed, active)
  /\ active' = 0
  /\ UNCHANGED <<accepted, pending, open>>

Close ==
  /\ open = "open"
  /\ open' = "closing"
  /\ UNCHANGED <<accepted, pending, active, completed>>

\* Leaving in good order: nothing is running.
Leave ==
  /\ open = "closing"
  /\ active = 0
  /\ open' = "over"
  /\ UNCHANGED <<accepted, pending, active, completed>>

\* A fatal signal abandons whatever runs or waits.
Abort ==
  /\ open # "over"
  /\ open' = "over"
  /\ UNCHANGED <<accepted, pending, active, completed>>

Next == Accept \/ Begin \/ Complete \/ Close \/ Leave \/ Abort

Spec == Init /\ [][Next]_vars
===============================================================================
