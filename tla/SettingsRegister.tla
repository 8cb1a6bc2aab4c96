--------------------------- MODULE SettingsRegister ---------------------------
(***************************************************************************)
(* What keeping settings promises: registers that outlive the session.  A  *)
(* session starts with what is kept, changes what it knows, and may keep   *)
(* what it knows, all of it at once or not at all.  Files, temporary names *)
(* and half-done saves are not mentioned; ConfigStore implements this      *)
(* module where no byte is lost.                                           *)
(***************************************************************************)

CONSTANTS
  Register, \* the things kept
  Blank(_)  \* what a register holds before anything was kept

VARIABLES
  kept,     \* what outlives the session, for each register
  known,    \* what the session holds in memory
  running   \* whether there is a session

vars == <<kept, known, running>>

Init ==
  /\ kept = [r \in Register |-> Blank(r)]
  /\ known = [r \in Register |-> Blank(r)]
  /\ running = FALSE

Start ==
  /\ ~running
  /\ running' = TRUE
  /\ known' = kept
  /\ kept' = kept

\* The session changes its mind about one register.
Change(r) ==
  /\ running
  /\ \A q \in Register \ {r} : known'[q] = known[q]
  /\ UNCHANGED <<kept, running>>

\* What the session holds in one register is kept, whole.
Keep(r) ==
  /\ running
  /\ kept' = [kept EXCEPT ![r] = known[r]]
  /\ UNCHANGED <<known, running>>

\* The session ends, in whatever way and at whatever time.
Stop ==
  /\ running
  /\ running' = FALSE
  /\ known' = [r \in Register |-> Blank(r)]
  /\ kept' = kept

Next == \/ Start
        \/ \E r \in Register : Change(r) \/ Keep(r)
        \/ Stop

Spec == Init /\ [][Next]_vars
===============================================================================
