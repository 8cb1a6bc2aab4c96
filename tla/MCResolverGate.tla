----------------------------- MODULE MCResolverGate ---------------------------
(***************************************************************************)
(* Values for ResolverGate.  A unit is about two seconds, so that the      *)
(* cooldowns of 429 and 403 are 6 and 10 units, MaxDelay 7, and MaxGap 5;  *)
(* the shorter times are rounded up to one unit.                           *)
(***************************************************************************)
EXTENDS ResolverGate

MCBump == [limited |-> 2, forbidden |-> 3, broken |-> 1, other |-> 1]
MCCooldown == [limited |-> 6, forbidden |-> 10, broken |-> 0, other |-> 0]
MCResponse == DOMAIN MCBump
===============================================================================
