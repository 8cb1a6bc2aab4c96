----------------------------- MODULE MCStreamCache ----------------------------
(***************************************************************************)
(* StreamCache for TLC: names, IDs and URLs are interchangeable.           *)
(***************************************************************************)
EXTENDS StreamCache, TLC

Symmetry == Permutations(Name) \cup Permutations(Id) \cup Permutations(URL)
===============================================================================
