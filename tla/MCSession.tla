------------------------------- MODULE MCSession ------------------------------
(***************************************************************************)
(* Session for TLC: the playlist URLs are interchangeable.                 *)
(***************************************************************************)
EXTENDS Session, TLC

Symmetry == Permutations(Url)
===============================================================================
