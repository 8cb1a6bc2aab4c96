------------------------------ MODULE MCTerminal ------------------------------
(***************************************************************************)
(* Terminal on two small windows; the strings of the cfg are strokes.      *)
(***************************************************************************)
EXTENDS Terminal
===============================================================================
