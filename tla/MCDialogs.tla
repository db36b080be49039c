------------------------------ MODULE MCDialogs ------------------------------
(***************************************************************************)
(* Sessions small enough for TLC.                                          *)
(***************************************************************************)
EXTENDS DialogsProperties, TLC

Symmetric == Permutations(Requests)
=============================================================================
