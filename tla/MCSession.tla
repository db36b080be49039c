------------------------------ MODULE MCSession ------------------------------
(***************************************************************************)
(* One session on a small instance.  The prompts are model values the      *)
(* specification never tells apart, so they may be permuted in the runs    *)
(* without a liveness property.                                            *)
(***************************************************************************)
EXTENDS SessionProperties, TLC

Symmetric == Permutations(Prompts)
=============================================================================
