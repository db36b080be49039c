--------------------------- MODULE MCAgentRegistry ---------------------------
(***************************************************************************)
(* Registries small enough for TLC.  Two ids: "kept" an earlier agent left *)
(* in the store, "fresh" the one a session/new draws.                      *)
(***************************************************************************)
EXTENDS AgentRegistryProperties, TLC

\* The id a request of a run is on: "fresh" for those in the given set.
OnFresh(S) == [q \in Builders \cup Closes \cup Deletes |->
                 IF q \in S THEN "fresh" ELSE "kept"]

\* Everything but session/new is on the kept id.
KeptIds == OnFresh(News)

\* The closes and deletes are on the id session/new draws.
FreshIds == OnFresh(News \cup Closes \cup Deletes)

Symmetric == Permutations(Restores)
=============================================================================
