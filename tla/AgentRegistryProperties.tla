----------------------- MODULE AgentRegistryProperties -----------------------
(***************************************************************************)
(* What the registry of sessions promises the host.                        *)
(***************************************************************************)
EXTENDS AgentRegistry

\* Every variable keeps its type; the count of reservations in flight is the
\* number of releases still owed and never goes below zero (agent_session.go
\* reserveSlot).
TypeOK ==
  /\ sessions \in [Ids -> Insts \cup {None}]
  /\ deleted \subseteq Ids /\ ephemeral \subseteq Ids /\ restores \subseteq Ids
  /\ stored \subseteq Ids
  /\ closed \in BOOLEAN
  /\ slots \subseteq Builders
  /\ starting \in Nat /\ starting = Cardinality(slots)
  /\ proc \in [Insts -> {"none", "running", "stopped"}]
  /\ gate \in [Insts -> Requests \cup {"hook", "ladder", None}]
  /\ ladder \in [Insts -> Ladders] /\ hook \in [Insts -> Hooks]
  /\ {joins, persisted, failed} \subseteq [Insts -> BOOLEAN]
  /\ pc \in [Requests -> Pcs]
  /\ seen \in [Requests -> Insts \cup {None}]
  /\ snap \in [Shutdowns -> SUBSET Insts]
  /\ listing \in [Lists -> Listing]

Running == {i \in Insts : proc[i] = "running"}

\* The limit on active sessions is a limit on claude processes: establishing,
\* installed, refused and closing sessions together never run more of them
\* than MaxActiveSessions (reserveSlot, install, close before detach).
ActiveWithinLimit == Cardinality(Running) <= MaxActiveSessions

\* Two sessions of one id never both run a process, so two processes never
\* write one transcript: a restore that replaces a live session stops it
\* first, and two restores of one id do not overlap (restore, restores.Acquire).
OneProcessPerId ==
  \A i, j \in Running : IdOf[i] = IdOf[j] => i = j

\* After a delete has answered, no session is registered under the id and none
\* ever will be, whatever establishment was in flight (UnstableDeleteSession
\* against install).
DeletedIsGone == \A id \in Answered(Deletes) : sessions[id] = None

\* An answered close or delete has left the session it addressed without a
\* process, its ladder over, even when another caller ran that ladder
\* (session.close and closeDone).
AnsweredCloseIsDone ==
  \A q \in Closes \cup Deletes :
    pc[q] = "ok" /\ seen[q] # None =>
      proc[seen[q]] = "stopped" /\ ladder[seen[q]] = "closed"

\* A list shows no id whose delete had answered before the list began, though
\* the store may list it again after a late commit (ListSessions).
ListTruthful ==
  \A l \in Lists : listing[l].shown \cap listing[l].gone = {}

\* Every request that begins is answered: nobody waits for good for a gate, a
\* ladder or the opening of its session, which runs although the hook may fail,
\* close the session itself and join its gate (scheduleOpen, close).  No context
\* of a waiting request has to end for it (AwaitSession).
RequestsEnd ==
  \A q \in Requests : pc[q] # "idle" ~> pc[q] \in {"ok", "refused"}

\* Once Agent.Close has begun, every session leaves the registry, every
\* reservation ends and every claude process is stopped, those of
\* establishments in flight included.
ClosedDrains ==
  closed ~> (Running = {} /\ Active = {} /\ starting = 0)
=============================================================================
