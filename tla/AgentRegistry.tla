---------------------------- MODULE AgentRegistry ----------------------------
(***************************************************************************)
(* The agent's registry of sessions (agent.go, agent_session.go): the      *)
(* requests that establish, restore, close, delete and list sessions and   *)
(* the shutdown of the agent, all concurrent, over the maps one agent      *)
(* keeps under Agent.mu, and what each does to a session's claude process, *)
(* to its gate and to its shutdown ladder.                                 *)
(*                                                                         *)
(* A critical section of Agent.mu or session.mu is one action.  What runs  *)
(* inside one session (turns, frames, relaunches) is module Session; here  *)
(* a session has a process or has none.  A session is named by the request *)
(* that built it: no request builds two.  The connection is a served one   *)
(* (Agent.transport is set), so the opening publication is a hook that     *)
(* runs after the establishing response.                                   *)
(*                                                                         *)
(* An operator Wrong... is a faulty variant of the operator after it: no   *)
(* action uses it, it is there to show that a property notices the fault.  *)
(***************************************************************************)
EXTENDS Naturals, FiniteSets

CONSTANTS
  News,        \* session/new requests
  Ephemerals,  \* those of them whose session the host declares ephemeral
  Restores,    \* session/load and session/resume requests
  Closes,      \* session/close requests
  Deletes,     \* session/delete requests
  Lists,       \* session/list requests
  Shutdowns,   \* calls of Agent.Close
  Ids,         \* session ids
  IdOf,        \* the id a request names; for session/new, the fresh one it draws
  StoredAtStart, \* ids an earlier agent left in the store
  MaxActiveSessions, \* ConcurrencyLimits.MaxActiveSessions
  None         \* nil

Builders == News \cup Restores
Insts    == Builders             \* the session a request builds
Clients  == Builders \cup Closes \cup Deletes \cup Lists
Requests == Clients \cup Shutdowns

ASSUME RegistryAssumption ==
  /\ Ephemerals \subseteq News
  /\ StoredAtStart \subseteq Ids
  /\ IdOf \in [Builders \cup Closes \cup Deletes -> Ids]
  /\ MaxActiveSessions \in Nat
  /\ IsFiniteSet(Requests) /\ IsFiniteSet(Ids)

ASSUME ActorsAssumption ==
  /\ News \cap (Restores \cup Closes \cup Deletes \cup Lists \cup Shutdowns) = {}
  /\ Restores \cap (Closes \cup Deletes \cup Lists \cup Shutdowns) = {}
  /\ Closes \cap (Deletes \cup Lists \cup Shutdowns) = {}
  /\ Deletes \cap (Lists \cup Shutdowns) = {}
  /\ Lists \cap Shutdowns = {}
  /\ None \notin Requests \cup {"hook", "ladder"}
  /\ {"hook", "ladder"} \cap Requests = {}

\* newSession draws a uuid: no two requests and no stored session share it.
ASSUME FreshAssumption ==
  \A n \in News : /\ IdOf[n] \notin StoredAtStart
                  /\ \A b \in Builders : b \in News /\ IdOf[b] = IdOf[n] => b = n

VARIABLES
  (* Agent, under Agent.mu *)
  sessions,    \* a.sessions: the session registered under an id, or None
  deleted,     \* a.deleted
  ephemeral,   \* a.ephemeral
  starting,    \* a.starting
  closed,      \* a.closed
  restores,    \* a.restores: the ids a load or resume is under way for
  slots,       \* the reservations whose release has not run yet
  (* one session *)
  proc,        \* its claude process
  gate,        \* the holder of its gate
  ladder,      \* how far its shutdown ladder is
  joins,       \* joinEstablishment, sampled when the ladder starts
  persisted,   \* s.persisted
  failed,      \* s.closeErr # nil
  hook,        \* its deferred opening publication
  (* the goroutine of each request *)
  pc,
  seen,        \* the session it sampled or built
  snap,        \* the sessions Agent.Close still has to close
  listing,     \* the answer a list is collecting, and the deletes answered
               \*   before it began
  (* external *)
  stored       \* ids the store lists

agentVars   == <<sessions, deleted, ephemeral, closed>>
slotVars    == <<starting, slots>>
sessionVars == <<proc, gate, ladder, joins, persisted, failed, hook>>
requestVars == <<pc, seen, snap, listing>>

vars == <<agentVars, slotVars, restores, sessionVars, requestVars, stored>>

Ladders == {"open", "stop", "join", "commit", "closed"}
Hooks   == {"none", "owed", "open", "shut", "closing", "ran"}
Pcs     == {"idle", "await", "acquire", "sample", "gate", "reuse", "replay", "load",
            "reserve", "hydrate", "launch", "configure", "install", "handover", "commit",
            "open", "shut", "closing", "drop", "resolve", "ephemeral", "store",
            "mark", "snapshot", "summaries", "records", "next", "ok", "refused"}
Listing == [shown : SUBSET Ids, todo : SUBSET Ids, gone : SUBSET Ids]

-----------------------------------------------------------------------------
(* Shared pieces of the handlers.                                          *)

Goto(q, l) == pc' = [pc EXCEPT ![q] = l]

Active == {id \in Ids : sessions[id] # None}

\* The requests on a session id whose answer the host has.
Answered(S) == {IdOf[q] : q \in {r \in S : pc[r] = "ok"}}

\* The host names an id it was told: a stored one, or an answered session/new.
Known(id) == id \in StoredAtStart \cup Answered(News)

\* wire.Transport.AwaitSession: no opening of the id is owed or under way.
OpeningsRan(id) == \A i \in Insts : IdOf[i] = id => hook[i] \in {"none", "ran"}

\* Both counts, under one hold of the mutex.
WrongFull == Cardinality(Active) >= MaxActiveSessions
Full      == Cardinality(Active) + starting >= MaxActiveSessions

\* The release reserveSlot returns; sync.OnceFunc makes the second call empty.
WrongReleaseSlot(q) == slots' = slots \ {q} /\ starting' = starting - 1
ReleaseSlot(q) ==
  /\ slots'    = slots \ {q}
  /\ starting' = IF q \in slots THEN starting - 1 ELSE starting

ReleaseGate(i) == gate' = [gate EXCEPT ![i] = None]

\* An abandoned establishment ends its hold before it runs the ladder, which
\* joins the gate.
WrongAbandonGate(i) == UNCHANGED gate
AbandonGate(i)      == ReleaseGate(i)

\* The entry of session.close: the first caller starts the ladder, a later one
\* only waits for closeDone.
CloseSection(i) ==
  /\ ladder' = [ladder EXCEPT ![i] = IF ladder[i] = "open" THEN "stop" ELSE ladder[i]]
  /\ joins'  = [joins EXCEPT ![i] = IF ladder[i] = "open" THEN ~persisted[i] ELSE joins[i]]

\* session.close returns: its own ladder, or the closeDone it waited for.
WrongCloseReturned(i) == ladder[i] # "open"
CloseReturned(i)      == ladder[i] = "closed"

Detached(i) ==
  sessions' = [sessions EXCEPT ![IdOf[i]] = IF sessions[IdOf[i]] = i
                                            THEN None ELSE sessions[IdOf[i]]]

\* Every delete of the id that may have reached the store.
DeleteReached(id) == \E d \in Deletes : /\ IdOf[d] = id
                                        /\ pc[d] \in {"mark", "shut", "closing", "ok", "refused"}

\* A commit stores the session.  What a store does with one that comes after
\* the delete of its id is the store's choice.
Committed(id) == stored' \in {stored \cup {id}} \cup IF DeleteReached(id) THEN {stored} ELSE {}

Init ==
  /\ sessions = [id \in Ids |-> None]
  /\ deleted = {} /\ ephemeral = {} /\ restores = {} /\ slots = {}
  /\ starting = 0
  /\ closed = FALSE
  /\ proc = [i \in Insts |-> "none"]
  /\ gate = [i \in Insts |-> None]
  /\ ladder = [i \in Insts |-> "open"]
  /\ joins = [i \in Insts |-> FALSE]
  /\ persisted = [i \in Insts |-> FALSE]
  /\ failed = [i \in Insts |-> FALSE]
  /\ hook = [i \in Insts |-> "none"]
  /\ pc = [q \in Requests |-> "idle"]
  /\ seen = [q \in Requests |-> None]
  /\ snap = [g \in Shutdowns |-> {}]
  /\ listing = [l \in Lists |-> [shown |-> {}, todo |-> {}, gone |-> {}]]
  /\ stored = StoredAtStart

-----------------------------------------------------------------------------
(* Requests enter: ensureOpen, then the wait for openings still owed.      *)

\* The request's first step after ensureOpen.
Entry(q) == CASE q \in News -> "reserve" [] q \in Closes -> "resolve"
              [] q \in Lists -> "snapshot" [] OTHER -> "await"

Begin(q) ==
  /\ pc[q] = "idle"
  /\ q \in Restores \cup Closes \cup Deletes => Known(IdOf[q])
  /\ Goto(q, IF closed THEN "refused" ELSE Entry(q))
  /\ listing' = IF q \in Lists THEN [listing EXCEPT ![q].gone = Answered(Deletes)]
                               ELSE listing
  /\ UNCHANGED <<agentVars, slotVars, restores, sessionVars, seen, snap, stored>>

\* AwaitSession returns: the openings of the id have run.
Await(q) ==
  /\ pc[q] = "await" /\ OpeningsRan(IdOf[q])
  /\ Goto(q, CASE q \in Restores -> "acquire" [] q \in Closes -> "shut"
               [] OTHER -> "ephemeral")
  /\ UNCHANGED <<agentVars, slotVars, restores, sessionVars, seen, snap, listing, stored>>

\* The end of the request's context cuts AwaitSession short.  Nothing else bounds
\* that wait and nobody has to end the context: not part of the fairness.
ContextEnds(q) ==
  /\ pc[q] = "await"
  /\ Goto(q, "refused")
  /\ UNCHANGED <<agentVars, slotVars, restores, sessionVars, seen, snap, listing, stored>>

-----------------------------------------------------------------------------
(* session/load and session/resume up to the slot: Agent.restore.          *)

WrongMayRestore(id) == TRUE
MayRestore(id)      == id \notin restores

Acquire(r) ==
  /\ pc[r] = "acquire"
  /\ IF MayRestore(IdOf[r])
     THEN restores' = restores \cup {IdOf[r]} /\ Goto(r, "sample")
     ELSE UNCHANGED restores /\ Goto(r, "refused")
  /\ UNCHANGED <<agentVars, slotVars, sessionVars, seen, snap, listing, stored>>

Sample(r) ==
  /\ pc[r] = "sample"
  /\ seen' = [seen EXCEPT ![r] = sessions[IdOf[r]]]
  /\ Goto(r, IF IdOf[r] \in deleted THEN "drop"
             ELSE IF sessions[IdOf[r]] = None THEN "load" ELSE "gate")
  /\ UNCHANGED <<agentVars, slotVars, restores, sessionVars, snap, listing, stored>>

\* The live session is reused when the carrier is the same and closed when it
\* is not; a closing one is unknown and a busy one refuses the restore.  A prompt,
\* which is not modelled here, may hold any gate, so the refusal is always
\* possible.  The brief hold before the close of a changed carrier is left out.
AcquireActive(r) ==
  /\ pc[r] = "gate"
  /\ LET i == seen[r] IN
       \/ Goto(r, "drop") /\ UNCHANGED gate
       \/ /\ ladder[i] = "open" /\ gate[i] = None
          /\ \/ Goto(r, "reuse") /\ gate' = [gate EXCEPT ![i] = r]
             \/ Goto(r, "shut") /\ UNCHANGED gate
  /\ UNCHANGED <<agentVars, slotVars, restores, proc, ladder, joins, persisted, failed,
                 hook, seen, snap, listing, stored>>

\* restoreActive: a session that closes or is poisoned meanwhile refuses.
Readmit(r) ==
  /\ pc[r] = "reuse"
  /\ \/ Goto(r, "drop") /\ ReleaseGate(seen[r])
     \/ ladder[seen[r]] = "open" /\ Goto(r, "replay") /\ UNCHANGED gate
  /\ UNCHANGED <<agentVars, slotVars, restores, proc, ladder, joins, persisted, failed,
                 hook, seen, snap, listing, stored>>

\* The replay of a load may fail; the response ends the hold on the gate.
ReplayActive(r) ==
  /\ pc[r] = "replay"
  /\ Goto(r, "ok") \/ Goto(r, "refused")
  /\ ReleaseGate(seen[r])
  /\ restores' = restores \ {IdOf[r]}
  /\ UNCHANGED <<agentVars, slotVars, proc, ladder, joins, persisted, failed,
                 hook, seen, snap, listing, stored>>

LoadStored(r) ==
  /\ pc[r] = "load"
  /\ Goto(r, "drop") \/ (IdOf[r] \in stored /\ Goto(r, "reserve"))
  /\ UNCHANGED <<agentVars, slotVars, restores, sessionVars, seen, snap, listing, stored>>

-----------------------------------------------------------------------------
(* Establishment: the slot, the process, the registry, the first commit    *)
(* and the opening (NewSession and the tail of restore).                   *)

Reserve(q) ==
  /\ pc[q] = "reserve"
  /\ IF closed \/ Full
     THEN Goto(q, "drop") /\ UNCHANGED <<slotVars, seen>>
     ELSE /\ Goto(q, IF q \in Restores THEN "hydrate" ELSE "launch")
          /\ slots' = slots \cup {q} /\ starting' = starting + 1
          /\ seen' = [seen EXCEPT ![q] = q]
  /\ UNCHANGED <<agentVars, restores, sessionVars, snap, listing, stored>>

\* The reconciliation with claude's own file, which stores the newer rows it
\* finds there.
Hydrate(r) ==
  /\ pc[r] = "hydrate"
  /\ \/ Goto(r, "launch") /\ (UNCHANGED stored \/ Committed(IdOf[r]))
     \/ Goto(r, "drop") /\ UNCHANGED stored
  /\ UNCHANGED <<agentVars, slotVars, restores, sessionVars, seen, snap, listing>>

\* A launch that fails leaves no process.
Launch(q) ==
  /\ pc[q] = "launch"
  /\ \/ Goto(q, "configure") /\ proc' = [proc EXCEPT ![q] = "running"]
     \/ Goto(q, "drop") /\ UNCHANGED proc
  /\ UNCHANGED <<agentVars, slotVars, restores, gate, ladder, joins, persisted, failed,
                 hook, seen, snap, listing, stored>>

\* configureRuntime; its failure stops the process.  Nobody else knows the
\* session yet, so HoldSessionGate takes the gate at once.
Configure(q) ==
  /\ pc[q] = "configure"
  /\ \/ /\ Goto(q, "install") /\ gate' = [gate EXCEPT ![q] = q]
        /\ UNCHANGED proc
     \/ /\ Goto(q, "drop") /\ proc' = [proc EXCEPT ![q] = "stopped"]
        /\ UNCHANGED gate
  /\ UNCHANGED <<agentVars, slotVars, restores, ladder, joins, persisted, failed,
                 hook, seen, snap, listing, stored>>

\* install refuses under the one hold of Agent.mu that would publish.
WrongInstallRefusedClosed(id)  == id \in deleted \/ sessions[id] # None
WrongInstallRefusedDeleted(id) == closed \/ sessions[id] # None
InstallRefused(id)             == closed \/ id \in deleted \/ sessions[id] # None

Install(q) ==
  /\ pc[q] = "install"
  /\ IF InstallRefused(IdOf[q])
     THEN /\ Goto(q, "shut") /\ AbandonGate(q)
          /\ UNCHANGED <<sessions, ephemeral>>
     ELSE /\ Goto(q, "handover")
          /\ sessions' = [sessions EXCEPT ![IdOf[q]] = q]
          /\ ephemeral' = ephemeral \cup IF q \in Ephemerals THEN {IdOf[q]} ELSE {}
          /\ UNCHANGED gate
  /\ UNCHANGED <<deleted, closed, slotVars, restores, proc, ladder, joins, persisted,
                 failed, hook, seen, snap, listing, stored>>

\* The reservation ends once the session counts for itself.
HandOver(q) ==
  /\ pc[q] = "handover"
  /\ ReleaseSlot(q)
  /\ Goto(q, "commit")
  /\ UNCHANGED <<agentVars, restores, sessionVars, seen, snap, listing, stored>>

FirstCommit(q) ==
  /\ pc[q] = "commit"
  /\ \/ /\ Goto(q, "open")
        /\ IF q \in Ephemerals THEN UNCHANGED <<persisted, stored>>
           ELSE persisted' = [persisted EXCEPT ![q] = TRUE] /\ Committed(IdOf[q])
        /\ UNCHANGED gate
     \/ /\ q \notin Ephemerals
        /\ Goto(q, "shut") /\ AbandonGate(q)
        /\ UNCHANGED <<persisted, stored>>
  /\ UNCHANGED <<agentVars, slotVars, restores, proc, ladder, joins, failed,
                 hook, seen, snap, listing>>

\* The replay of a load, the registration of the deferred opening and the
\* response; the replay and the registration may fail.
ScheduleOpen(q) ==
  /\ pc[q] = "open"
  /\ \/ /\ Goto(q, "ok")
        /\ hook' = [hook EXCEPT ![q] = "owed"]
        /\ ReleaseGate(q)
        /\ restores' = IF q \in Restores THEN restores \ {IdOf[q]} ELSE restores
     \/ /\ Goto(q, "shut") /\ AbandonGate(q)
        /\ UNCHANGED <<hook, restores>>
  /\ UNCHANGED <<agentVars, slotVars, proc, ladder, joins, persisted, failed,
                 seen, snap, listing, stored>>

\* The deferred releases of a refused establishment.
Drop(q) ==
  /\ pc[q] = "drop"
  /\ ReleaseSlot(q)
  /\ restores' = IF q \in Restores THEN restores \ {IdOf[q]} ELSE restores
  /\ Goto(q, "refused")
  /\ UNCHANGED <<agentVars, sessionVars, seen, snap, listing, stored>>

-----------------------------------------------------------------------------
(* The deferred opening of a session, after its establishing response.     *)

HookGate(i) ==
  /\ hook[i] = "owed" /\ gate[i] = None
  /\ hook' = [hook EXCEPT ![i] = "open"]
  /\ gate' = [gate EXCEPT ![i] = "hook"]
  /\ UNCHANGED <<agentVars, slotVars, restores, proc, ladder, joins, persisted, failed,
                 requestVars, stored>>

\* The hook of a failed opening ends its hold before it closes the session, whose
\* ladder may join the gate.
WrongFailOpen(i) == hook' = [hook EXCEPT ![i] = "shut"] /\ UNCHANGED gate
FailOpen(i)      == hook' = [hook EXCEPT ![i] = "shut"] /\ ReleaseGate(i)

\* openStream; a failure closes the session unless a close already runs.
HookOpen(i) ==
  /\ hook[i] = "open"
  /\ \/ hook' = [hook EXCEPT ![i] = "ran"] /\ ReleaseGate(i)
     \/ ladder[i] = "open" /\ FailOpen(i)
  /\ UNCHANGED <<agentVars, slotVars, restores, proc, ladder, joins, persisted, failed,
                 requestVars, stored>>

HookClose(i) ==
  /\ hook[i] = "shut"
  /\ hook' = [hook EXCEPT ![i] = "closing"]
  /\ CloseSection(i)
  /\ UNCHANGED <<agentVars, slotVars, restores, proc, gate, persisted, failed,
                 requestVars, stored>>

HookDetach(i) ==
  /\ hook[i] = "closing" /\ CloseReturned(i)
  /\ hook' = [hook EXCEPT ![i] = "ran"]
  /\ Detached(i)
  /\ UNCHANGED <<deleted, ephemeral, closed, slotVars, restores, proc, gate, ladder,
                 joins, persisted, failed, requestVars, stored>>

-----------------------------------------------------------------------------
(* session.close: every caller, and the ladder its first caller runs.      *)

StartClose(q) ==
  /\ pc[q] = "shut"
  /\ CloseSection(seen[q])
  /\ Goto(q, "closing")
  /\ UNCHANGED <<agentVars, slotVars, restores, proc, gate, persisted, failed, hook,
                 seen, snap, listing, stored>>

\* Where a request goes on when the close it asked for has returned.
AfterClose(q) ==
  CASE q \in Shutdowns -> "next"
    [] q \in Closes \cup Deletes -> IF failed[seen[q]] THEN "refused" ELSE "ok"
    [] q \in Restores /\ seen[q] # q /\ ~failed[seen[q]] -> "load"
    [] OTHER -> "drop"

Detach(q) ==
  /\ pc[q] = "closing" /\ CloseReturned(seen[q])
  /\ Detached(seen[q])
  /\ Goto(q, AfterClose(q))
  /\ UNCHANGED <<deleted, ephemeral, closed, slotVars, restores, sessionVars, seen,
                 snap, listing, stored>>

\* The dialogs, the turn and the process are stopped.
StopProcess(i) ==
  /\ ladder[i] = "stop"
  /\ proc' = [proc EXCEPT ![i] = "stopped"]
  /\ ladder' = [ladder EXCEPT ![i] = IF joins[i] THEN "join" ELSE "commit"]
  /\ UNCHANGED <<agentVars, slotVars, restores, gate, joins, persisted, failed, hook,
                 requestVars, stored>>

JoinGate(i) ==
  /\ ladder[i] = "join" /\ gate[i] = None
  /\ gate' = [gate EXCEPT ![i] = "ladder"]
  /\ ladder' = [ladder EXCEPT ![i] = "commit"]
  /\ UNCHANGED <<agentVars, slotVars, restores, proc, joins, persisted, failed, hook,
                 requestVars, stored>>

\* The owed rows are committed if the session was ever persisted; that may fail,
\* and so may the terminal idle of a cycle after it.
LastCommit(i) ==
  /\ ladder[i] = "commit"
  /\ \/ /\ IF persisted[i] THEN Committed(IdOf[i]) ELSE UNCHANGED stored
        /\ failed' \in {failed, [failed EXCEPT ![i] = TRUE]}
     \/ persisted[i] /\ failed' = [failed EXCEPT ![i] = TRUE] /\ UNCHANGED stored
  /\ gate' = IF joins[i] THEN [gate EXCEPT ![i] = None] ELSE gate
  /\ ladder' = [ladder EXCEPT ![i] = "closed"]
  /\ UNCHANGED <<agentVars, slotVars, restores, proc, joins, persisted, hook, requestVars>>

-----------------------------------------------------------------------------
(* session/close and session/delete.                                       *)

\* Agent.session, which every request on a live session goes through.
Resolve(c) ==
  /\ pc[c] = "resolve"
  /\ IF closed \/ IdOf[c] \in deleted \/ sessions[IdOf[c]] = None
     THEN Goto(c, "refused") /\ UNCHANGED seen
     ELSE Goto(c, "await") /\ seen' = [seen EXCEPT ![c] = sessions[IdOf[c]]]
  /\ UNCHANGED <<agentVars, slotVars, restores, sessionVars, snap, listing, stored>>

SampleEphemeral(d) ==
  /\ pc[d] = "ephemeral"
  /\ Goto(d, IF IdOf[d] \in ephemeral THEN "mark" ELSE "store")
  /\ UNCHANGED <<agentVars, slotVars, restores, sessionVars, seen, snap, listing, stored>>

StoreDelete(d) ==
  /\ pc[d] = "store"
  /\ \/ Goto(d, "mark") /\ stored' = stored \ {IdOf[d]}
     \/ Goto(d, "refused") /\ UNCHANGED stored
  /\ UNCHANGED <<agentVars, slotVars, restores, sessionVars, seen, snap, listing>>

\* From here on the id is gone; a session still registered under it is closed
\* before the delete answers.
MarkDeleted(d) ==
  /\ pc[d] = "mark"
  /\ deleted' = deleted \cup {IdOf[d]}
  /\ ephemeral' = ephemeral \ {IdOf[d]}
  /\ seen' = [seen EXCEPT ![d] = sessions[IdOf[d]]]
  /\ Goto(d, IF sessions[IdOf[d]] = None THEN "ok" ELSE "shut")
  /\ UNCHANGED <<sessions, closed, slotVars, restores, sessionVars, snap, listing, stored>>

-----------------------------------------------------------------------------
(* session/list: the live sessions, then the store's, each looked at alone. *)

WrongHidden(id) == FALSE
Hidden(id)      == id \in deleted

\* A live session's id is listed unless it is deleted or ephemeral.
Listable(id) == sessions[id] # None /\ ~Hidden(id) /\ sessions[id] \notin Ephemerals

Snapshot(l) ==
  /\ pc[l] = "snapshot"
  /\ listing' = [listing EXCEPT ![l].shown = {id \in Ids : Listable(id)}]
  /\ Goto(l, "summaries")
  /\ UNCHANGED <<agentVars, slotVars, restores, sessionVars, seen, snap, stored>>

Summaries(l) ==
  /\ pc[l] = "summaries"
  /\ \/ /\ listing' = [listing EXCEPT ![l].todo = stored \ listing[l].shown]
        /\ Goto(l, "records")
     \/ Goto(l, "refused") /\ UNCHANGED listing
  /\ UNCHANGED <<agentVars, slotVars, restores, sessionVars, seen, snap, stored>>

\* One stored id: skipped when deleted meanwhile or no longer found.
ListStored(l, id) ==
  /\ pc[l] = "records" /\ id \in listing[l].todo
  /\ \/ /\ listing' = [listing EXCEPT
               ![l].todo  = listing[l].todo \ {id},
               ![l].shown = IF Hidden(id) \/ id \notin stored THEN listing[l].shown
                            ELSE listing[l].shown \cup {id}]
        /\ UNCHANGED pc
     \/ ~Hidden(id) /\ Goto(l, "refused") /\ UNCHANGED listing
  /\ UNCHANGED <<agentVars, slotVars, restores, sessionVars, seen, snap, stored>>

AnswerList(l) ==
  /\ pc[l] = "records" /\ listing[l].todo = {}
  /\ Goto(l, "ok")
  /\ UNCHANGED <<agentVars, slotVars, restores, sessionVars, seen, snap, listing, stored>>

-----------------------------------------------------------------------------
(* Agent.Close.  A second call returns at once, finished or not.           *)

CloseAgent(g) ==
  /\ pc[g] = "idle"
  /\ closed' = TRUE
  /\ IF closed
     THEN Goto(g, "ok") /\ UNCHANGED snap
     ELSE Goto(g, "next") /\ snap' = [snap EXCEPT ![g] = {sessions[id] : id \in Active}]
  /\ UNCHANGED <<sessions, deleted, ephemeral, slotVars, restores, sessionVars, seen,
                 listing, stored>>

CloseNext(g) ==
  /\ pc[g] = "next"
  /\ IF snap[g] = {}
     THEN Goto(g, "ok") /\ UNCHANGED <<seen, snap>>
     ELSE \E i \in snap[g] : /\ snap' = [snap EXCEPT ![g] = snap[g] \ {i}]
                             /\ seen' = [seen EXCEPT ![g] = i]
                             /\ Goto(g, "shut")
  /\ UNCHANGED <<agentVars, slotVars, restores, sessionVars, listing, stored>>

-----------------------------------------------------------------------------
(* What a request does next, and what a session does by itself.            *)

Build(q)   == \/ Reserve(q) \/ Launch(q) \/ Configure(q) \/ Install(q) \/ HandOver(q)
              \/ FirstCommit(q) \/ ScheduleOpen(q) \/ Drop(q)
Restore(r) == \/ Acquire(r) \/ Sample(r) \/ AcquireActive(r) \/ Readmit(r)
              \/ ReplayActive(r) \/ LoadStored(r) \/ Hydrate(r)
Delete(d)  == SampleEphemeral(d) \/ StoreDelete(d) \/ MarkDeleted(d)
List(l)    == \/ Snapshot(l) \/ Summaries(l) \/ AnswerList(l)
              \/ \E id \in Ids : ListStored(l, id)

Serve(q) ==
  \/ q \in Builders /\ Build(q)
  \/ q \in Restores /\ Restore(q)
  \/ q \in Closes /\ Resolve(q)
  \/ q \in Deletes /\ Delete(q)
  \/ q \in Lists /\ List(q)
  \/ q \in Shutdowns /\ CloseNext(q)
  \/ q \in Restores \cup Closes \cup Deletes /\ Await(q)
  \/ q \notin Lists /\ (StartClose(q) \/ Detach(q))

Hook(i)   == HookGate(i) \/ HookOpen(i) \/ HookClose(i) \/ HookDetach(i)
Ladder(i) == StopProcess(i) \/ JoinGate(i) \/ LastCommit(i)

Next ==
  \/ \E q \in Clients : Begin(q)
  \/ \E g \in Shutdowns : CloseAgent(g)
  \/ \E q \in Requests : Serve(q)
  \/ \E q \in Restores \cup Closes \cup Deletes : ContextEnds(q)
  \/ \E i \in Insts : Hook(i) \/ Ladder(i)

Spec == Init /\ [][Next]_vars

\* Go schedules every goroutine; the store, the process and the transport
\* answer within their timeouts.  No request has to be sent, and no context of
\* one ends by itself.
Fairness ==
  /\ \A q \in Requests : WF_vars(Serve(q))
  /\ \A i \in Insts : WF_vars(Hook(i)) /\ WF_vars(Ladder(i))

FairSpec == Spec /\ Fairness
=============================================================================
