---------------------------- MODULE RegistryProofs ----------------------------
(***************************************************************************)
(* Safety of the registry for every number of requests, ids and sessions.  *)
(*                                                                         *)
(* The argument goes from what a request knows to what the processes do: a *)
(* session that is still being built is nobody else's (Private), so only a *)
(* ladder that is over leaves the registry (Stopped), so every process is  *)
(* counted by a reservation or by the registry (Housed) and, the restores  *)
(* of one id excluding one another (Locks), is alone on its id (Alone).    *)
(***************************************************************************)
EXTENDS RegistryTypeProofs

USE DEF Builders, Insts, Clients, Requests

-----------------------------------------------------------------------------
(* Whose session a request has in hand.                                    *)

\* A request has one where it goes on to use it, and a builder that has no slot
\* yet has not its own.
Aims ==
  /\ \A q \in Builders :
       /\ pc[q] \in Before => seen[q] # q
       /\ pc[q] \in {"gate", "reuse", "replay"} => seen[q] # None
  /\ \A q \in Requests \ Lists : pc[q] \in Closing => seen[q] # None
  /\ \A c \in Closes : pc[c] = "await" => seen[c] # None

\* A session is registered under its own id, and a request samples the session
\* of the id it names.
SameId ==
  /\ \A id \in Active : IdOf[sessions[id]] = id
  /\ \A q \in Restores \cup Closes \cup Deletes :
       seen[q] # None => IdOf[seen[q]] = IdOf[q]

\* A builder whose session is not published yet.
Early(q) == pc[q] \in Before \cup Building \/ (pc[q] \in Closing /\ seen[q] # q)

\* Nobody else knows such a session, so nobody has begun to close it, and it
\* has no process before its launch.
Private ==
  \A q \in Builders : Early(q) =>
    /\ ladder[q] = "open" /\ hook[q] = "none"
    /\ \A r \in Requests \ {q} : seen[r] # q
    /\ \A g \in Shutdowns : q \notin snap[g]
    /\ \A id \in Ids : sessions[id] # q
    /\ pc[q] \notin {"configure", "install"} => proc[q] = "none"

\* A request looks up or builds a session before it uses one.
LEMMA AimsStep ==
  ASSUME Types, Own, Private, SameId, Aims, Next
  PROVE  Aims'
<1> USE RegistryAssumption, ActorsAssumption DEF
        Types, Aims, Own, Before, Building, Closing, Private, Early, SameId, Active,
        Goto, agentVars, slotVars, sessionVars, requestVars
<1>1. ASSUME NEW r \in Restores, Restore(r)
      PROVE  Aims'
  BY <1>1 DEF Restore, Acquire, Sample, AcquireActive, Readmit, ReplayActive,
              LoadStored, Hydrate
<1>2. ASSUME NEW q \in Builders, Build(q)
      PROVE  Aims'
  BY <1>2 DEF Build, Reserve, Launch, Configure, Install, InstallRefused, HandOver,
              FirstCommit, ScheduleOpen, Drop, ReleaseSlot
<1>3. ASSUME NEW d \in Deletes, Delete(d)
      PROVE  Aims'
  BY <1>3 DEF Delete, SampleEphemeral, StoreDelete, MarkDeleted
<1>4. ASSUME NEW l \in Lists, List(l)
      PROVE  Aims'
  BY ListQuiet, <1>4
<1>5. ASSUME NEW q \in Requests \ Lists, StartClose(q)
      PROVE  Aims'
  BY <1>5 DEF StartClose, CloseSection
<1>6. ASSUME NEW q \in Requests \ Lists, Detach(q)
      PROVE  Aims'
  BY <1>6 DEF Detach, AfterClose, Detached, CloseReturned
<1>7. ASSUME NEW q \in Clients, Begin(q)
      PROVE  Aims'
  BY <1>7 DEF Begin, Entry
<1>8. ASSUME NEW q \in Closes, Resolve(q)
      PROVE  Aims'
  BY <1>8 DEF Resolve
<1>9. ASSUME NEW q \in Restores \cup Closes \cup Deletes, Await(q) \/ ContextEnds(q)
      PROVE  Aims'
  BY <1>9 DEF Await, ContextEnds
<1>10. ASSUME NEW g \in Shutdowns, CloseAgent(g) \/ CloseNext(g)
      PROVE  Aims'
  BY <1>10 DEF CloseAgent, CloseNext
<1>11. ASSUME NEW i \in Insts, Hook(i)
      PROVE  Aims'
  BY <1>11 DEF Hook, HookGate, HookOpen, FailOpen, HookClose, HookDetach, Detached,
              CloseSection, CloseReturned
<1>12. ASSUME NEW i \in Insts, Ladder(i)
      PROVE  Aims'
  BY <1>12 DEF Ladder, StopProcess, JoinGate, LastCommit
<1> QED
  BY <1>1, <1>2, <1>3, <1>4, <1>5, <1>6, <1>7, <1>8, <1>9, <1>10, <1>11, <1>12
     DEF Next, Serve

\* Every step registers and samples sessions under their own id.
LEMMA SameIdStep ==
  ASSUME Types, Own, Aims, SameId, Next
  PROVE  SameId'
<1> USE RegistryAssumption, ActorsAssumption DEF
        Types, SameId, Before, Building, Closing, Own, Aims, Active, Goto, agentVars,
        slotVars, sessionVars, requestVars
<1>1. ASSUME NEW r \in Restores, Restore(r)
      PROVE  SameId'
  BY <1>1 DEF Restore, Acquire, Sample, AcquireActive, Readmit, ReplayActive,
              LoadStored, Hydrate
<1>2. ASSUME NEW q \in Builders, Build(q)
      PROVE  SameId'
  BY <1>2 DEF Build, Reserve, Launch, Configure, Install, InstallRefused, HandOver,
              FirstCommit, ScheduleOpen, Drop, ReleaseSlot
<1>3. ASSUME NEW d \in Deletes, Delete(d)
      PROVE  SameId'
  BY <1>3 DEF Delete, SampleEphemeral, StoreDelete, MarkDeleted
<1>4. ASSUME NEW l \in Lists, List(l)
      PROVE  SameId'
  BY ListQuiet, <1>4
<1>5. ASSUME NEW q \in Requests \ Lists, StartClose(q)
      PROVE  SameId'
  BY <1>5 DEF StartClose, CloseSection
<1>6. ASSUME NEW q \in Requests \ Lists, Detach(q)
      PROVE  SameId'
  BY <1>6 DEF Detach, AfterClose, Detached, CloseReturned
<1>7. ASSUME NEW q \in Clients, Begin(q)
      PROVE  SameId'
  BY <1>7 DEF Begin, Entry
<1>8. ASSUME NEW q \in Closes, Resolve(q)
      PROVE  SameId'
  BY <1>8 DEF Resolve
<1>9. ASSUME NEW q \in Restores \cup Closes \cup Deletes, Await(q) \/ ContextEnds(q)
      PROVE  SameId'
  BY <1>9 DEF Await, ContextEnds
<1>10. ASSUME NEW g \in Shutdowns, CloseAgent(g) \/ CloseNext(g)
      PROVE  SameId'
  BY <1>10 DEF CloseAgent, CloseNext
<1>11. ASSUME NEW i \in Insts, Hook(i)
      PROVE  SameId'
  BY <1>11 DEF Hook, HookGate, HookOpen, FailOpen, HookClose, HookDetach, Detached,
              CloseSection, CloseReturned
<1>12. ASSUME NEW i \in Insts, Ladder(i)
      PROVE  SameId'
  BY <1>12 DEF Ladder, StopProcess, JoinGate, LastCommit
<1> QED
  BY <1>1, <1>2, <1>3, <1>4, <1>5, <1>6, <1>7, <1>8, <1>9, <1>10, <1>11, <1>12
     DEF Next, Serve

\* A session becomes known by its installation only.
LEMMA PrivateStep ==
  ASSUME Types, Own, Aims, SameId, Private, Next
  PROVE  Private'
<1> USE RegistryAssumption, ActorsAssumption DEF
        Types, Private, Before, Building, Closing, Early, Own, Aims, SameId, Goto,
        agentVars, slotVars, sessionVars, requestVars
<1>1. ASSUME NEW r \in Restores, Restore(r)
      PROVE  Private'
  BY <1>1 DEF Restore, Acquire, Sample, AcquireActive, Readmit, ReplayActive,
              LoadStored, Hydrate
<1>2. ASSUME NEW q \in Builders, Build(q)
      PROVE  Private'
  BY <1>2 DEF Build, Reserve, Launch, Configure, Install, InstallRefused, HandOver,
              FirstCommit, ScheduleOpen, Drop, ReleaseSlot
<1>3. ASSUME NEW d \in Deletes, Delete(d)
      PROVE  Private'
  BY <1>3 DEF Delete, SampleEphemeral, StoreDelete, MarkDeleted
<1>4. ASSUME NEW l \in Lists, List(l)
      PROVE  Private'
  BY ListQuiet, <1>4
<1>5. ASSUME NEW q \in Requests \ Lists, StartClose(q)
      PROVE  Private'
  BY <1>5 DEF StartClose, CloseSection
<1>6. ASSUME NEW q \in Requests \ Lists, Detach(q)
      PROVE  Private'
  BY <1>6 DEF Detach, AfterClose, Detached, CloseReturned
<1>7. ASSUME NEW q \in Clients, Begin(q)
      PROVE  Private'
  BY <1>7 DEF Begin, Entry
<1>8. ASSUME NEW q \in Closes, Resolve(q)
      PROVE  Private'
  BY <1>8 DEF Resolve
<1>9. ASSUME NEW q \in Restores \cup Closes \cup Deletes, Await(q) \/ ContextEnds(q)
      PROVE  Private'
  BY <1>9 DEF Await, ContextEnds
<1>10. ASSUME NEW g \in Shutdowns, CloseAgent(g) \/ CloseNext(g)
      PROVE  Private'
  <2>1. CASE CloseAgent(g)
    <3>1. /\ UNCHANGED <<sessions, ladder, hook, proc, seen>>
          /\ pc' = [pc EXCEPT ![g] = pc'[g]]
          /\ \A h \in Shutdowns : snap'[h] \subseteq snap[h] \cup {sessions[id] : id \in Active}
      BY <2>1 DEF CloseAgent
    <3> QED
      BY <3>1 DEF Active
  <2>2. CASE CloseNext(g)
    <3>1. /\ UNCHANGED <<sessions, ladder, hook, proc>>
          /\ \A q \in Requests \ {g} : pc'[q] = pc[q] /\ seen'[q] = seen[q]
          /\ seen'[g] \in {seen[g]} \cup snap[g]
          /\ \A h \in Shutdowns : snap'[h] \subseteq snap[h]
      BY <2>2 DEF CloseNext
    <3> QED
      BY <3>1
  <2> QED
    BY <1>10, <2>1, <2>2
<1>11. ASSUME NEW i \in Insts, Hook(i)
      PROVE  Private'
  BY <1>11 DEF Hook, HookGate, HookOpen, FailOpen, HookClose, HookDetach, Detached,
              CloseSection, CloseReturned
<1>12. ASSUME NEW i \in Insts, Ladder(i)
      PROVE  Private'
  BY <1>12 DEF Ladder, StopProcess, JoinGate, LastCommit
<1> QED
  BY <1>1, <1>2, <1>3, <1>4, <1>5, <1>6, <1>7, <1>8, <1>9, <1>10, <1>11, <1>12
     DEF Next, Serve

-----------------------------------------------------------------------------
(* Closed sessions stay closed.                                            *)

\* A ladder that is past its stop has stopped the process, and a request that
\* gave its session up has none running.
Stopped ==
  /\ \A i \in Insts : ladder[i] \in {"join", "commit", "closed"} => proc[i] = "stopped"
  /\ \A q \in Builders : pc[q] = "drop" => proc[q] # "running"

\* A ladder stops the process before it goes on.
LEMMA StoppedStep ==
  ASSUME Types, Own, Aims, Private, Stopped, Next
  PROVE  Stopped'
<1> USE RegistryAssumption, ActorsAssumption DEF
        Types, Stopped, Before, Building, Closing, Early, Own, Aims, Private, Goto,
        agentVars, slotVars, sessionVars, requestVars
<1>1. ASSUME NEW r \in Restores, Restore(r)
      PROVE  Stopped'
  BY <1>1 DEF Restore, Acquire, Sample, AcquireActive, Readmit, ReplayActive,
              LoadStored, Hydrate
<1>2. ASSUME NEW q \in Builders, Build(q)
      PROVE  Stopped'
  BY <1>2 DEF Build, Reserve, Launch, Configure, Install, InstallRefused, HandOver,
              FirstCommit, ScheduleOpen, Drop, ReleaseSlot
<1>3. ASSUME NEW d \in Deletes, Delete(d)
      PROVE  Stopped'
  BY <1>3 DEF Delete, SampleEphemeral, StoreDelete, MarkDeleted
<1>4. ASSUME NEW l \in Lists, List(l)
      PROVE  Stopped'
  BY ListQuiet, <1>4
<1>5. ASSUME NEW q \in Requests \ Lists, StartClose(q)
      PROVE  Stopped'
  BY <1>5 DEF StartClose, CloseSection
<1>6. ASSUME NEW q \in Requests \ Lists, Detach(q)
      PROVE  Stopped'
  BY <1>6 DEF Detach, AfterClose, Detached, CloseReturned
<1>7. ASSUME NEW q \in Clients, Begin(q)
      PROVE  Stopped'
  BY <1>7 DEF Begin, Entry
<1>8. ASSUME NEW q \in Closes, Resolve(q)
      PROVE  Stopped'
  BY <1>8 DEF Resolve
<1>9. ASSUME NEW q \in Restores \cup Closes \cup Deletes, Await(q) \/ ContextEnds(q)
      PROVE  Stopped'
  BY <1>9 DEF Await, ContextEnds
<1>10. ASSUME NEW g \in Shutdowns, CloseAgent(g) \/ CloseNext(g)
      PROVE  Stopped'
  BY <1>10 DEF CloseAgent, CloseNext
<1>11. ASSUME NEW i \in Insts, Hook(i)
      PROVE  Stopped'
  BY <1>11 DEF Hook, HookGate, HookOpen, FailOpen, HookClose, HookDetach, Detached,
              CloseSection, CloseReturned
<1>12. ASSUME NEW i \in Insts, Ladder(i)
      PROVE  Stopped'
  BY <1>12 DEF Ladder, StopProcess, JoinGate, LastCommit
<1> QED
  BY <1>1, <1>2, <1>3, <1>4, <1>5, <1>6, <1>7, <1>8, <1>9, <1>10, <1>11, <1>12
     DEF Next, Serve

\* An answered close or delete saw the end of the ladder.
Done ==
  \A q \in Closes \cup Deletes :
    pc[q] = "ok" /\ seen[q] # None => ladder[seen[q]] = "closed"

\* Who is past a close has waited for the ladder.
LEMMA DoneStep ==
  ASSUME Types, Aims, Done, Next
  PROVE  Done'
<1> USE RegistryAssumption, ActorsAssumption DEF
        Types, Done, Before, Building, Closing, Aims, Ladders, Goto, agentVars,
        slotVars, sessionVars, requestVars
<1>1. ASSUME NEW r \in Restores, Restore(r)
      PROVE  Done'
  BY <1>1 DEF Restore, Acquire, Sample, AcquireActive, Readmit, ReplayActive,
              LoadStored, Hydrate
<1>2. ASSUME NEW q \in Builders, Build(q)
      PROVE  Done'
  BY <1>2 DEF Build, Reserve, Launch, Configure, Install, InstallRefused, HandOver,
              FirstCommit, ScheduleOpen, Drop, ReleaseSlot
<1>3. ASSUME NEW d \in Deletes, Delete(d)
      PROVE  Done'
  BY <1>3 DEF Delete, SampleEphemeral, StoreDelete, MarkDeleted
<1>4. ASSUME NEW l \in Lists, List(l)
      PROVE  Done'
  BY ListQuiet, <1>4
<1>5. ASSUME NEW q \in Requests \ Lists, StartClose(q)
      PROVE  Done'
  BY <1>5 DEF StartClose, CloseSection
<1>6. ASSUME NEW q \in Requests \ Lists, Detach(q)
      PROVE  Done'
  BY <1>6 DEF Detach, AfterClose, Detached, CloseReturned
<1>7. ASSUME NEW q \in Clients, Begin(q)
      PROVE  Done'
  BY <1>7 DEF Begin, Entry
<1>8. ASSUME NEW q \in Closes, Resolve(q)
      PROVE  Done'
  BY <1>8 DEF Resolve
<1>9. ASSUME NEW q \in Restores \cup Closes \cup Deletes, Await(q) \/ ContextEnds(q)
      PROVE  Done'
  BY <1>9 DEF Await, ContextEnds
<1>10. ASSUME NEW g \in Shutdowns, CloseAgent(g) \/ CloseNext(g)
      PROVE  Done'
  BY <1>10 DEF CloseAgent, CloseNext
<1>11. ASSUME NEW i \in Insts, Hook(i)
      PROVE  Done'
  BY <1>11 DEF Hook, HookGate, HookOpen, FailOpen, HookClose, HookDetach, Detached,
              CloseSection, CloseReturned
<1>12. ASSUME NEW i \in Insts, Ladder(i)
      PROVE  Done'
  BY <1>12 DEF Ladder, StopProcess, JoinGate, LastCommit
<1> QED
  BY <1>1, <1>2, <1>3, <1>4, <1>5, <1>6, <1>7, <1>8, <1>9, <1>10, <1>11, <1>12
     DEF Next, Serve

\* From its mark on, a delete's id is deleted; the session registered at the
\* mark is the only one left to detach.
Gone ==
  \A d \in Deletes :
    /\ pc[d] \in Closing \cup {"ok"} => IdOf[d] \in deleted
    /\ pc[d] = "ok" => sessions[IdOf[d]] = None
    /\ pc[d] \in Closing => sessions[IdOf[d]] \in {None, seen[d]}

\* No establishment installs under a deleted id, and a delete detaches what it
\* found.
LEMMA GoneStep ==
  ASSUME Types, Aims, SameId, Gone, Next
  PROVE  Gone'
<1> USE RegistryAssumption, ActorsAssumption DEF
        Types, Gone, Before, Building, Closing, Aims, SameId, Goto, agentVars, slotVars,
        sessionVars, requestVars
<1>1. ASSUME NEW r \in Restores, Restore(r)
      PROVE  Gone'
  BY <1>1 DEF Restore, Acquire, Sample, AcquireActive, Readmit, ReplayActive,
              LoadStored, Hydrate
<1>2. ASSUME NEW q \in Builders, Build(q)
      PROVE  Gone'
  BY <1>2 DEF Build, Reserve, Launch, Configure, Install, InstallRefused, HandOver,
              FirstCommit, ScheduleOpen, Drop, ReleaseSlot
<1>3. ASSUME NEW d \in Deletes, Delete(d)
      PROVE  Gone'
  BY <1>3 DEF Delete, SampleEphemeral, StoreDelete, MarkDeleted
<1>4. ASSUME NEW l \in Lists, List(l)
      PROVE  Gone'
  BY ListQuiet, <1>4
<1>5. ASSUME NEW q \in Requests \ Lists, StartClose(q)
      PROVE  Gone'
  BY <1>5 DEF StartClose, CloseSection
<1>6. ASSUME NEW q \in Requests \ Lists, Detach(q)
      PROVE  Gone'
  BY <1>6 DEF Detach, AfterClose, Detached, CloseReturned
<1>7. ASSUME NEW q \in Clients, Begin(q)
      PROVE  Gone'
  BY <1>7 DEF Begin, Entry
<1>8. ASSUME NEW q \in Closes, Resolve(q)
      PROVE  Gone'
  BY <1>8 DEF Resolve
<1>9. ASSUME NEW q \in Restores \cup Closes \cup Deletes, Await(q) \/ ContextEnds(q)
      PROVE  Gone'
  BY <1>9 DEF Await, ContextEnds
<1>10. ASSUME NEW g \in Shutdowns, CloseAgent(g) \/ CloseNext(g)
      PROVE  Gone'
  BY <1>10 DEF CloseAgent, CloseNext
<1>11. ASSUME NEW i \in Insts, Hook(i)
      PROVE  Gone'
  BY <1>11 DEF Hook, HookGate, HookOpen, FailOpen, HookClose, HookDetach, Detached,
              CloseSection, CloseReturned
<1>12. ASSUME NEW i \in Insts, Ladder(i)
      PROVE  Gone'
  BY <1>12 DEF Ladder, StopProcess, JoinGate, LastCommit
<1> QED
  BY <1>1, <1>2, <1>3, <1>4, <1>5, <1>6, <1>7, <1>8, <1>9, <1>10, <1>11, <1>12
     DEF Next, Serve

-----------------------------------------------------------------------------
(* Every process is counted.                                               *)

\* A running process has a reservation or is registered, and the hand-over
\* from the one to the other leaves no gap.
Housed ==
  /\ \A i \in Running : i \in slots \/ sessions[IdOf[i]] = i
  /\ \A q \in Builders : /\ pc[q] \in {"handover", "commit", "open"}
                         /\ proc[q] = "running"
                         => sessions[IdOf[q]] = q

\* A reservation ends only once the session is registered or has no process,
\* and a registration only once its ladder is over.
LEMMA HousedStep ==
  ASSUME Types, Own, Holding, Aims, SameId, Private, Stopped, Housed, Next
  PROVE  Housed'
<1> USE RegistryAssumption, ActorsAssumption DEF
        Types, Housed, Before, Building, Closing, Early, Own, Holding, Aims, SameId,
        Private, Stopped, Running, Goto, agentVars, slotVars, sessionVars, requestVars
<1>1. ASSUME NEW r \in Restores, Restore(r)
      PROVE  Housed'
  BY <1>1 DEF Restore, Acquire, Sample, AcquireActive, Readmit, ReplayActive,
              LoadStored, Hydrate
<1>2. ASSUME NEW q \in Builders, Build(q)
      PROVE  Housed'
  BY <1>2 DEF Build, Reserve, Launch, Configure, Install, InstallRefused, HandOver,
              FirstCommit, ScheduleOpen, Drop, ReleaseSlot
<1>3. ASSUME NEW d \in Deletes, Delete(d)
      PROVE  Housed'
  BY <1>3 DEF Delete, SampleEphemeral, StoreDelete, MarkDeleted
<1>4. ASSUME NEW l \in Lists, List(l)
      PROVE  Housed'
  BY ListQuiet, <1>4
<1>5. ASSUME NEW q \in Requests \ Lists, StartClose(q)
      PROVE  Housed'
  BY <1>5 DEF StartClose, CloseSection
<1>6. ASSUME NEW q \in Requests \ Lists, Detach(q)
      PROVE  Housed'
  BY <1>6 DEF Detach, AfterClose, Detached, CloseReturned
<1>7. ASSUME NEW q \in Clients, Begin(q)
      PROVE  Housed'
  BY <1>7 DEF Begin, Entry
<1>8. ASSUME NEW q \in Closes, Resolve(q)
      PROVE  Housed'
  BY <1>8 DEF Resolve
<1>9. ASSUME NEW q \in Restores \cup Closes \cup Deletes, Await(q) \/ ContextEnds(q)
      PROVE  Housed'
  BY <1>9 DEF Await, ContextEnds
<1>10. ASSUME NEW g \in Shutdowns, CloseAgent(g) \/ CloseNext(g)
      PROVE  Housed'
  BY <1>10 DEF CloseAgent, CloseNext
<1>11. ASSUME NEW i \in Insts, Hook(i)
      PROVE  Housed'
  BY <1>11 DEF Hook, HookGate, HookOpen, FailOpen, HookClose, HookDetach, Detached,
              CloseSection, CloseReturned
<1>12. ASSUME NEW i \in Insts, Ladder(i)
      PROVE  Housed'
  BY <1>12 DEF Ladder, StopProcess, JoinGate, LastCommit
<1> QED
  BY <1>1, <1>2, <1>3, <1>4, <1>5, <1>6, <1>7, <1>8, <1>9, <1>10, <1>11, <1>12
     DEF Next, Serve

\* What counts against the limit: a session once, whether by its reservation,
\* by the registry, or by both in between.
Installed == {sessions[id] : id \in Active}
Counting  == slots \cup Installed
Within    == Cardinality(Counting) <= MaxActiveSessions

\* What the limit counts is finite.
LEMMA FiniteCounting ==
  ASSUME Types
  PROVE  /\ IsFiniteSet(Active) /\ IsFiniteSet(Installed) /\ IsFiniteSet(Counting)
         /\ Cardinality(Active) \in Nat /\ Cardinality(Counting) \in Nat
         /\ Cardinality(slots) \in Nat /\ Cardinality(Installed) <= Cardinality(Active)
         /\ Cardinality(Counting) <= Cardinality(slots) + Cardinality(Active)
<1>1. IsFiniteSet(Active) /\ IsFiniteSet(slots)
  <2>1. Active \in SUBSET Ids
    BY DEF Active
  <2> QED
    BY <2>1, FiniteSlots, RegistryAssumption, FS_Subset
<1>2. IsFiniteSet(Installed) /\ Cardinality(Installed) <= Cardinality(Active)
  <2> DEFINE f == [id \in Active |-> sessions[id]]
  <2>1. f \in Surjection(Active, Installed)
    BY DEF Surjection, Installed
  <2> HIDE DEF f
  <2> QED
    BY <1>1, <2>1, FS_Surjection
<1>3. /\ IsFiniteSet(Counting)
      /\ Cardinality(Counting) = Cardinality(slots) + Cardinality(Installed)
                                  - Cardinality(slots \cap Installed)
  BY <1>1, <1>2, FS_Union DEF Counting
<1>4. IsFiniteSet(slots \cap Installed)
  <2>1. slots \cap Installed \in SUBSET slots
    OBVIOUS
  <2> QED
    BY <1>1, <2>1, FS_Subset
<1>5. /\ Cardinality(Active) \in Nat /\ Cardinality(Counting) \in Nat
      /\ Cardinality(slots) \in Nat /\ Cardinality(Installed) \in Nat
      /\ Cardinality(slots \cap Installed) \in Nat
  BY <1>1, <1>2, <1>3, <1>4, FS_CardinalityType
<1> QED
  BY <1>1, <1>2, <1>3, <1>5

\* Only a new reservation adds to it, after the check of both counts.
LEMMA ReserveWithin ==
  ASSUME Types, Counted, Within, NEW q \in Builders, Reserve(q)
  PROVE  Within'
<1>1. UNCHANGED sessions
  BY DEF Reserve, agentVars
<1>2. CASE UNCHANGED slots
  BY <1>1, <1>2 DEF Within, Counting, Installed, Active
<1>3. CASE ~Full /\ slots' = slots \cup {q}
  <2>1. Counting' = Counting \cup {q}
    BY <1>1, <1>3 DEF Counting, Installed, Active
  <2>2. /\ Cardinality(Counting') <= Cardinality(Counting) + 1
        /\ Cardinality(Counting') \in Nat
    <3>1. IsFiniteSet(Counting) /\ Cardinality(Counting) \in Nat
      BY FiniteCounting
    <3>2. Cardinality(Counting \cup {q}) =
            IF q \in Counting THEN Cardinality(Counting) ELSE Cardinality(Counting) + 1
      BY <3>1, FS_AddElement
    <3> HIDE DEF Counting
    <3> QED
      BY <2>1, <3>1, <3>2
  <2>3. Cardinality(Active) + starting < MaxActiveSessions
    BY <1>3, FiniteCounting, RegistryAssumption DEF Full, Counted
  <2> QED
    BY <2>2, <2>3, FiniteCounting, RegistryAssumption DEF Within, Counted
<1> QED
  BY <1>2, <1>3 DEF Reserve, slotVars

\* Only a reservation adds to the count, and it checks the limit.
LEMMA WithinStep ==
  ASSUME Types, Own, Holding, Counted, Within, Next
  PROVE  Within'
<1>1. ASSUME Counting' \subseteq Counting
      PROVE  Within'
  <2>1. Counting' \in SUBSET Counting
    BY <1>1
  <2>2. Cardinality(Counting') <= Cardinality(Counting) /\ Cardinality(Counting') \in Nat
    BY <2>1, FiniteCounting, FS_Subset, FS_CardinalityType
  <2> QED
    BY <2>2, FiniteCounting, RegistryAssumption DEF Within
<1> USE DEF Types, Counting, Installed, Active, Goto, agentVars, slotVars, sessionVars,
            requestVars
<1>2. ASSUME NEW q \in Builders, Build(q)
      PROVE  Within'
  <2>1. CASE Reserve(q)
    BY <2>1, ReserveWithin
  <2>2. CASE Install(q)
    <3>1. slots' = slots /\ q \in slots
      BY <2>2 DEF Install, Holding, Building
    <3>2. \A id \in Ids : sessions'[id] \in {sessions[id], q}
      BY <2>2 DEF Install
    <3> QED
      BY <1>1, <3>1, <3>2, ActorsAssumption
  <2>3. CASE HandOver(q) \/ Drop(q)
    BY <1>1, <2>3 DEF HandOver, Drop, ReleaseSlot
  <2>4. CASE Launch(q) \/ Configure(q) \/ FirstCommit(q) \/ ScheduleOpen(q)
    BY <1>1, <2>4 DEF Launch, Configure, FirstCommit, ScheduleOpen
  <2> QED
    BY <1>2, <2>1, <2>2, <2>3, <2>4 DEF Build
<1>3. ASSUME NEW i, Detached(i), UNCHANGED slots
      PROVE  Within'
  <2>1. \A id \in Ids : sessions'[id] \in {sessions[id], None}
    BY <1>3 DEF Detached
  <2> QED
    BY <1>1, <1>3, <2>1
<1>4. ASSUME UNCHANGED <<sessions, slots>>
      PROVE  Within'
  BY <1>1, <1>4
<1>5. ASSUME NEW q \in Requests, Serve(q)
      PROVE  Within'
  <2>1. CASE q \in Builders /\ Build(q)
    BY <1>2, <2>1
  <2>2. CASE q \in Restores /\ Restore(q)
    BY <1>4, <2>2 DEF Restore, Acquire, Sample, AcquireActive, Readmit, ReplayActive,
                      LoadStored, Hydrate
  <2>3. CASE q \in Lists /\ List(q)
    BY <1>4, <2>3, ListQuiet
  <2>4. CASE Detach(q)
    BY <1>3, <2>4 DEF Detach
  <2>5. CASE \/ Resolve(q) \/ Delete(q) \/ CloseNext(q) \/ Await(q) \/ StartClose(q)
    BY <1>4, <2>5 DEF Resolve, Delete, SampleEphemeral, StoreDelete, MarkDeleted,
                      CloseNext, Await, StartClose
  <2> QED
    BY <1>5, <2>1, <2>2, <2>3, <2>4, <2>5 DEF Serve
<1>6. ASSUME NEW i \in Insts, Hook(i) \/ Ladder(i)
      PROVE  Within'
  <2>1. CASE HookDetach(i)
    BY <1>3, <2>1 DEF HookDetach
  <2>2. CASE ~HookDetach(i)
    BY <1>4, <1>6, <2>2 DEF Hook, HookGate, HookOpen, FailOpen, HookClose, Ladder, StopProcess,
                            JoinGate, LastCommit
  <2> QED
    BY <2>1, <2>2
<1> QED
  BY <1>4, <1>5, <1>6 DEF Next, Begin, CloseAgent, ContextEnds

-----------------------------------------------------------------------------
(* The restores of one id exclude one another.                             *)

\* A request on an id was told of it.
Begun == \A q \in Restores \cup Closes \cup Deletes : pc[q] # "idle" => Known(IdOf[q])

\* A restore holds its id from its turn in restores to its release.
Locked == {r \in Restores : pc[r] \notin {"idle", "await", "acquire", "ok", "refused"}}

Locks ==
  /\ \A r \in Locked : IdOf[r] \in restores
  /\ \A r, s \in Locked : IdOf[r] = IdOf[s] => r = s

\* While it holds it, nobody registers another session under the id than the
\* one it sampled.
Sampled ==
  \A r \in Locked : pc[r] \in {"gate", "reuse"} \cup Closing /\ seen[r] # r
                    => sessions[IdOf[r]] \in {None, seen[r]}

\* What the host was told stays known.
LEMMA BegunStep ==
  ASSUME Types, Begun, Next
  PROVE  Begun'
<1> USE RegistryAssumption, ActorsAssumption DEF
        Types, Begun, Known, Answered, Goto, agentVars, slotVars, sessionVars,
        requestVars
<1>1. ASSUME NEW r \in Restores, Restore(r)
      PROVE  Begun'
  BY <1>1 DEF Restore, Acquire, Sample, AcquireActive, Readmit, ReplayActive,
              LoadStored, Hydrate
<1>2. ASSUME NEW q \in Builders, Build(q)
      PROVE  Begun'
  BY <1>2 DEF Build, Reserve, Launch, Configure, Install, InstallRefused, HandOver,
              FirstCommit, ScheduleOpen, Drop, ReleaseSlot
<1>3. ASSUME NEW d \in Deletes, Delete(d)
      PROVE  Begun'
  BY <1>3 DEF Delete, SampleEphemeral, StoreDelete, MarkDeleted
<1>4. ASSUME NEW l \in Lists, List(l)
      PROVE  Begun'
  BY ListQuiet, <1>4
<1>5. ASSUME NEW q \in Requests \ Lists, StartClose(q)
      PROVE  Begun'
  BY <1>5 DEF StartClose, CloseSection
<1>6. ASSUME NEW q \in Requests \ Lists, Detach(q)
      PROVE  Begun'
  BY <1>6 DEF Detach, AfterClose, Detached, CloseReturned
<1>7. ASSUME NEW q \in Clients, Begin(q)
      PROVE  Begun'
  BY <1>7 DEF Begin, Entry
<1>8. ASSUME NEW q \in Closes, Resolve(q)
      PROVE  Begun'
  BY <1>8 DEF Resolve
<1>9. ASSUME NEW q \in Restores \cup Closes \cup Deletes, Await(q) \/ ContextEnds(q)
      PROVE  Begun'
  BY <1>9 DEF Await, ContextEnds
<1>10. ASSUME NEW g \in Shutdowns, CloseAgent(g) \/ CloseNext(g)
      PROVE  Begun'
  BY <1>10 DEF CloseAgent, CloseNext
<1>11. ASSUME NEW i \in Insts, Hook(i)
      PROVE  Begun'
  BY <1>11 DEF Hook, HookGate, HookOpen, FailOpen, HookClose, HookDetach, Detached,
              CloseSection, CloseReturned
<1>12. ASSUME NEW i \in Insts, Ladder(i)
      PROVE  Begun'
  BY <1>12 DEF Ladder, StopProcess, JoinGate, LastCommit
<1> QED
  BY <1>1, <1>2, <1>3, <1>4, <1>5, <1>6, <1>7, <1>8, <1>9, <1>10, <1>11, <1>12
     DEF Next, Serve

\* A restore takes an id nobody holds and gives back its own.
LEMMA LocksStep ==
  ASSUME Types, Aims, Locks, Next
  PROVE  Locks'
<1> USE RegistryAssumption, ActorsAssumption DEF
        Types, Locks, Locked, Before, Building, Closing, Aims, Goto, agentVars,
        slotVars, sessionVars, requestVars
<1>1. ASSUME NEW r \in Restores, Restore(r)
      PROVE  Locks'
  <2>1. CASE Acquire(r)
    BY <2>1 DEF Acquire, MayRestore
  <2>2. CASE ReplayActive(r)
    BY <2>2 DEF ReplayActive
  <2>3. CASE ~Acquire(r) /\ ~ReplayActive(r)
    <3>1. /\ UNCHANGED restores
          /\ r \in Locked
          /\ \A q \in Requests \ {r} : pc'[q] = pc[q]
      BY <1>1, <2>3 DEF Restore, Sample, AcquireActive, Readmit, LoadStored, Hydrate
    <3> QED
      BY <3>1
  <2> QED
    BY <2>1, <2>2, <2>3
<1>2. ASSUME NEW q \in Builders, Build(q)
      PROVE  Locks'
  BY <1>2 DEF Build, Reserve, Launch, Configure, Install, InstallRefused, HandOver,
              FirstCommit, ScheduleOpen, Drop, ReleaseSlot
<1>3. ASSUME NEW d \in Deletes, Delete(d)
      PROVE  Locks'
  BY <1>3 DEF Delete, SampleEphemeral, StoreDelete, MarkDeleted
<1>4. ASSUME NEW l \in Lists, List(l)
      PROVE  Locks'
  BY ListQuiet, <1>4
<1>5. ASSUME NEW q \in Requests \ Lists, StartClose(q)
      PROVE  Locks'
  BY <1>5 DEF StartClose, CloseSection
<1>6. ASSUME NEW q \in Requests \ Lists, Detach(q)
      PROVE  Locks'
  BY <1>6 DEF Detach, AfterClose, Detached, CloseReturned
<1>7. ASSUME NEW q \in Clients, Begin(q)
      PROVE  Locks'
  BY <1>7 DEF Begin, Entry
<1>8. ASSUME NEW q \in Closes, Resolve(q)
      PROVE  Locks'
  BY <1>8 DEF Resolve
<1>9. ASSUME NEW q \in Restores \cup Closes \cup Deletes, Await(q) \/ ContextEnds(q)
      PROVE  Locks'
  BY <1>9 DEF Await, ContextEnds
<1>10. ASSUME NEW g \in Shutdowns, CloseAgent(g) \/ CloseNext(g)
      PROVE  Locks'
  BY <1>10 DEF CloseAgent, CloseNext
<1>11. ASSUME NEW i \in Insts, Hook(i)
      PROVE  Locks'
  BY <1>11 DEF Hook, HookGate, HookOpen, FailOpen, HookClose, HookDetach, Detached,
              CloseSection, CloseReturned
<1>12. ASSUME NEW i \in Insts, Ladder(i)
      PROVE  Locks'
  BY <1>12 DEF Ladder, StopProcess, JoinGate, LastCommit
<1> QED
  BY <1>1, <1>2, <1>3, <1>4, <1>5, <1>6, <1>7, <1>8, <1>9, <1>10, <1>11, <1>12
     DEF Next, Serve

\* Any other builder on the id of a locked restore is not building.
LEMMA Solo ==
  ASSUME Locks, Begun, NEW r \in Locked, NEW b \in Builders, b # r, IdOf[b] = IdOf[r]
  PROVE  pc[b] \in {"idle", "await", "acquire", "ok", "refused"}
<1>1. CASE b \in Restores
  BY <1>1 DEF Locks, Locked
<1>2. CASE b \in News
  <2>1. Known(IdOf[r]) /\ IdOf[r] \notin StoredAtStart
    BY <1>2, FreshAssumption DEF Begun, Locked
  <2>2. PICK n \in News : pc[n] = "ok" /\ IdOf[n] = IdOf[r]
    BY <2>1 DEF Known, Answered
  <2> QED
    BY <1>2, <2>2, FreshAssumption
<1> QED
  BY <1>1, <1>2

\* While a restore holds its id nobody else installs under it.
LEMMA SampledStep ==
  ASSUME Types, Own, Aims, SameId, Begun, Locks, Sampled, Next
  PROVE  Sampled'
<1> USE RegistryAssumption, ActorsAssumption DEF
        Types, Sampled, Locked, Before, Building, Closing, Own, Aims, SameId, Goto,
        agentVars, slotVars, sessionVars, requestVars
<1>1. ASSUME NEW r \in Restores, Restore(r)
      PROVE  Sampled'
  BY <1>1 DEF Restore, Acquire, Sample, AcquireActive, Readmit, ReplayActive,
              LoadStored, Hydrate
<1>2. ASSUME NEW q \in Builders, Build(q)
      PROVE  Sampled'
  <2>1. CASE Install(q)
    <3>1. \A r \in Locked : r # q => IdOf[r] # IdOf[q]
      BY <2>1, Solo DEF Install
    <3>2. /\ \A r \in Requests \ {q} : pc'[r] = pc[r]
          /\ pc'[q] \in {"shut", "handover"}
          /\ seen' = seen /\ seen[q] = q
          /\ \A id \in Ids : id # IdOf[q] => sessions'[id] = sessions[id]
      BY <2>1 DEF Install
    <3> QED
      BY <3>1, <3>2
  <2>2. CASE ~Install(q)
    <3>1. /\ UNCHANGED sessions
          /\ \A r \in Requests \ {q} : pc'[r] = pc[r] /\ seen'[r] = seen[r]
      BY <1>2, <2>2 DEF Build, Reserve, Launch, Configure, HandOver, FirstCommit,
                        ScheduleOpen, Drop
    <3>2. pc'[q] \in {"gate", "reuse", "shut", "closing"} => seen'[q] = q
      BY <1>2, <2>2 DEF Build, Reserve, Launch, Configure, HandOver, FirstCommit,
                        ScheduleOpen, Drop
    <3> QED
      BY <3>1, <3>2
  <2> QED
    BY <2>1, <2>2
<1>3. ASSUME NEW d \in Deletes, Delete(d)
      PROVE  Sampled'
  BY <1>3 DEF Delete, SampleEphemeral, StoreDelete, MarkDeleted
<1>4. ASSUME NEW l \in Lists, List(l)
      PROVE  Sampled'
  BY ListQuiet, <1>4
<1>5. ASSUME NEW q \in Requests \ Lists, StartClose(q)
      PROVE  Sampled'
  BY <1>5 DEF StartClose, CloseSection
<1>6. ASSUME NEW q \in Requests \ Lists, Detach(q)
      PROVE  Sampled'
  BY <1>6 DEF Detach, AfterClose, Detached, CloseReturned
<1>7. ASSUME NEW q \in Clients, Begin(q)
      PROVE  Sampled'
  BY <1>7 DEF Begin, Entry
<1>8. ASSUME NEW q \in Closes, Resolve(q)
      PROVE  Sampled'
  BY <1>8 DEF Resolve
<1>9. ASSUME NEW q \in Restores \cup Closes \cup Deletes, Await(q) \/ ContextEnds(q)
      PROVE  Sampled'
  BY <1>9 DEF Await, ContextEnds
<1>10. ASSUME NEW g \in Shutdowns, CloseAgent(g) \/ CloseNext(g)
      PROVE  Sampled'
  BY <1>10 DEF CloseAgent, CloseNext
<1>11. ASSUME NEW i \in Insts, Hook(i)
      PROVE  Sampled'
  BY <1>11 DEF Hook, HookGate, HookOpen, FailOpen, HookClose, HookDetach, Detached,
              CloseSection, CloseReturned
<1>12. ASSUME NEW i \in Insts, Ladder(i)
      PROVE  Sampled'
  BY <1>12 DEF Ladder, StopProcess, JoinGate, LastCommit
<1> QED
  BY <1>1, <1>2, <1>3, <1>4, <1>5, <1>6, <1>7, <1>8, <1>9, <1>10, <1>11, <1>12
     DEF Next, Serve

-----------------------------------------------------------------------------
(* One process for each id.                                                *)

\* A restore on its way to launch is the only one of its id to have a process.
Alone ==
  /\ OneProcessPerId
  /\ \A r \in Restores : pc[r] \in {"load", "reserve", "hydrate", "launch"} =>
       \A i \in Running : IdOf[i] # IdOf[r]

\* A launch is alone on its id: whatever was registered there is stopped, and no
\* other builder of the id is building.
LEMMA AloneStep ==
  ASSUME Types, Own, Holding, Aims, SameId, Private, Stopped, Housed, Begun, Locks,
        Sampled, Alone, Next
  PROVE  Alone'
<1> USE RegistryAssumption, ActorsAssumption DEF
        Types, Alone, OneProcessPerId, Running, Before, Building, Closing, Early, Own,
        Goto, agentVars, slotVars, sessionVars, requestVars
<1>1. ASSUME NEW r \in Restores, Restore(r)
      PROVE  Alone'
  <2>1. UNCHANGED <<proc, sessions, slots>> /\ \A q \in Requests \ {r} : pc'[q] = pc[q]
    BY <1>1 DEF Restore, Acquire, Sample, AcquireActive, Readmit, ReplayActive, LoadStored, Hydrate
  <2>2. ASSUME Sample(r), pc'[r] = "load", NEW i \in Running, IdOf[i] = IdOf[r]
        PROVE  FALSE
    <3>1. i # r /\ r \in Locked
      BY <2>2 DEF Sample, Locked, Private
    <3>2. i \notin slots
      BY <2>2, <3>1, Solo DEF Holding
    <3>3. sessions[IdOf[i]] = i
      BY <3>2 DEF Housed
    <3> QED
      BY <2>2, <3>3 DEF Sample
  <2>3. pc'[r] \in {"load", "reserve", "hydrate", "launch"} =>
          \/ Sample(r) /\ pc'[r] = "load"
          \/ pc[r] \in {"load", "hydrate"}
    BY <1>1 DEF Restore, Acquire, Sample, AcquireActive, Readmit, ReplayActive, LoadStored, Hydrate
  <2> QED
    BY <2>1, <2>2, <2>3
<1>2. ASSUME NEW q \in Builders, Build(q)
      PROVE  Alone'
  <2>1. CASE Launch(q) /\ pc'[q] = "configure"
    <3>1. \A i \in Running : IdOf[i] # IdOf[q]
      <4>1. CASE q \in Restores
        BY <2>1, <4>1 DEF Launch
      <4>2. CASE q \in News
        <5> SUFFICES ASSUME NEW i \in Running, IdOf[i] = IdOf[q] PROVE FALSE
          OBVIOUS
        <5>1. i # q /\ pc[q] = "launch"
          BY <2>1 DEF Launch, Private
        <5>2. i \in Restores
          BY <4>2, <5>1, FreshAssumption
        <5>3. pc[i] # "idle"
          BY <5>2 DEF Private
        <5>4. PICK n \in News : pc[n] = "ok" /\ IdOf[n] = IdOf[q]
          BY <4>2, <5>2, <5>3, FreshAssumption DEF Begun, Known, Answered
        <5> QED
          BY <4>2, <5>1, <5>4, FreshAssumption
      <4> QED
        BY <4>1, <4>2
    <3>2. \A r \in Restores : pc[r] \in {"load", "reserve", "hydrate", "launch"} /\ r # q =>
            IdOf[r] # IdOf[q]
      BY <2>1, Solo DEF Launch, Locked
    <3>3. /\ Running' = Running \cup {q}
          /\ \A r \in Requests \ {q} : pc'[r] = pc[r]
      BY <2>1 DEF Launch
    <3> QED
      BY <2>1, <3>1, <3>2, <3>3
  <2>2. CASE ~(Launch(q) /\ pc'[q] = "configure")
    <3>1. /\ Running' \subseteq Running
          /\ \A r \in Requests \ {q} : pc'[r] = pc[r]
      BY <1>2, <2>2 DEF Build, Reserve, Launch, Configure, Install, HandOver, FirstCommit,
                        ScheduleOpen, Drop
    <3>2. pc'[q] \in {"load", "reserve", "hydrate", "launch"} => pc[q] \in {"reserve", "hydrate"}
      BY <1>2, <2>2 DEF Build, Reserve, Launch, Configure, Install, HandOver, FirstCommit,
                        ScheduleOpen, Drop
    <3> QED
      BY <3>1, <3>2
  <2> QED
    BY <2>1, <2>2
<1>3. ASSUME NEW d \in Deletes, Delete(d)
      PROVE  Alone'
  BY <1>3 DEF Delete, SampleEphemeral, StoreDelete, MarkDeleted
<1>4. ASSUME NEW l \in Lists, List(l)
      PROVE  Alone'
  BY ListQuiet, <1>4
<1>5. ASSUME NEW q \in Requests \ Lists, StartClose(q)
      PROVE  Alone'
  BY <1>5 DEF StartClose, CloseSection
<1>6. ASSUME NEW q \in Requests \ Lists, Detach(q)
      PROVE  Alone'
  <2>1. /\ UNCHANGED <<proc, slots>>
        /\ \A r \in Requests \ {q} : pc'[r] = pc[r]
    BY <1>6 DEF Detach
  <2>2. ASSUME q \in Restores, pc'[q] = "load", NEW i \in Running, IdOf[i] = IdOf[q]
        PROVE  FALSE
    <3>1. /\ pc[q] = "closing" /\ seen[q] # q /\ seen[q] # None
          /\ ladder[seen[q]] = "closed"
      BY <1>6, <2>2 DEF Detach, AfterClose, CloseReturned, Aims
    <3>2. q \in Locked /\ i # q /\ i # seen[q]
      BY <2>2, <3>1 DEF Locked, Private, Stopped
    <3>3. i \notin slots
      BY <2>2, <3>2, Solo DEF Holding
    <3>4. sessions[IdOf[q]] = i
      BY <2>2, <3>3 DEF Housed
    <3> QED
      BY <2>2, <3>1, <3>2, <3>4 DEF Sampled
  <2>3. q \in Restores /\ pc'[q] \in {"load", "reserve", "hydrate", "launch"} => pc'[q] = "load"
    BY <1>6 DEF Detach, AfterClose
  <2> QED
    BY <2>1, <2>2, <2>3
<1>7. ASSUME NEW q \in Clients, Begin(q)
      PROVE  Alone'
  BY <1>7 DEF Begin, Entry
<1>8. ASSUME NEW q \in Closes, Resolve(q)
      PROVE  Alone'
  BY <1>8 DEF Resolve
<1>9. ASSUME NEW q \in Restores \cup Closes \cup Deletes, Await(q) \/ ContextEnds(q)
      PROVE  Alone'
  BY <1>9 DEF Await, ContextEnds
<1>10. ASSUME NEW g \in Shutdowns, CloseAgent(g) \/ CloseNext(g)
      PROVE  Alone'
  BY <1>10 DEF CloseAgent, CloseNext
<1>11. ASSUME NEW i \in Insts, Hook(i)
      PROVE  Alone'
  BY <1>11 DEF Hook, HookGate, HookOpen, FailOpen, HookClose, HookDetach, Detached,
              CloseSection, CloseReturned
<1>12. ASSUME NEW i \in Insts, Ladder(i)
      PROVE  Alone'
  BY <1>12 DEF Ladder, StopProcess, JoinGate, LastCommit
<1> QED
  BY <1>1, <1>2, <1>3, <1>4, <1>5, <1>6, <1>7, <1>8, <1>9, <1>10, <1>11, <1>12
     DEF Next, Serve

-----------------------------------------------------------------------------
(* The invariant and what it shows.                                        *)

Safe ==
  /\ TypeInv
  /\ Aims /\ SameId /\ Private /\ Stopped /\ Done /\ Gone
  /\ Housed /\ Within
  /\ Begun /\ Locks /\ Sampled /\ Alone

\* A fresh agent satisfies the invariant.
LEMMA SafeInit == Init => Safe
<1> SUFFICES ASSUME Init PROVE Safe
  OBVIOUS
<1>1. TypeInv
  BY TypeInvInit
<1>2. Aims /\ SameId /\ Private /\ Stopped /\ Done /\ Gone
  BY RegistryAssumption, ActorsAssumption
     DEF Init, Aims, SameId, Active, Private, Early, Before, Building, Closing, Stopped,
         Done, Gone
<1>3. Running = {} /\ Active = {} /\ slots = {}
  BY DEF Init, Running, Active
<1>4. Counting = {}
  BY <1>3 DEF Counting, Installed
<1>5. Housed /\ Within
  BY <1>3, <1>4, FS_EmptySet, RegistryAssumption DEF Init, Housed, Within
<1>6. Begun /\ Locks /\ Sampled
  BY DEF Init, Begun, Locks, Sampled, Locked
<1>7. Alone
  BY <1>3 DEF Init, Alone, OneProcessPerId
<1> QED
  BY <1>1, <1>2, <1>5, <1>6, <1>7 DEF Safe

\* Every step keeps the invariant.
LEMMA SafeStep == Safe /\ [Next]_vars => Safe'
<1> SUFFICES ASSUME Safe, [Next]_vars PROVE Safe'
  OBVIOUS
<1>1. CASE Next
  <2>1. TypeInv' /\ Types /\ Own /\ Holding /\ Counted
    BY TypeInvStep DEF Safe, TypeInv
  <2>2. Aims' /\ SameId' /\ Private' /\ Stopped' /\ Done' /\ Gone'
    BY <1>1, <2>1, AimsStep, SameIdStep, PrivateStep, StoppedStep, DoneStep, GoneStep DEF Safe
  <2>3. Housed' /\ Within'
    BY <1>1, <2>1, HousedStep, WithinStep DEF Safe
  <2>4. Begun' /\ Locks' /\ Sampled' /\ Alone'
    BY <1>1, <2>1, BegunStep, LocksStep, SampledStep, AloneStep DEF Safe
  <2> QED
    BY <2>1, <2>2, <2>3, <2>4 DEF Safe
<1>2. CASE UNCHANGED vars
  <2> USE <1>2 DEF Safe, vars, agentVars, slotVars, sessionVars, requestVars
  <2>1. TypeInv'
    BY TypeInvStep
  <2>2. Aims' /\ SameId' /\ Private' /\ Stopped' /\ Done' /\ Gone'
    BY DEF Aims, SameId, Active, Private, Early, Stopped, Done, Gone
  <2>3. Housed' /\ Within'
    BY DEF Housed, Running, Within, Counting, Installed, Active
  <2>4. Begun' /\ Locks' /\ Sampled' /\ Alone'
    BY DEF Begun, Known, Answered, Locks, Locked, Sampled, Alone, OneProcessPerId, Running
  <2> QED
    BY <2>1, <2>2, <2>3, <2>4
<1> QED
  BY <1>1, <1>2

\* Safe is inductive.
LEMMA SafeAlways == Spec => []Safe
BY SafeInit, SafeStep, PTL DEF Spec

\* After a delete has answered, nothing is registered under its id again,
\* whatever establishments, closes and shutdowns were in flight.
THEOREM DeletedStaysGone == Spec => []DeletedIsGone
<1>1. Safe => DeletedIsGone
  BY DEF Safe, Gone, DeletedIsGone, Answered
<1> QED
  BY <1>1, SafeAlways, PTL

\* An answered close or delete has left its session without a process, whoever
\* ran the ladder.
THEOREM AnsweredCloseStopped == Spec => []AnsweredCloseIsDone
<1>1. Safe => AnsweredCloseIsDone
  BY DEF Safe, TypeInv, Types, Done, Stopped, AnsweredCloseIsDone
<1> QED
  BY <1>1, SafeAlways, PTL

\* The limit on active sessions bounds the claude processes of the agent.
THEOREM ProcessesWithinLimit == Spec => []ActiveWithinLimit
<1>1. ASSUME Safe PROVE ActiveWithinLimit
  <2>1. Types /\ Housed /\ Within
    BY <1>1 DEF Safe, TypeInv
  <2>2. Running \in SUBSET Counting
    BY <2>1, RegistryAssumption, ActorsAssumption
       DEF Types, Housed, Counting, Installed, Active, Running
  <2>3. /\ IsFiniteSet(Running) /\ Cardinality(Running) \in Nat
        /\ Cardinality(Running) <= Cardinality(Counting) /\ Cardinality(Counting) \in Nat
    BY <2>1, <2>2, FiniteCounting, FS_Subset, FS_CardinalityType
  <2> QED
    BY <2>1, <2>3, RegistryAssumption DEF Within, ActiveWithinLimit
<1> QED
  BY <1>1, SafeAlways, PTL

\* Two sessions of one id never both run a process.
THEOREM OneProcessForEachId == Spec => []OneProcessPerId
<1>1. Safe => OneProcessPerId
  BY DEF Safe, Alone
<1> QED
  BY <1>1, SafeAlways, PTL

-----------------------------------------------------------------------------
(* What a list shows.                                                      *)

\* What a list must not show is deleted, for good, and it has shown nothing
\* before it begins.
Listed ==
  \A l \in Lists : /\ listing[l].gone \subseteq deleted
                   /\ listing[l].shown \cap listing[l].gone = {}
                   /\ pc[l] = "idle" => listing[l].shown = {}

\* Only a list touches a listing, and deleted ids stay deleted.
LEMMA ListedStep ==
  ASSUME Types, Gone, Listed, Next
  PROVE  Listed'
<1> USE RegistryAssumption, ActorsAssumption
    DEF Types, Listed, Listing, Goto, agentVars, slotVars, sessionVars, requestVars
<1>1. ASSUME NEW l \in Lists, Begin(l)
      PROVE  Listed'
  <2>1. Answered(Deletes) \subseteq deleted
    BY DEF Gone, Answered
  <2> QED
    BY <1>1, <2>1 DEF Begin
<1>2. ASSUME NEW l \in Lists, Snapshot(l)
      PROVE  Listed'
  BY <1>2 DEF Snapshot, Listable, Hidden
<1>3. ASSUME NEW l \in Lists, Summaries(l) \/ AnswerList(l)
      PROVE  Listed'
  <2>1. CASE Summaries(l)
    <3>1. /\ pc' = [pc EXCEPT ![l] = pc'[l]] /\ pc'[l] # "idle"
          /\ UNCHANGED deleted
      BY <2>1 DEF Summaries
    <3>2. \A k \in Lists : /\ listing'[k].gone = listing[k].gone
                          /\ listing'[k].shown = listing[k].shown
      BY <2>1 DEF Summaries
    <3> QED
      BY <3>1, <3>2
  <2>2. CASE AnswerList(l)
    BY <2>2 DEF AnswerList
  <2> QED
    BY <1>3, <2>1, <2>2
<1>4. ASSUME NEW l \in Lists, NEW id \in Ids, ListStored(l, id)
      PROVE  Listed'
  BY <1>4 DEF ListStored, Hidden
<1>5. ASSUME NEW q \in Requests \ Lists,
             Serve(q) \/ Begin(q) \/ ContextEnds(q) \/ (q \in Shutdowns /\ CloseAgent(q))
      PROVE  /\ UNCHANGED listing /\ deleted \subseteq deleted'
             /\ \A l \in Lists : pc'[l] = pc[l]
  BY <1>5 DEF Begin, CloseAgent, Serve, Build, Restore, Delete, Reserve, Launch, Configure,
              Install, HandOver, FirstCommit, ScheduleOpen, Drop, ReleaseSlot, Acquire, Sample,
              AcquireActive, Readmit, ReplayActive, LoadStored, Hydrate, Resolve,
              SampleEphemeral, StoreDelete, MarkDeleted, CloseNext, Await, ContextEnds, StartClose,
              Detach, Detached
<1>6. ASSUME NEW i \in Insts, Hook(i) \/ Ladder(i)
      PROVE  UNCHANGED <<listing, deleted, pc>>
  BY <1>6 DEF Hook, HookGate, HookOpen, FailOpen, HookClose, HookDetach, Ladder, StopProcess, JoinGate,
              LastCommit
<1> QED
  BY <1>1, <1>2, <1>3, <1>4, <1>5, <1>6 DEF Next, Serve, List

\* A list shows no id whose delete had answered before it began, whatever late
\* commits store again.
THEOREM ListsAreTruthful == Spec => []ListTruthful
<1>1. Init => Listed
  BY DEF Init, Listed
<1>2. Safe /\ Listed /\ [Next]_vars => Listed'
  <2>1. Safe /\ Listed /\ Next => Listed'
    BY ListedStep DEF Safe, TypeInv
  <2>2. Listed /\ UNCHANGED vars => Listed'
    BY DEF Listed, vars, agentVars, requestVars
  <2> QED
    BY <2>1, <2>2
<1>3. Listed => ListTruthful
  BY DEF Listed, ListTruthful
<1> QED
  BY <1>1, <1>2, <1>3, SafeAlways, PTL DEF Spec
=============================================================================
