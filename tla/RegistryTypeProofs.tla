-------------------------- MODULE RegistryTypeProofs --------------------------
(***************************************************************************)
(* The registry keeps its types, for every number of requests, ids and     *)
(* sessions.                                                               *)
(***************************************************************************)
EXTENDS AgentRegistryProperties, FiniteSetTheorems, TLAPS

USE DEF Builders, Insts, Clients, Requests

-----------------------------------------------------------------------------
(* Types.                                                                  *)

\* The types alone, without the count of reservations.
Types ==
  /\ sessions \in [Ids -> Insts \cup {None}]
  /\ deleted \subseteq Ids /\ ephemeral \subseteq Ids /\ restores \subseteq Ids
  /\ stored \subseteq Ids
  /\ closed \in BOOLEAN
  /\ slots \subseteq Builders
  /\ proc \in [Insts -> {"none", "running", "stopped"}]
  /\ gate \in [Insts -> Requests \cup {"hook", "ladder", None}]
  /\ ladder \in [Insts -> Ladders] /\ hook \in [Insts -> Hooks]
  /\ {joins, persisted, failed} \subseteq [Insts -> BOOLEAN]
  /\ pc \in [Requests -> Pcs]
  /\ seen \in [Requests -> Insts \cup {None}]
  /\ snap \in [Shutdowns -> SUBSET Insts]
  /\ listing \in [Lists -> Listing]

\* A fresh agent has the types.
LEMMA InitTypes == Init => Types
<1> SUFFICES ASSUME Init PROVE Types
  OBVIOUS
<1>1. sessions \in [Ids -> Insts \cup {None}]
  BY DEF Init
<1>2. /\ deleted \subseteq Ids /\ ephemeral \subseteq Ids /\ restores \subseteq Ids
      /\ stored \subseteq Ids /\ closed \in BOOLEAN /\ slots \subseteq Builders
  BY RegistryAssumption DEF Init
<1>3. /\ proc \in [Insts -> {"none", "running", "stopped"}]
      /\ gate \in [Insts -> Requests \cup {"hook", "ladder", None}]
  BY DEF Init
<1>4. /\ ladder \in [Insts -> Ladders] /\ hook \in [Insts -> Hooks]
      /\ {joins, persisted, failed} \subseteq [Insts -> BOOLEAN]
  BY DEF Init, Ladders, Hooks
<1>5. /\ pc \in [Requests -> Pcs] /\ seen \in [Requests -> Insts \cup {None}]
      /\ snap \in [Shutdowns -> SUBSET Insts]
  BY DEF Init, Pcs
<1>6. listing \in [Lists -> Listing]
  BY DEF Init, Listing
<1> QED
  BY <1>1, <1>2, <1>3, <1>4, <1>5, <1>6 DEF Types

\* A restore's steps keep the types.
LEMMA RestoreTypes ==
  ASSUME Types, NEW r \in Restores, Restore(r)
  PROVE  Types'
<1> USE RegistryAssumption DEF Types, Pcs, agentVars, slotVars, sessionVars, requestVars, Goto
<1>1. CASE Acquire(r)
  BY <1>1 DEF Acquire
<1>2. CASE Sample(r)
  BY <1>2 DEF Sample
<1>3. CASE AcquireActive(r)
  BY <1>3 DEF AcquireActive
<1>4. CASE Readmit(r)
  BY <1>4 DEF Readmit, ReleaseGate
<1>5. CASE ReplayActive(r)
  BY <1>5 DEF ReplayActive, ReleaseGate
<1>6. CASE LoadStored(r)
  BY <1>6 DEF LoadStored
<1>7. CASE Hydrate(r)
  BY <1>7 DEF Hydrate, Committed
<1> QED
  BY <1>1, <1>2, <1>3, <1>4, <1>5, <1>6, <1>7 DEF Restore

\* An establishment's steps keep the types.
LEMMA BuildTypes ==
  ASSUME Types, NEW q \in Builders, Build(q)
  PROVE  Types'
<1> USE RegistryAssumption DEF Types, Pcs, agentVars, slotVars, sessionVars, requestVars, Goto
<1>1. CASE Reserve(q)
  <2>1. /\ slots' \subseteq Builders
        /\ seen' \in [Requests -> Insts \cup {None}]
        /\ pc' \in [Requests -> Pcs]
    BY <1>1 DEF Reserve
  <2> QED
    BY <1>1, <2>1 DEF Reserve
<1>2. CASE Launch(q)
  BY <1>2 DEF Launch
<1>3. CASE Configure(q)
  BY <1>3 DEF Configure
<1>4. CASE Install(q)
  BY <1>4 DEF Install, AbandonGate, ReleaseGate
<1>5. CASE HandOver(q)
  BY <1>5 DEF HandOver, ReleaseSlot
<1>6. CASE FirstCommit(q)
  <2>1. stored' \subseteq Ids
    BY <1>6 DEF FirstCommit, Committed
  <2>2. persisted' \in [Insts -> BOOLEAN] /\ pc' \in [Requests -> Pcs]
    BY <1>6 DEF FirstCommit
  <2>3. gate' \in [Insts -> Requests \cup {"hook", "ladder", None}]
    BY <1>6 DEF FirstCommit, AbandonGate, ReleaseGate
  <2> QED
    BY <1>6, <2>1, <2>2, <2>3 DEF FirstCommit
<1>7. CASE ScheduleOpen(q)
  BY <1>7 DEF ScheduleOpen, AbandonGate, ReleaseGate, Hooks
<1>8. CASE Drop(q)
  BY <1>8 DEF Drop, ReleaseSlot
<1> QED
  BY <1>1, <1>2, <1>3, <1>4, <1>5, <1>6, <1>7, <1>8 DEF Build

\* A delete's steps keep the types.
LEMMA DeleteTypes ==
  ASSUME Types, NEW d \in Deletes, Delete(d)
  PROVE  Types'
<1> USE RegistryAssumption DEF Types, Pcs, agentVars, slotVars, sessionVars, requestVars, Goto
<1>1. CASE SampleEphemeral(d)
  BY <1>1 DEF SampleEphemeral
<1>2. CASE StoreDelete(d)
  BY <1>2 DEF StoreDelete
<1>3. CASE MarkDeleted(d)
  BY <1>3 DEF MarkDeleted
<1> QED
  BY <1>1, <1>2, <1>3 DEF Delete

\* A list's steps keep the types.
LEMMA ListTypes ==
  ASSUME Types, NEW l \in Lists, List(l)
  PROVE  Types'
<1> USE RegistryAssumption DEF Types, Pcs, agentVars, slotVars, sessionVars, requestVars, Goto
<1>0. /\ listing[l].shown \subseteq Ids /\ listing[l].todo \subseteq Ids
      /\ listing[l].gone \subseteq Ids
  BY DEF Listing
<1>1. CASE Snapshot(l)
  <2>1. listing' \in [Lists -> Listing]
    BY <1>0, <1>1 DEF Snapshot, Listing
  <2> QED
    BY <1>1, <2>1 DEF Snapshot
<1>2. CASE Summaries(l)
  <2>1. listing' \in [Lists -> Listing]
    <3>1. [listing[l] EXCEPT !.todo = stored \ listing[l].shown] \in Listing
      BY <1>0 DEF Listing
    <3> QED
      BY <1>2, <3>1 DEF Summaries
  <2> QED
    BY <1>2, <2>1 DEF Summaries
<1>3. CASE AnswerList(l)
  BY <1>3 DEF AnswerList
<1>4. ASSUME NEW id \in Ids, ListStored(l, id)
      PROVE  Types'
  <2>1. listing' \in [Lists -> Listing]
    <3> DEFINE shown == IF Hidden(id) \/ id \notin stored THEN listing[l].shown
                        ELSE listing[l].shown \cup {id}
               row   == [listing[l] EXCEPT !.todo = listing[l].todo \ {id}, !.shown = shown]
    <3>1. shown \subseteq Ids
      BY <1>0
    <3>2. row \in Listing
      <4> HIDE DEF shown
      <4> QED
        BY <1>0, <3>1 DEF Listing
    <3>3. \/ listing' = [listing EXCEPT ![l] = row]
          \/ UNCHANGED listing
      BY <1>4 DEF ListStored
    <3> HIDE DEF row
    <3> QED
      BY <3>2, <3>3
  <2> QED
    BY <1>4, <2>1 DEF ListStored
<1> QED
  BY <1>1, <1>2, <1>3, <1>4 DEF List

\* The steps that requests share keep the types.
LEMMA RequestTypes ==
  ASSUME Types, NEW q \in Requests,
         \/ q \in Clients /\ Begin(q)
         \/ q \in Shutdowns /\ (CloseAgent(q) \/ CloseNext(q))
         \/ q \in Closes /\ Resolve(q)
         \/ q \in Restores \cup Closes \cup Deletes /\ (Await(q) \/ ContextEnds(q))
         \/ StartClose(q)
         \/ Detach(q)
  PROVE  Types'
<1> USE RegistryAssumption DEF Types, Pcs, agentVars, slotVars, sessionVars, requestVars, Goto
<1>1. CASE q \in Clients /\ Begin(q)
  <2>1. pc' \in [Requests -> Pcs]
    BY <1>1 DEF Begin, Entry
  <2>2. listing' \in [Lists -> Listing]
    <3>1. Answered(Deletes) \subseteq Ids
      BY DEF Answered
    <3>2. ASSUME q \in Lists PROVE [listing[q] EXCEPT !.gone = Answered(Deletes)] \in Listing
      BY <3>1, <3>2 DEF Listing
    <3> QED
      BY <1>1, <3>2 DEF Begin
  <2> QED
    BY <1>1, <2>1, <2>2 DEF Begin
<1>2. CASE q \in Shutdowns /\ CloseAgent(q)
  BY <1>2 DEF CloseAgent, Active
<1>3. CASE q \in Shutdowns /\ CloseNext(q)
  BY <1>3 DEF CloseNext
<1>4. CASE q \in Closes /\ Resolve(q)
  BY <1>4 DEF Resolve
<1>5. CASE q \in Restores \cup Closes \cup Deletes /\ (Await(q) \/ ContextEnds(q))
  BY <1>5 DEF Await, ContextEnds
<1>6. CASE StartClose(q)
  <2>1. ladder' \in [Insts -> Ladders] /\ joins' \in [Insts -> BOOLEAN]
    BY <1>6 DEF StartClose, CloseSection, Ladders
  <2> QED
    BY <1>6, <2>1 DEF StartClose
<1>7. CASE Detach(q)
  BY <1>7 DEF Detach, Detached, AfterClose
<1> QED
  BY <1>1, <1>2, <1>3, <1>4, <1>5, <1>6, <1>7

\* The opening and the ladder of a session keep the types.
LEMMA SessionTypes ==
  ASSUME Types, NEW i \in Insts, Hook(i) \/ Ladder(i)
  PROVE  Types'
<1> USE RegistryAssumption DEF Types, agentVars, slotVars, sessionVars, requestVars,
                               Ladders, Hooks, ReleaseGate
<1>1. CASE HookGate(i)
  BY <1>1 DEF HookGate
<1>2. CASE HookOpen(i)
  BY <1>2 DEF HookOpen, FailOpen
<1>3. CASE HookClose(i)
  <2>1. ladder' \in [Insts -> Ladders] /\ joins' \in [Insts -> BOOLEAN]
    BY <1>3 DEF HookClose, CloseSection, Ladders
  <2> QED
    BY <1>3, <2>1 DEF HookClose
<1>4. CASE HookDetach(i)
  BY <1>4 DEF HookDetach, Detached
<1>5. CASE StopProcess(i)
  BY <1>5 DEF StopProcess
<1>6. CASE JoinGate(i)
  BY <1>6 DEF JoinGate
<1>7. CASE LastCommit(i)
  <2>1. stored' \subseteq Ids
    BY <1>7 DEF LastCommit, Committed
  <2>2. failed' \in [Insts -> BOOLEAN]
    BY <1>7 DEF LastCommit
  <2> QED
    BY <1>7, <2>1, <2>2 DEF LastCommit
<1> QED
  BY <1>1, <1>2, <1>3, <1>4, <1>5, <1>6, <1>7 DEF Hook, Ladder

\* Any step of the registry.
LEMMA NextTypes ==
  ASSUME Types, Next
  PROVE  Types'
<1>1. ASSUME NEW q \in Requests, Serve(q)
      PROVE  Types'
  BY <1>1, BuildTypes, RestoreTypes, DeleteTypes, ListTypes, RequestTypes DEF Serve
<1> QED
  BY <1>1, RequestTypes, SessionTypes DEF Next

\* A list changes nothing but its own goroutine.
LEMMA ListQuiet ==
  ASSUME Types, NEW l \in Lists, List(l)
  PROVE  /\ UNCHANGED <<agentVars, slotVars, restores, sessionVars, seen, snap, stored>>
         /\ \A q \in Requests \ {l} : pc'[q] = pc[q]
         /\ pc'[l] \in {"summaries", "records", "ok", "refused"}
<1> USE DEF Types, Goto, agentVars, slotVars, sessionVars, requestVars
<1>1. CASE Snapshot(l)
  BY <1>1 DEF Snapshot
<1>2. CASE Summaries(l)
  BY <1>2 DEF Summaries
<1>3. CASE AnswerList(l)
  BY <1>3 DEF AnswerList
<1>4. ASSUME NEW id \in Ids, ListStored(l, id)
      PROVE  UNCHANGED <<agentVars, slotVars, restores, sessionVars, seen, snap, stored>>
             /\ (\A q \in Requests \ {l} : pc'[q] = pc[q])
             /\ pc'[l] \in {"summaries", "records", "ok", "refused"}
  BY <1>4 DEF ListStored
<1> QED
  BY <1>1, <1>2, <1>3, <1>4 DEF List

-----------------------------------------------------------------------------
(* The reservations: who holds one, and that starting counts them.         *)

Before   == {"idle", "await", "acquire", "sample", "gate", "reuse", "replay", "load",
             "reserve"}
Building == {"hydrate", "launch", "configure", "install"}
Closing  == {"shut", "closing"}

\* A reservation belongs to a request that is establishing its session, or
\* that has given up and not released it yet; one that has none is past it.
Holding ==
  /\ \A q \in slots : \/ pc[q] \in Building \cup {"handover", "drop"}
                      \/ pc[q] \in Closing /\ seen[q] = q
  /\ \A q \in Builders : pc[q] \in Building \cup {"handover"} => q \in slots

\* The session a builder closes is its own, unless it is a restore that
\* replaces a live one.
Own ==
  \A q \in Builders :
    /\ pc[q] \in Building \cup {"handover", "commit", "open"} => seen[q] = q
    /\ q \in News /\ pc[q] \in Closing => seen[q] = q

\* A builder has its own session in hand from its reservation to its answer.
LEMMA OwnStep ==
  ASSUME Types, Own, Next
  PROVE  Own'
<1> USE RegistryAssumption, ActorsAssumption DEF
        Types, Own, Before, Building, Closing, Goto, agentVars, slotVars, sessionVars,
        requestVars
<1>1. ASSUME NEW r \in Restores, Restore(r)
      PROVE  Own'
  BY <1>1 DEF Restore, Acquire, Sample, AcquireActive, Readmit, ReplayActive,
              LoadStored, Hydrate
<1>2. ASSUME NEW q \in Builders, Build(q)
      PROVE  Own'
  BY <1>2 DEF Build, Reserve, Launch, Configure, Install, InstallRefused, HandOver,
              FirstCommit, ScheduleOpen, Drop, ReleaseSlot
<1>3. ASSUME NEW d \in Deletes, Delete(d)
      PROVE  Own'
  BY <1>3 DEF Delete, SampleEphemeral, StoreDelete, MarkDeleted
<1>4. ASSUME NEW l \in Lists, List(l)
      PROVE  Own'
  BY ListQuiet, <1>4
<1>5. ASSUME NEW q \in Requests \ Lists, StartClose(q)
      PROVE  Own'
  BY <1>5 DEF StartClose, CloseSection
<1>6. ASSUME NEW q \in Requests \ Lists, Detach(q)
      PROVE  Own'
  BY <1>6 DEF Detach, AfterClose, Detached, CloseReturned
<1>7. ASSUME NEW q \in Clients, Begin(q)
      PROVE  Own'
  BY <1>7 DEF Begin, Entry
<1>8. ASSUME NEW q \in Closes, Resolve(q)
      PROVE  Own'
  BY <1>8 DEF Resolve
<1>9. ASSUME NEW q \in Restores \cup Closes \cup Deletes, Await(q) \/ ContextEnds(q)
      PROVE  Own'
  BY <1>9 DEF Await, ContextEnds
<1>10. ASSUME NEW g \in Shutdowns, CloseAgent(g) \/ CloseNext(g)
      PROVE  Own'
  BY <1>10 DEF CloseAgent, CloseNext
<1>11. ASSUME NEW i \in Insts, Hook(i)
      PROVE  Own'
  BY <1>11 DEF Hook, HookGate, HookOpen, FailOpen, HookClose, HookDetach, Detached,
              CloseSection, CloseReturned
<1>12. ASSUME NEW i \in Insts, Ladder(i)
      PROVE  Own'
  BY <1>12 DEF Ladder, StopProcess, JoinGate, LastCommit
<1> QED
  BY <1>1, <1>2, <1>3, <1>4, <1>5, <1>6, <1>7, <1>8, <1>9, <1>10, <1>11, <1>12
     DEF Next, Serve

\* A reservation is taken and released by its own establishment.
LEMMA HoldingStep ==
  ASSUME Types, Own, Holding, Next
  PROVE  Holding'
<1> USE RegistryAssumption, ActorsAssumption DEF
        Types, Holding, Own, Building, Closing, Goto, agentVars, slotVars, sessionVars,
        requestVars
<1>1. ASSUME NEW r \in Restores, Restore(r)
      PROVE  Holding'
  BY <1>1 DEF Restore, Acquire, Sample, AcquireActive, Readmit, ReplayActive,
              LoadStored, Hydrate
<1>2. ASSUME NEW q \in Builders, Build(q)
      PROVE  Holding'
  BY <1>2 DEF Build, Reserve, Launch, Configure, Install, InstallRefused, HandOver,
              FirstCommit, ScheduleOpen, Drop, ReleaseSlot
<1>3. ASSUME NEW d \in Deletes, Delete(d)
      PROVE  Holding'
  BY <1>3 DEF Delete, SampleEphemeral, StoreDelete, MarkDeleted
<1>4. ASSUME NEW l \in Lists, List(l)
      PROVE  Holding'
  BY ListQuiet, <1>4
<1>5. ASSUME NEW q \in Requests \ Lists, StartClose(q)
      PROVE  Holding'
  BY <1>5 DEF StartClose, CloseSection
<1>6. ASSUME NEW q \in Requests \ Lists, Detach(q)
      PROVE  Holding'
  BY <1>6 DEF Detach, AfterClose, Detached, CloseReturned
<1>7. ASSUME NEW q \in Clients, Begin(q)
      PROVE  Holding'
  BY <1>7 DEF Begin, Entry
<1>8. ASSUME NEW q \in Closes, Resolve(q)
      PROVE  Holding'
  BY <1>8 DEF Resolve
<1>9. ASSUME NEW q \in Restores \cup Closes \cup Deletes, Await(q) \/ ContextEnds(q)
      PROVE  Holding'
  BY <1>9 DEF Await, ContextEnds
<1>10. ASSUME NEW g \in Shutdowns, CloseAgent(g) \/ CloseNext(g)
      PROVE  Holding'
  BY <1>10 DEF CloseAgent, CloseNext
<1>11. ASSUME NEW i \in Insts, Hook(i)
      PROVE  Holding'
  BY <1>11 DEF Hook, HookGate, HookOpen, FailOpen, HookClose, HookDetach, Detached,
              CloseSection, CloseReturned
<1>12. ASSUME NEW i \in Insts, Ladder(i)
      PROVE  Holding'
  BY <1>12 DEF Ladder, StopProcess, JoinGate, LastCommit
<1> QED
  BY <1>1, <1>2, <1>3, <1>4, <1>5, <1>6, <1>7, <1>8, <1>9, <1>10, <1>11, <1>12
     DEF Next, Serve

\* The count of reservations.
Counted == starting \in Nat /\ starting = Cardinality(slots)

\* The reservations are finitely many.
LEMMA FiniteSlots == Types => IsFiniteSet(slots)
BY RegistryAssumption, FS_Subset DEF Types

\* A release takes one off the count if it is the first, else nothing.
LEMMA ReleaseCounts ==
  ASSUME Types, Counted, NEW q, ReleaseSlot(q)
  PROVE  Counted'
<1>1. IsFiniteSet(slots)
  BY FiniteSlots
<1>2. slots' = slots \ {q} /\ starting' = IF q \in slots THEN starting - 1 ELSE starting
  BY DEF ReleaseSlot
<1>3. /\ IsFiniteSet(slots')
      /\ Cardinality(slots') = IF q \in slots THEN Cardinality(slots) - 1 ELSE Cardinality(slots)
  BY <1>1, <1>2, FS_RemoveElement
<1>4. Cardinality(slots') \in Nat
  BY <1>3, FS_CardinalityType
<1> QED
  BY <1>2, <1>3, <1>4 DEF Counted

\* A reservation adds one to the count.
LEMMA ReserveCounts ==
  ASSUME Types, Holding, Counted, NEW q \in Builders, Reserve(q)
  PROVE  Counted'
<1>1. IsFiniteSet(slots)
  BY FiniteSlots
<1>2. CASE UNCHANGED slotVars
  BY <1>2 DEF slotVars, Counted
<1>3. CASE slots' = slots \cup {q} /\ starting' = starting + 1
  <2>1. q \notin slots
    BY DEF Reserve, Holding, Building, Closing
  <2>2. Cardinality(slots') = Cardinality(slots) + 1
    BY <1>1, <1>3, <2>1, FS_AddElement
  <2> QED
    BY <1>3, <2>2 DEF Counted
<1> QED
  BY <1>2, <1>3 DEF Reserve

\* Every step keeps the count at the reservations.
LEMMA CountedStep ==
  ASSUME Types, Holding, Counted, Next
  PROVE  Counted'
<1> USE DEF
        Types, Counted, Goto, agentVars, slotVars, sessionVars, requestVars
<1>1. ASSUME NEW r \in Restores, Restore(r)
      PROVE  Counted'
  BY <1>1 DEF Restore, Acquire, Sample, AcquireActive, Readmit, ReplayActive,
              LoadStored, Hydrate
<1>2. ASSUME NEW q \in Builders, Build(q)
      PROVE  Counted'
  <2>1. CASE Reserve(q)
    BY <2>1, ReserveCounts
  <2>2. CASE HandOver(q) \/ Drop(q)
    BY <2>2, ReleaseCounts DEF HandOver, Drop
  <2>3. CASE ~(Reserve(q) \/ HandOver(q) \/ Drop(q))
    <3>1. UNCHANGED slotVars
      BY <1>2, <2>3 DEF Build, Launch, Configure, Install, FirstCommit, ScheduleOpen
    <3> QED
      BY <3>1
  <2> QED
    BY <2>1, <2>2, <2>3
<1>3. ASSUME NEW d \in Deletes, Delete(d)
      PROVE  Counted'
  BY <1>3 DEF Delete, SampleEphemeral, StoreDelete, MarkDeleted
<1>4. ASSUME NEW l \in Lists, List(l)
      PROVE  Counted'
  BY ListQuiet, <1>4
<1>5. ASSUME NEW q \in Requests \ Lists, StartClose(q)
      PROVE  Counted'
  BY <1>5 DEF StartClose, CloseSection
<1>6. ASSUME NEW q \in Requests \ Lists, Detach(q)
      PROVE  Counted'
  BY <1>6 DEF Detach, AfterClose, Detached, CloseReturned
<1>7. ASSUME NEW q \in Clients, Begin(q)
      PROVE  Counted'
  BY <1>7 DEF Begin, Entry
<1>8. ASSUME NEW q \in Closes, Resolve(q)
      PROVE  Counted'
  BY <1>8 DEF Resolve
<1>9. ASSUME NEW q \in Restores \cup Closes \cup Deletes, Await(q) \/ ContextEnds(q)
      PROVE  Counted'
  BY <1>9 DEF Await, ContextEnds
<1>10. ASSUME NEW g \in Shutdowns, CloseAgent(g) \/ CloseNext(g)
      PROVE  Counted'
  BY <1>10 DEF CloseAgent, CloseNext
<1>11. ASSUME NEW i \in Insts, Hook(i)
      PROVE  Counted'
  BY <1>11 DEF Hook, HookGate, HookOpen, FailOpen, HookClose, HookDetach, Detached,
              CloseSection, CloseReturned
<1>12. ASSUME NEW i \in Insts, Ladder(i)
      PROVE  Counted'
  BY <1>12 DEF Ladder, StopProcess, JoinGate, LastCommit
<1> QED
  BY <1>1, <1>2, <1>3, <1>4, <1>5, <1>6, <1>7, <1>8, <1>9, <1>10, <1>11, <1>12
     DEF Next, Serve

\* What the types rest on.
TypeInv == Types /\ Own /\ Holding /\ Counted

\* A fresh agent satisfies the invariant of the types.
LEMMA TypeInvInit == Init => TypeInv
<1> SUFFICES ASSUME Init PROVE TypeInv
  OBVIOUS
<1>1. Types
  BY InitTypes
<1>2. Own /\ Holding
  BY DEF Init, Own, Holding, Building, Closing
<1>3. Counted
  BY FS_EmptySet DEF Init, Counted
<1> QED
  BY <1>1, <1>2, <1>3 DEF TypeInv

\* Every step keeps it.
LEMMA TypeInvStep == TypeInv /\ [Next]_vars => TypeInv'
<1> SUFFICES ASSUME TypeInv, [Next]_vars PROVE TypeInv'
  OBVIOUS
<1>1. CASE Next
  BY <1>1, NextTypes, OwnStep, HoldingStep, CountedStep DEF TypeInv
<1>2. CASE UNCHANGED vars
  BY <1>2 DEF TypeInv, Types, Own, Holding, Counted, vars, agentVars, slotVars,
              sessionVars, requestVars
<1> QED
  BY <1>1, <1>2

\* The registry keeps its types, and its count of reservations in flight is the
\* number of them whose release is still owed (reserveSlot's once-only release).
THEOREM RegistryTypesCorrect == Spec => []TypeOK
<1>1. TypeInv => TypeOK
  BY DEF TypeInv, Types, Counted, TypeOK
<1> QED
  BY <1>1, TypeInvInit, TypeInvStep, PTL DEF Spec
=============================================================================
