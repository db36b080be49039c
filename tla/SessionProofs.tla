----------------------------- MODULE SessionProofs -----------------------------
(***************************************************************************)
(* Safety of one session for every number of prompts, reads, generations   *)
(* and events, and every bound: the gate is exclusive, one foreground and  *)
(* one process run at a time, and no interrupt outlives the verdict of the *)
(* foreground it is for.                                                   *)
(***************************************************************************)
EXTENDS SessionTypeProofs

-----------------------------------------------------------------------------
(* The gate.                                                               *)

\* Where a request is while it holds nothing.
Outside == {"idle", "answered", "abandoned"}

\* A request that moves inside its hold keeps the gate exclusive.
LEMMA HoldKept ==
  ASSUME RequestTypes, GateExclusive, NEW o \in Ops, pc[o] \notin Outside,
         gate' = gate, \A q \in Ops \ {o} : pc'[q] = pc[q]
  PROVE  GateExclusive'
BY DEF GateExclusive, Holding, Outside, RequestTypes

\* Whoever holds the gate may give it back when it leaves.
LEMMA HoldEnds ==
  ASSUME RequestTypes, GateExclusive, NEW o \in Ops, pc[o] \notin Outside,
         pc'[o] \in Outside, \A q \in Ops \ {o} : pc'[q] = pc[q]
  PROVE  GateExclusive'
BY DEF GateExclusive, Holding, Outside, RequestTypes

\* A step that moves no request, and takes the gate from nobody in Ops, keeps it
\* exclusive.
LEMMA HoldUntouched ==
  ASSUME RequestTypes, GateExclusive, UNCHANGED pc,
         gate' = gate \/ gate \in {None, Closer}
  PROVE  GateExclusive'
BY NamesAssumption DEF GateExclusive, Holding, RequestTypes

\* What the steps of a request's goroutine do to the gate and to the other
\* requests: only ReleaseGate gives the gate back.
LEMMA RequestFootprint ==
  ASSUME RequestTypes, NEW o \in Ops, RequestStep(o)
  PROVE  /\ pc[o] \notin Outside
         /\ \A q \in Ops \ {o} : pc'[q] = pc[q]
         /\ gate' = gate \/ pc'[o] \in Outside
<1> USE DEF RequestTypes, Outside, Leave, Fail, At
<1>1. CASE CheckBusy(o)
  BY <1>1 DEF CheckBusy
<1>2. CASE EnsureRuntime(o)
  BY <1>2 DEF EnsureRuntime
<1>3. CASE JoinEnding(o)
  BY <1>3 DEF JoinEnding
<1>4. CASE Launch(o)
  BY <1>4 DEF Launch
<1>5. CASE Bind(o)
  BY <1>5 DEF Bind
<1>6. CASE OpenStream(o)
  BY <1>6 DEF OpenStream
<1>7. CASE StopSignal(o)
  BY <1>7 DEF StopSignal
<1>8. CASE StopJoin(o)
  BY <1>8 DEF StopJoin
<1>9. CASE UseRuntime(o)
  BY <1>9 DEF UseRuntime
<1>10. CASE ReleaseGate(o)
  BY <1>10 DEF ReleaseGate
<1> QED
  BY <1>1, <1>2, <1>3, <1>4, <1>5, <1>6, <1>7, <1>8, <1>9, <1>10
     DEF RequestStep

\* The steps of a turn leave the gate alone, and every one but the expired abort
\* moves its own prompt only.
LEMMA TurnFootprint ==
  ASSUME RequestTypes, NEW p \in Prompts, TurnStep(p)
  PROVE  /\ pc[p] \notin Outside
         /\ \A q \in Ops \ {p} : pc'[q] = pc[q]
         /\ gate' = gate
<1> USE DEF RequestTypes, Outside, Leave, At, Ops, opVars
<1>1. CASE InstallTurn(p)
  BY <1>1 DEF InstallTurn
<1>2. CASE Dispatch(p)
  BY <1>2 DEF Dispatch
<1>3. CASE AcceptTurn(p)
  BY <1>3 DEF AcceptTurn
<1>4. CASE AbortExpires(p)
  BY <1>4 DEF AbortExpires
<1>5. CASE BeginSettlement(p)
  BY <1>5 DEF BeginSettlement
<1>6. CASE CommitTurn(p)
  BY <1>6 DEF CommitTurn
<1>7. CASE SignalTurnRuntime(p)
  BY <1>7 DEF SignalTurnRuntime
<1>8. CASE DropTurnRuntime(p)
  BY <1>8 DEF DropTurnRuntime
<1>9. CASE FenceLostTransport(p)
  BY <1>9 DEF FenceLostTransport
<1>10. CASE ClaimTurn(p)
  BY <1>10 DEF ClaimTurn
<1>11. CASE PublishTurnIdle(p)
  BY <1>11 DEF PublishTurnIdle
<1>12. CASE Unwind(p)
  BY <1>12 DEF Unwind
<1> QED
  BY <1>1, <1>2, <1>3, <1>4, <1>5, <1>6, <1>7, <1>8, <1>9, <1>10, <1>11, <1>12
     DEF TurnStep

\* A pump, its process and a native interrupt know nothing of the gate.
LEMMA PumpFootprint ==
  ASSUME NEW g \in Gens, PumpStep(g) \/ ReadFails(g) \/ Emit(g) \/ Exit(g)
  PROVE  UNCHANGED <<gate, pc, bound, answer, turn, closing>>
BY DEF PumpStep, ReadFails, Emit, Exit, PumpTake, OpenCycle, LoseCycle, Apply,
       FinishDelivery, CommitCycle, SignalCycleRuntime, DropCycleRuntime,
       ClaimCycle, PublishCycleIdle, ClearCycle, DrainRuntime, EndForeground,
       RetireRuntime, Release, RuntimeEnded, opVars, sessionVars

\* The gate is exclusive in every reachable state.
LEMMA GateStep ==
  ASSUME TypeOK, GateExclusive, [Next]_vars
  PROVE  GateExclusive'
<1> USE DEF TypeOK
<1>1. CASE UNCHANGED vars
  <2>1. UNCHANGED <<gate, pc>>
    BY <1>1 DEF vars, opVars
  <2> QED BY <2>1, HoldUntouched
<1>2. CASE EstablishCommit
  <2>1. /\ Establish \in Ops /\ pc[Establish] \notin Outside
        /\ \A q \in Ops \ {Establish} : pc'[q] = pc[q]
        /\ gate' = gate \/ pc'[Establish] \in Outside
    BY <1>2 DEF EstablishCommit, RequestTypes, Outside, Ops
  <2> QED BY <2>1, HoldKept, HoldEnds
<1>3. CASE EstablishOpen
  <2>1. /\ Establish \in Ops /\ pc[Establish] \notin Outside
        /\ \A q \in Ops \ {Establish} : pc'[q] = pc[q]
        /\ pc'[Establish] \in Outside
    BY <1>3 DEF EstablishOpen, RequestTypes, Outside, Ops
  <2> QED BY <2>1, HoldEnds
<1>4. ASSUME NEW o \in Prompts \cup Reads, AcquireGate(o)
      PROVE  GateExclusive'
  <2>1. CASE Admissible
    BY <1>4, <2>1, NamesAssumption
       DEF AcquireGate, Admissible, GateExclusive, Holding, RequestTypes, Ops
  <2>2. CASE ~Admissible
    BY <1>4, <2>2
       DEF AcquireGate, GateExclusive, Holding, RequestTypes, Ops
  <2> QED BY <2>1, <2>2
<1>5. ASSUME NEW o \in Prompts \cup Reads, RequestStep(o)
      PROVE  GateExclusive'
  <2>1. o \in Ops
    BY DEF Ops
  <2> QED BY <1>5, <2>1, RequestFootprint, HoldKept, HoldEnds
<1>6. ASSUME NEW p \in Prompts, TurnStep(p) PROVE GateExclusive'
  <2>1. p \in Ops
    BY DEF Ops
  <2> QED BY <1>6, <2>1, TurnFootprint, HoldKept
<1>7. CASE Cancel
  <2>1. UNCHANGED <<gate, pc>>
    BY <1>7 DEF Cancel, opVars
  <2> QED BY <2>1, HoldUntouched
<1>8. ASSUME NEW i \in callbacks, Abort(i) PROVE GateExclusive'
  <2>1. UNCHANGED <<gate, pc>>
    BY <1>8 DEF Abort, opVars
  <2> QED BY <2>1, HoldUntouched
<1>9. ASSUME NEW g \in Gens, PumpStep(g) \/ ReadFails(g) \/ Emit(g) \/ Exit(g)
      PROVE  GateExclusive'
  BY <1>9, PumpFootprint, HoldUntouched
<1>10. CASE BeginClose \/ CloseStep
  <2>1. UNCHANGED pc /\ (gate' = gate \/ gate \in {None, Closer})
    BY <1>10 DEF BeginClose, CloseStep, CloseAbort, CloseStop, CloseJoinPump,
                 CloseCommit, CloseFence, opVars
  <2> QED BY <2>1, HoldUntouched
<1> QED
  BY <1>1, <1>2, <1>3, <1>4, <1>5, <1>6, <1>7, <1>8, <1>9, <1>10 DEF Next

\* At most one request is past admission, and it holds the gate: acquireGate and
\* every deferred release of it agree, the close's own join of the gate included.
THEOREM GateIsExclusive == Spec => []GateExclusive
<1>1. Init => GateExclusive
  BY DEF Init, GateExclusive, Holding
<1> QED BY <1>1, TypeCorrect, GateStep, PTL DEF Spec

-----------------------------------------------------------------------------
(* The foreground.                                                         *)

\* Only InstallTurn and OpenCycle install a foreground, and each looks at the
\* other's under the lock it installs its own under.
LEMMA ForegroundStep ==
  ASSUME TypeOK, OneForeground, [Next]_vars
  PROVE  OneForeground'
<1> USE DEF OneForeground, sessionVars
<1>1. CASE UNCHANGED vars
  BY <1>1 DEF vars
<1>2. CASE EstablishCommit \/ EstablishOpen
  BY <1>2 DEF EstablishCommit, EstablishOpen
<1>3. ASSUME NEW o \in Prompts \cup Reads, AcquireGate(o) \/ RequestStep(o)
      PROVE  OneForeground'
  BY <1>3 DEF AcquireGate, RequestStep, CheckBusy, EnsureRuntime, JoinEnding,
              Launch, Bind, OpenStream, StopSignal, StopJoin, UseRuntime,
              ReleaseGate
<1>4. ASSUME NEW p \in Prompts, TurnStep(p) PROVE OneForeground'
  <2>1. CASE InstallTurn(p)
    BY <2>1 DEF InstallTurn, Busy
  <2>2. CASE Unwind(p)
    BY <2>2 DEF Unwind
  <2> QED
    BY <1>4, <2>1, <2>2
       DEF TurnStep, Dispatch, AcceptTurn, AbortExpires, BeginSettlement,
           CommitTurn, SignalTurnRuntime, DropTurnRuntime, FenceLostTransport,
           ClaimTurn, PublishTurnIdle
<1>5. CASE Cancel \/ \E i \in callbacks : Abort(i)
  BY <1>5 DEF Cancel, Abort
<1>6. ASSUME NEW g \in Gens, PumpStep(g) \/ ReadFails(g) \/ Emit(g) \/ Exit(g)
      PROVE  OneForeground'
  <2>1. CASE OpenCycle(g)
    BY <2>1 DEF OpenCycle, MayOpenCycle
  <2>2. CASE ClearCycle(g)
    BY <2>2 DEF ClearCycle
  <2>3. CASE DrainRuntime(g) \/ ReadFails(g)
    BY <2>3 DEF DrainRuntime, ReadFails, RuntimeEnded, CycleAfterEnd
  <2> QED
    BY <1>6, <2>1, <2>2, <2>3
       DEF PumpStep, Emit, Exit, PumpTake, LoseCycle, Apply, FinishDelivery,
           CommitCycle, SignalCycleRuntime, DropCycleRuntime, ClaimCycle,
           PublishCycleIdle, EndForeground, RetireRuntime, Release
<1>7. CASE BeginClose \/ CloseStep
  BY <1>7 DEF BeginClose, CloseStep, CloseAbort, CloseStop, CloseJoinPump,
              CloseCommit, CloseFence
<1> QED
  BY <1>1, <1>2, <1>3, <1>4, <1>5, <1>6, <1>7 DEF Next

\* A prompt's turn and an agent-origin cycle are never both installed: prompt and
\* openAgentCycle each check and install in one critical section.
THEOREM ForegroundIsOne == Spec => []OneForeground
<1>1. Init => OneForeground
  BY DEF Init, OneForeground
<1> QED BY <1>1, TypeCorrect, ForegroundStep, PTL DEF Spec

-----------------------------------------------------------------------------
(* The interrupt of a cancellation.                                        *)

\* A prompt, and a pump, between the join of its interrupts and its idle.
Judged     == {"signalling", "dropping", "claiming", "claimFailed", "publishing"}
PumpJudged == {"signalling", "dropping", "claiming", "publishing"}

\* Nothing may interrupt f any more: its settlement began, and what was started
\* before is over.
NoInterrupt(f) == settling[f] /\ \A i \in callbacks : i.fg # f

\* The inductive form of InterruptJoined.
InterruptsJoined ==
  /\ \A p \in Prompts : pc[p] = "settling" => settling[p]
  /\ \A p \in Prompts : pc[p] \in Judged => NoInterrupt(p)
  /\ \A g \in Gens : pump[g] = "settling" => settling[held[g]]
  /\ \A g \in Gens : pump[g] \in PumpJudged => NoInterrupt(held[g])
  /\ \A f \in Foregrounds : terminal[f] => NoInterrupt(f)

\* A step that only interrupts what is not settling, and only judges what has
\* been joined, keeps it.
LEMMA JoinedKept ==
  ASSUME InterruptsJoined,
         \A f \in Foregrounds : settling[f] => settling'[f],
         \A i \in callbacks' : i \in callbacks \/ ~settling[i.fg],
         \A p \in Prompts : pc'[p] = "settling" =>
           pc[p] = "settling" \/ settling'[p],
         \A p \in Prompts : pc'[p] \in Judged =>
           pc[p] \in Judged \/ (pc[p] = "settling" /\ CallbacksJoined),
         \A g \in Gens : pump'[g] = "settling" =>
           \/ pump[g] = "settling" /\ held'[g] = held[g]
           \/ settling'[held'[g]],
         \A g \in Gens : pump'[g] \in PumpJudged =>
           /\ held'[g] = held[g]
           /\ pump[g] \in PumpJudged \/ (pump[g] = "settling" /\ CallbacksJoined),
         \A f \in Foregrounds : terminal'[f] =>
           \/ terminal[f]
           \/ \E p \in Prompts : f = p /\ pc[p] \in Judged
           \/ \E g \in Gens : f = held[g] /\ pump[g] \in PumpJudged,
         PumpHolds
  PROVE  InterruptsJoined'
<1>1. \A f \in Foregrounds : NoInterrupt(f) => NoInterrupt(f)'
  BY DEF NoInterrupt
<1>2. \A f \in Foregrounds : settling[f] /\ CallbacksJoined => NoInterrupt(f)
  BY DEF NoInterrupt, CallbacksJoined
<1>3. \A g \in Gens :
        pump[g] \in PumpJudged \cup {"settling"} => held[g] \in Foregrounds
  BY DEF PumpHolds, Holders, PumpJudged
<1>4. Prompts \subseteq Foregrounds
  BY DEF Foregrounds
<1>5. (\A p \in Prompts : pc[p] = "settling" => settling[p])'
  BY <1>4 DEF InterruptsJoined
<1>6. (\A p \in Prompts : pc[p] \in Judged => NoInterrupt(p))'
  BY <1>1, <1>2, <1>4 DEF InterruptsJoined
<1>7. (\A g \in Gens : pump[g] = "settling" => settling[held[g]])'
  BY <1>3 DEF InterruptsJoined
<1>8. (\A g \in Gens : pump[g] \in PumpJudged => NoInterrupt(held[g]))'
  BY <1>1, <1>2, <1>3 DEF InterruptsJoined
<1>9. (\A f \in Foregrounds : terminal[f] => NoInterrupt(f))'
  BY <1>1 DEF InterruptsJoined
<1> QED BY <1>5, <1>6, <1>7, <1>8, <1>9 DEF InterruptsJoined

\* The steps of a request before and after its turn judge nothing.
LEMMA RequestJoined ==
  ASSUME TypeOK, PumpHolds, InterruptsJoined, NEW o \in Ops,
         AcquireGate(o) \/ RequestStep(o)
  PROVE  InterruptsJoined'
<1> USE DEF TypeOK, RequestTypes, RuntimeTypes, Leave, Fail, At, Judged, Served
<1>1. UNCHANGED <<settling, callbacks, terminal, held>>
  BY DEF AcquireGate, RequestStep, CheckBusy, EnsureRuntime, JoinEnding, Launch,
         Bind, OpenStream, StopSignal, StopJoin, UseRuntime, ReleaseGate,
         fgVars, pumpVars
<1>2. \A p \in Prompts : pc'[p] = pc[p] \/ pc'[p] \notin Judged \cup {"settling"}
  BY DEF AcquireGate, RequestStep, CheckBusy, EnsureRuntime, JoinEnding, Launch,
         Bind, OpenStream, StopSignal, StopJoin, UseRuntime, ReleaseGate, Ops
<1>3. \A g \in Gens : pump'[g] = pump[g] \/ pump'[g] = "ready"
  BY DEF AcquireGate, RequestStep, CheckBusy, EnsureRuntime, JoinEnding, Launch,
         Bind, OpenStream, StopSignal, StopJoin, UseRuntime, ReleaseGate,
         pumpVars
<1> QED BY <1>1, <1>2, <1>3, JoinedKept DEF PumpJudged

\* A turn joins the interrupts before it commits, and only then has a verdict.
LEMMA TurnJoins ==
  ASSUME TypeOK, PumpHolds, InterruptsJoined, NEW p \in Prompts, TurnStep(p)
  PROVE  InterruptsJoined'
<1> USE DEF TypeOK, RequestTypes, ForegroundTypes, Leave, At, Judged, Ops,
            Foregrounds, opVars, fgVars, pumpVars
<1>1. UNCHANGED <<callbacks, held, pump>>
  BY DEF TurnStep, InstallTurn, Dispatch, AcceptTurn, AbortExpires,
         BeginSettlement, CommitTurn, SignalTurnRuntime, DropTurnRuntime,
         FenceLostTransport, ClaimTurn, PublishTurnIdle, Unwind
<1>2. \A q \in Prompts \ {p} : pc'[q] = pc[q]
  BY TurnFootprint
<1>3. /\ \A f \in Foregrounds : settling[f] => settling'[f]
      /\ pc'[p] = "settling" => pc[p] = "settling" \/ settling'[p]
      /\ pc'[p] \in Judged =>
           pc[p] \in Judged \/ (pc[p] = "settling" /\ CallbacksJoined)
      /\ \A f \in Foregrounds : terminal'[f] =>
           terminal[f] \/ (f = p /\ pc[p] \in Judged)
  <2>1. CASE InstallTurn(p) \/ Dispatch(p) \/ AcceptTurn(p) \/ AbortExpires(p)
    BY <2>1 DEF InstallTurn, Dispatch, AcceptTurn, AbortExpires
  <2>2. CASE BeginSettlement(p)
    BY <2>2 DEF BeginSettlement
  <2>3. CASE CommitTurn(p) \/ FenceLostTransport(p)
    BY <2>3 DEF CommitTurn, FenceLostTransport
  <2>4. CASE SignalTurnRuntime(p) \/ DropTurnRuntime(p)
    BY <2>4 DEF SignalTurnRuntime, DropTurnRuntime
  <2>5. CASE ClaimTurn(p)
    BY <2>5 DEF ClaimTurn
  <2>6. CASE PublishTurnIdle(p) \/ Unwind(p)
    BY <2>6 DEF PublishTurnIdle, Unwind
  <2> QED BY <2>1, <2>2, <2>3, <2>4, <2>5, <2>6 DEF TurnStep
<1> QED BY <1>1, <1>2, <1>3, JoinedKept DEF PumpJudged

\* So does the settlement of a cycle, which runs on the pump.
LEMMA PumpJoins ==
  ASSUME TypeOK, PumpHolds, InterruptsJoined, NEW g \in Gens,
         PumpStep(g) \/ ReadFails(g) \/ Emit(g) \/ Exit(g)
  PROVE  InterruptsJoined'
<1> USE DEF TypeOK, ForegroundTypes, RuntimeTypes, PumpAt, Routed, PumpJudged,
            opVars, fgVars, pumpVars
<1>1. UNCHANGED <<callbacks, pc>>
  BY DEF PumpStep, ReadFails, Emit, Exit, PumpTake, OpenCycle, LoseCycle, Apply,
         FinishDelivery, CommitCycle, SignalCycleRuntime, DropCycleRuntime,
         ClaimCycle, PublishCycleIdle, ClearCycle, DrainRuntime, EndForeground,
         RetireRuntime, Release, RuntimeEnded
<1>2. \A h \in Gens \ {g} : pump'[h] = pump[h] /\ held'[h] = held[h]
  BY DEF PumpStep, ReadFails, Emit, Exit, PumpTake, OpenCycle, LoseCycle, Apply,
         FinishDelivery, CommitCycle, SignalCycleRuntime, DropCycleRuntime,
         ClaimCycle, PublishCycleIdle, ClearCycle, DrainRuntime, EndForeground,
         RetireRuntime, Release, RuntimeEnded
<1>3. /\ \A f \in Foregrounds : settling[f] => settling'[f]
      /\ pump'[g] = "settling" =>
           \/ pump[g] = "settling" /\ held'[g] = held[g]
           \/ settling'[held'[g]]
      /\ pump'[g] \in PumpJudged =>
           /\ held'[g] = held[g]
           /\ pump[g] \in PumpJudged \/ (pump[g] = "settling" /\ CallbacksJoined)
      /\ \A f \in Foregrounds : terminal'[f] =>
           terminal[f] \/ (f = held[g] /\ pump[g] \in PumpJudged)
  <2>1. CASE PumpTake(g) \/ OpenCycle(g) \/ LoseCycle(g) \/ FinishDelivery(g)
    BY <2>1 DEF PumpTake, OpenCycle, LoseCycle, FinishDelivery
  <2>2. CASE Apply(g)
    <3>1. held[g] \in Foregrounds
      BY <2>2 DEF Apply, PumpHolds, Holders
    <3> QED BY <2>2, <3>1 DEF Apply
  <2>3. CASE CommitCycle(g)
    BY <2>3 DEF CommitCycle
  <2>4. CASE SignalCycleRuntime(g) \/ DropCycleRuntime(g)
    BY <2>4 DEF SignalCycleRuntime, DropCycleRuntime
  <2>5. CASE ClaimCycle(g)
    BY <2>5 DEF ClaimCycle
  <2>6. CASE PublishCycleIdle(g) \/ ClearCycle(g)
    BY <2>6 DEF PublishCycleIdle, ClearCycle
  <2>7. CASE DrainRuntime(g) \/ ReadFails(g)
    BY <2>7 DEF DrainRuntime, ReadFails, RuntimeEnded
  <2>8. CASE EndForeground(g) \/ RetireRuntime(g) \/ Release(g)
    BY <2>8 DEF EndForeground, RetireRuntime, Release
  <2>9. CASE Emit(g) \/ Exit(g)
    BY <2>9 DEF Emit, Exit
  <2> QED
    BY <2>1, <2>2, <2>3, <2>4, <2>5, <2>6, <2>7, <2>8, <2>9 DEF PumpStep
<1> QED BY <1>1, <1>2, <1>3, JoinedKept

\* No step interrupts a foreground that settles, or judges one that may still be
\* interrupted.
LEMMA InterruptStep ==
  ASSUME TypeOK, PumpHolds, InterruptsJoined, [Next]_vars
  PROVE  InterruptsJoined'
<1> USE DEF opVars, fgVars, pumpVars
<1>1. CASE UNCHANGED vars
  <2>1. UNCHANGED <<settling, callbacks, terminal, pc, pump, held>>
    BY <1>1 DEF vars
  <2> QED BY <2>1, JoinedKept
<1>2. CASE EstablishCommit \/ EstablishOpen
  <2>1. UNCHANGED <<settling, callbacks, terminal, pump, held>>
    BY <1>2 DEF EstablishCommit, EstablishOpen
  <2>2. \A p \in Prompts : pc'[p] = pc[p]
    BY <1>2, NamesAssumption
       DEF EstablishCommit, EstablishOpen, TypeOK, RequestTypes, Ops
  <2> QED BY <2>1, <2>2, JoinedKept
<1>3. ASSUME NEW o \in Prompts \cup Reads, AcquireGate(o) \/ RequestStep(o)
      PROVE  InterruptsJoined'
  BY <1>3, RequestJoined DEF Ops
<1>4. ASSUME NEW p \in Prompts, TurnStep(p) PROVE InterruptsJoined'
  BY <1>4, TurnJoins
<1>5. CASE Cancel
  <2>1. UNCHANGED <<settling, terminal, pc, pump, held>>
    BY <1>5 DEF Cancel
  <2>2. \A i \in callbacks' : i \in callbacks \/ ~settling[i.fg]
    BY <1>5 DEF Cancel, Interruptible
  <2> QED BY <2>1, <2>2, JoinedKept
<1>6. ASSUME NEW i \in callbacks, Abort(i) PROVE InterruptsJoined'
  <2>1. /\ UNCHANGED <<settling, terminal, pc, pump, held>>
        /\ callbacks' \subseteq callbacks
    BY <1>6 DEF Abort
  <2> QED BY <2>1, JoinedKept
<1>7. ASSUME NEW g \in Gens, PumpStep(g) \/ ReadFails(g) \/ Emit(g) \/ Exit(g)
      PROVE  InterruptsJoined'
  BY <1>7, PumpJoins
<1>8. CASE BeginClose \/ CloseStep
  <2>1. UNCHANGED <<settling, callbacks, terminal, pc, pump, held>>
    BY <1>8 DEF BeginClose, CloseStep, CloseAbort, CloseStop, CloseJoinPump,
                CloseCommit, CloseFence
  <2> QED BY <2>1, JoinedKept
<1> QED
  BY <1>1, <1>2, <1>3, <1>4, <1>5, <1>6, <1>7, <1>8 DEF Next

\* No interrupt is under way for a foreground whose verdict is fixed.  The verdict
\* alone does not say so inductively: InterruptsJoined follows the settlement from
\* beginSettlement, which ends the admission of interrupts, over the join of those
\* already started, to the claim.
THEOREM InterruptsAreJoined == Spec => []InterruptJoined
<1>1. Init => InterruptsJoined
  BY DEF Init, InterruptsJoined, Judged, PumpJudged, NoInterrupt, Ops,
         Foregrounds
<1>2. TypeOK /\ InterruptsJoined => InterruptJoined
  BY DEF TypeOK, ForegroundTypes, InterruptsJoined, InterruptJoined, NoInterrupt
<1> QED BY <1>1, <1>2, TypeInvariant, InterruptStep, PTL DEF Spec

-----------------------------------------------------------------------------
(* One claude process at a time.  OneProcess alone is not inductive:       *)
(* Launch must know that whatever still runs is the runtime it replaces.   *)
(* The invariant below follows every process from the launch that started  *)
(* it over the session that binds it to the exit that awaitRetired waits   *)
(* for.                                                                    *)


\* s.runtime and s.retired never both name a process.
OneGeneration == runtime = NoGen \/ retired = NoGen

\* Where a request works with the process it got, and what it got.
OnRuntime ==
  {"joining", "binding", "configuring", "stopping", "stopJoin", "dispatching",
   "accepting", "running", "settling", "signalling", "dropping"}

BoundToOne ==
  /\ \A o \in Ops : pc[o] \in OnRuntime => bound[o] \in Gens
  /\ closePc = "pump" => closeRt \in Gens

\* A request launches while the session is bound to nothing, and what it bound is
\* the session's until it stops it.
LaunchesAlone ==
  \A o \in Ops :
    /\ pc[o] = "joining" => runtime \in {NoGen, bound[o]}
    /\ pc[o] \in {"launching", "binding"} => runtime = NoGen
    /\ pc[o] = "binding" =>
         retired = NoGen /\ bound[o] = gens /\ pump[gens] = "none" /\ ~done[gens]
    /\ pc[o] = "configuring" => bound[o] \in {runtime, retired}
    /\ pc[o] \in {"stopping", "stopJoin"} =>
         bound[o] \in {runtime, retired} \/ closing

\* A pump that is done has left the session, and an unused generation is unused.
GoneIsUnbound ==
  \A g \in Gens :
    /\ pump[g] \in {"releasing", "done"} \/ done[g] => runtime # g
    /\ g > gens => proc[g] # "running" /\ pump[g] = "none" /\ ~done[g]

\* Where a request has no process any more, or not yet.
Parked == {"idle", "unwinding", "leaving", "answered", "abandoned"}

\* A running process is the session's, or the one a request launched and has not
\* bound or not stopped yet, or was left running on a closing session that
\* launches nothing any more.
RunningIsKnown ==
  \A g \in Gens : proc[g] = "running" =>
    \/ g \in {runtime, retired}
    \/ \E o \in Ops :
         bound[o] = g /\ pc[o] \in {"binding", "stopping", "stopJoin"}
    \/ closing /\ \A o \in Ops : pc[o] \in Parked

ProcessInv ==
  /\ OneProcess /\ OneGeneration /\ BoundToOne /\ LaunchesAlone
  /\ GoneIsUnbound /\ RunningIsKnown

-----------------------------------------------------------------------------
(* Steps that start and bind nothing.                                      *)

\* Where a request stands in no launch.
Quiet == OpPc \ {"joining", "launching", "binding", "configuring", "stopping",
                 "stopJoin"}

\* A request that moves on without launching, binding or stopping.
QuietMove(o) ==
  /\ pc[o] \notin {"binding", "stopping", "stopJoin"}
  /\ pc'[o] \in Quiet
  /\ pc'[o] \in OnRuntime => bound'[o] \in Gens
  /\ pc[o] \in Parked /\ closing => pc'[o] \in Parked

StopMove(o) ==
  pc[o] = "stopping" /\ pc'[o] = "stopJoin" /\ bound'[o] = bound[o]

StillMove(o) == pc'[o] = pc[o] /\ bound'[o] = bound[o]

\* Only the bindings of a generation end, and processes only exit.
Winding ==
  /\ UNCHANGED <<runtime, retired>> \/ \E g \in Gens : DropRuntime(g)
  /\ UNCHANGED gens
  /\ closing => closing'
  /\ \A g \in Gens : proc'[g] = "running" => proc[g] = "running"
  /\ \A g \in Gens :
       \/ pump'[g] = pump[g]
       \/ /\ pump[g] # "none"
          /\ pump'[g] \in {"releasing", "done"} => runtime' # g
  /\ \A g \in Gens : done'[g] => done[g] \/ pump[g] = "releasing"
  /\ closePc' = "pump" => closeRt' \in Gens
  /\ \A o \in Ops : StillMove(o) \/ StopMove(o) \/ QuietMove(o)

\* What DropRuntime leaves the session with.
LEMMA DropBinds ==
  ASSUME OneGeneration, NEW g \in Gens, DropRuntime(g)
  PROVE  /\ OneGeneration'
         /\ runtime' \in {runtime, NoGen}
         /\ runtime = NoGen => UNCHANGED <<runtime, retired>>
         /\ \A h \in Gens :
              h \in {runtime, retired} => h \in {runtime', retired'}
         /\ runtime' # g
BY DEF OneGeneration, DropRuntime, NoGen, Gens

\* Such a step keeps the invariant.
LEMMA WindingKept ==
  ASSUME TypeOK, ProcessInv, Winding
  PROVE  ProcessInv'
<1> USE DEF ProcessInv, Winding
<1>1. /\ OneGeneration'
      /\ runtime' \in {runtime, NoGen}
      /\ runtime = NoGen => UNCHANGED <<runtime, retired>>
      /\ \A h \in Gens : h \in {runtime, retired} => h \in {runtime', retired'}
  BY DropBinds DEF OneGeneration
<1>2. gens \in Gens /\ NoGen \notin Gens /\ gens' = gens
  BY DEF TypeOK, RuntimeTypes, Gens, NoGen
<1>3. OneProcess'
  BY DEF OneProcess
<1>4. BoundToOne'
  BY DEF BoundToOne, StillMove, StopMove, QuietMove, OnRuntime
<1>5. GoneIsUnbound'
  BY <1>1, <1>2 DEF GoneIsUnbound
<1>6. RunningIsKnown'
  <2> SUFFICES ASSUME NEW g \in Gens, proc'[g] = "running"
               PROVE  \/ g \in {runtime', retired'}
                      \/ \E o \in Ops :
                           /\ bound'[o] = g
                           /\ pc'[o] \in {"binding", "stopping", "stopJoin"}
                      \/ closing' /\ \A o \in Ops : pc'[o] \in Parked
    BY DEF RunningIsKnown
  <2>1. CASE g \in {runtime, retired}
    BY <2>1, <1>1
  <2>2. ASSUME NEW o \in Ops, bound[o] = g,
               pc[o] \in {"binding", "stopping", "stopJoin"}
        PROVE  bound'[o] = g /\ pc'[o] \in {"binding", "stopping", "stopJoin"}
    BY <2>2 DEF StillMove, StopMove, QuietMove
  <2>3. CASE closing /\ \A o \in Ops : pc[o] \in Parked
    BY <2>3 DEF StillMove, StopMove, QuietMove, Parked
  <2> QED BY <2>1, <2>2, <2>3 DEF RunningIsKnown
<1>7. LaunchesAlone'
  <2> SUFFICES ASSUME NEW o \in Ops
               PROVE  (/\ pc[o] = "joining" => runtime \in {NoGen, bound[o]}
                       /\ pc[o] \in {"launching", "binding"} => runtime = NoGen
                       /\ pc[o] = "binding" =>
                            /\ retired = NoGen /\ bound[o] = gens
                            /\ pump[gens] = "none" /\ ~done[gens]
                       /\ pc[o] = "configuring" =>
                            bound[o] \in {runtime, retired}
                       /\ pc[o] \in {"stopping", "stopJoin"} =>
                            bound[o] \in {runtime, retired} \/ closing)'
    BY DEF LaunchesAlone
  <2>1. CASE QuietMove(o)
    BY <2>1 DEF QuietMove, Quiet
  <2>2. CASE StopMove(o)
    <3>1. bound[o] \in Gens
      BY <2>2 DEF StopMove, BoundToOne, OnRuntime
    <3> QED BY <2>2, <3>1, <1>1 DEF StopMove, LaunchesAlone
  <2>3. CASE StillMove(o)
    <3>1. pc[o] \in {"configuring", "stopping", "stopJoin"} => bound[o] \in Gens
      BY DEF BoundToOne, OnRuntime
    <3> QED BY <2>3, <3>1, <1>1, <1>2 DEF StillMove, LaunchesAlone
  <2> QED BY <2>1, <2>2, <2>3
<1> QED BY <1>1, <1>3, <1>4, <1>5, <1>6, <1>7

-----------------------------------------------------------------------------
(* The requests.                                                           *)

\* Whoever works on the session works on it alone.
LEMMA WorksAlone ==
  ASSUME TypeOK, GateExclusive, NEW o \in Ops, pc[o] \notin Outside
  PROVE  \A q \in Ops \ {o} : pc[q] \in Outside
BY DEF GateExclusive, Holding, Outside

\* A request launches only when no process of the session runs.
LEMMA NothingRuns ==
  ASSUME TypeOK, GateExclusive, ProcessInv, NEW o \in Ops, pc[o] = "launching",
         PredecessorGone
  PROVE  \A g \in Gens : proc[g] # "running"
<1>1. runtime = NoGen /\ NoGen \notin Gens
  BY DEF ProcessInv, LaunchesAlone, NoGen, Gens
<1>2. \A q \in Ops : pc[q] \notin {"binding", "stopping", "stopJoin"}
  BY WorksAlone DEF Outside
<1>3. pc[o] \notin Parked
  BY DEF Parked
<1> QED
  BY <1>1, <1>2, <1>3 DEF ProcessInv, RunningIsKnown, PredecessorGone

\* A launch that succeeds starts the only process there is.
LEMMA LaunchAlone ==
  ASSUME TypeOK, GateExclusive, ProcessInv, NEW o \in Ops, Launch(o)
  PROVE  ProcessInv'
<1> USE DEF TypeOK, RequestTypes, RuntimeTypes, ProcessInv
<1>1. /\ o \in Ops /\ pc[o] = "launching" /\ runtime = NoGen
      /\ \A q \in Ops \ {o} : pc[q] \in Outside
      /\ UNCHANGED <<runtime, closing, pump, done, closePc, closeRt>>
      /\ \A q \in Ops \ {o} : pc'[q] = pc[q] /\ bound'[q] = bound[q]
  BY WorksAlone
     DEF Launch, LaunchesAlone, Outside, Fail, Leave, pumpVars, closeVars
<1>2. CASE PredecessorGone /\ pc'[o] = "binding"
  <2>1. /\ gens + 1 \in Gens /\ gens < gens + 1 /\ gens' = gens + 1
        /\ proc' = [proc EXCEPT ![gens + 1] = "running"]
        /\ bound'[o] = gens + 1 /\ retired' = NoGen
    BY <1>1, <1>2, BoundsAssumption DEF Launch, Gens, Fail, Leave
  <2>2. \A g \in Gens : proc'[g] = "running" => g = gens + 1
    BY <1>1, <1>2, <2>1, NothingRuns
  <2>3. OneProcess' /\ OneGeneration' /\ RunningIsKnown'
    BY <1>2, <2>1, <2>2 DEF OneProcess, OneGeneration, RunningIsKnown
  <2>4. BoundToOne'
    BY <1>1, <2>1 DEF BoundToOne, OnRuntime, Outside
  <2>5. GoneIsUnbound'
    BY <1>1, <2>1, <2>2 DEF GoneIsUnbound, Gens
  <2>6. LaunchesAlone'
    BY <1>1, <1>2, <2>1 DEF LaunchesAlone, GoneIsUnbound, Outside
  <2> QED BY <2>3, <2>4, <2>5, <2>6
<1>3. CASE PredecessorGone /\ pc'[o] # "binding"
  <2>1. UNCHANGED <<gens, proc, bound>> /\ pc'[o] \in Parked
    BY <1>1, <1>3 DEF Launch, Fail, Leave, Parked
  <2>2. OneProcess' /\ OneGeneration' /\ RunningIsKnown'
    BY <1>1, <1>3, <2>1, NothingRuns
       DEF OneProcess, OneGeneration, RunningIsKnown
  <2>3. BoundToOne'
    BY <1>1, <2>1 DEF BoundToOne, OnRuntime, Outside, Parked
  <2>4. GoneIsUnbound'
    BY <1>1, <2>1 DEF GoneIsUnbound
  <2>5. LaunchesAlone'
    BY <1>1, <2>1 DEF LaunchesAlone, Outside, Parked
  <2> QED BY <2>2, <2>3, <2>4, <2>5
<1>4. CASE ~PredecessorGone
  <2>1. /\ UNCHANGED <<retired, gens, proc, bound>>
        /\ pc'[o] \in {"unwinding", "leaving"}
    BY <1>4 DEF Launch, Fail, Leave
  <2>2. QuietMove(o)
    BY <1>1, <2>1 DEF QuietMove, Quiet, OpPc, OnRuntime, Parked
  <2>3. Winding
    BY <1>1, <2>1, <2>2 DEF Winding, StillMove, BoundToOne
  <2> QED BY <2>3, WindingKept
<1> QED BY <1>2, <1>3, <1>4

\* The process of a launch becomes the session's, or is stopped by its launch
\* when the session closes.
LEMMA BindAlone ==
  ASSUME TypeOK, GateExclusive, ProcessInv, NEW o \in Ops, Bind(o)
  PROVE  ProcessInv'
<1> USE DEF TypeOK, RequestTypes, RuntimeTypes, ProcessInv
<1>1. /\ o \in Ops /\ pc[o] = "binding" /\ runtime = NoGen /\ retired = NoGen
      /\ bound[o] = gens /\ pump[gens] = "none" /\ ~done[gens]
      /\ gens \in Gens /\ NoGen \notin Gens /\ ~(gens > gens)
      /\ \A q \in Ops \ {o} : pc[q] \in Outside
      /\ UNCHANGED <<retired, closing, gens, proc, bound, closePc, closeRt>>
      /\ \A q \in Ops \ {o} : pc'[q] = pc[q]
  BY WorksAlone
     DEF Bind, LaunchesAlone, Outside, Gens, NoGen, nativeVars, closeVars
<1>2. \A g \in Gens : proc'[g] = "running" => g = gens
  <2>1. pc[o] \notin Parked
    BY <1>1 DEF Parked
  <2>2. \A q \in Ops \ {o} : pc[q] \notin {"binding", "stopping", "stopJoin"}
    BY <1>1 DEF Outside
  <2> QED BY <1>1, <2>1, <2>2 DEF RunningIsKnown
<1>3. CASE BindRefused
  <2>1. /\ closing /\ UNCHANGED <<runtime, pump>> /\ pc'[o] = "stopping"
        /\ done' = [done EXCEPT ![gens] = TRUE]
    BY <1>1, <1>3 DEF Bind, BindRefused
  <2>2. OneProcess' /\ OneGeneration' /\ BoundToOne'
    BY <1>1, <2>1 DEF OneProcess, OneGeneration, BoundToOne, OnRuntime, Outside
  <2>3. GoneIsUnbound'
    BY <1>1, <2>1 DEF GoneIsUnbound
  <2>4. LaunchesAlone'
    BY <1>1, <2>1 DEF LaunchesAlone, Outside
  <2>5. RunningIsKnown'
    BY <1>1, <1>2, <2>1 DEF RunningIsKnown
  <2> QED BY <2>2, <2>3, <2>4, <2>5
<1>4. CASE ~BindRefused
  <2>1. /\ runtime' = gens /\ done' = done /\ pc'[o] = "configuring"
        /\ pump' = [pump EXCEPT ![gens] = "ready"]
    BY <1>1, <1>4 DEF Bind
  <2>2. OneProcess' /\ OneGeneration' /\ BoundToOne'
    BY <1>1, <2>1 DEF OneProcess, OneGeneration, BoundToOne, OnRuntime, Outside
  <2>3. GoneIsUnbound'
    BY <1>1, <2>1 DEF GoneIsUnbound
  <2>4. LaunchesAlone'
    BY <1>1, <2>1 DEF LaunchesAlone, Outside
  <2>5. RunningIsKnown'
    BY <1>1, <1>2, <2>1 DEF RunningIsKnown
  <2> QED BY <2>2, <2>3, <2>4, <2>5
<1> QED BY <1>3, <1>4

\* A launch that stops its process again, and gives up on its pump, leaves it to
\* awaitRetired, or behind on a session that closes.
LEMMA StopAlone ==
  ASSUME TypeOK, GateExclusive, ProcessInv, NEW o \in Ops, StopJoin(o)
  PROVE  ProcessInv'
<1> USE DEF TypeOK, RequestTypes, RuntimeTypes, ProcessInv
<1>1. /\ pc[o] = "stopJoin" /\ bound[o] \in Gens
      /\ pc'[o] \in {"unwinding", "leaving"}
      /\ \A q \in Ops \ {o} : pc[q] \in Outside /\ pc'[q] = pc[q]
      /\ DropRuntime(bound[o])
      /\ UNCHANGED <<bound, closing, gens, proc, pump, done, closePc, closeRt>>
  BY WorksAlone
     DEF StopJoin, Fail, Leave, BoundToOne, OnRuntime, Outside, pumpVars,
         nativeVars, closeVars
<1>2. /\ OneGeneration' /\ runtime' \in {runtime, NoGen}
      /\ \A h \in Gens : h \in {runtime, retired} => h \in {runtime', retired'}
  BY <1>1, DropBinds
<1>3. OneProcess' /\ BoundToOne'
  BY <1>1 DEF OneProcess, BoundToOne, OnRuntime, Outside
<1>4. GoneIsUnbound'
  BY <1>1, <1>2 DEF GoneIsUnbound, Gens, NoGen
<1>5. LaunchesAlone'
  BY <1>1 DEF LaunchesAlone, Outside
<1>6. RunningIsKnown'
  <2>1. \A q \in Ops : pc'[q] \in Parked
    BY <1>1 DEF Parked, Outside
  <2>2. pc[o] \notin Parked
    BY <1>1 DEF Parked
  <2>3. \A q \in Ops : pc[q] \in {"binding", "stopping", "stopJoin"} => q = o
    BY <1>1 DEF Outside
  <2>4. closing \/ bound[o] \in {runtime, retired}
    BY <1>1 DEF LaunchesAlone
  <2> QED BY <1>1, <1>2, <2>1, <2>2, <2>3, <2>4 DEF RunningIsKnown
<1> QED BY <1>2, <1>3, <1>4, <1>5, <1>6

\* A request that finds no runtime, or a dead one whose pump is done, launches
\* next.
LEMMA EnsureAlone ==
  ASSUME TypeOK, GateExclusive, ProcessInv, NEW o \in Ops,
         EnsureRuntime(o) \/ JoinEnding(o) \/ OpenStream(o)
  PROVE  ProcessInv'
<1> USE DEF TypeOK, RequestTypes, RuntimeTypes, ProcessInv
<1>1. /\ pc[o] \in {"ensuring", "joining", "configuring"}
      /\ \A q \in Ops \ {o} : /\ pc[q] \in Outside
                              /\ pc'[q] = pc[q] /\ bound'[q] = bound[q]
      /\ UNCHANGED <<runtime, retired, closing, gens, proc, pump, done, closePc,
                     closeRt>>
  BY WorksAlone
     DEF EnsureRuntime, JoinEnding, OpenStream, Fail, Leave, Outside,
         sessionVars, pumpVars, nativeVars, closeVars
<1>2. \/ pc'[o] \in {"unwinding", "leaving"}
      \/ pc'[o] \in {"dispatching", "using", "joining"} /\ bound'[o] \in Gens
           /\ (pc'[o] = "joining" => bound'[o] = runtime)
      \/ pc'[o] = "launching" /\ runtime = NoGen
      \/ pc'[o] = "stopping" /\ bound'[o] \in Gens \cap {runtime, retired}
  <2>1. CASE EnsureRuntime(o)
    BY <2>1 DEF EnsureRuntime, Fail, Leave, Served
  <2>2. CASE JoinEnding(o)
    BY <2>2 DEF JoinEnding, Fail, Leave, LaunchesAlone, GoneIsUnbound,
                BoundToOne, OnRuntime
  <2>3. CASE OpenStream(o)
    BY <2>3 DEF OpenStream, Fail, Leave, Served, LaunchesAlone, BoundToOne,
                OnRuntime
  <2> QED BY <2>1, <2>2, <2>3
<1>3. OneProcess' /\ OneGeneration' /\ GoneIsUnbound'
  BY <1>1 DEF OneProcess, OneGeneration, GoneIsUnbound
<1>4. BoundToOne'
  BY <1>1, <1>2 DEF BoundToOne, OnRuntime, Outside
<1>5. LaunchesAlone'
  BY <1>1, <1>2 DEF LaunchesAlone, Outside
<1>6. RunningIsKnown'
  <2>1. pc[o] \notin Parked
    BY <1>1 DEF Parked
  <2>2. \A q \in Ops : pc[q] \notin {"binding", "stopping", "stopJoin"}
    BY <1>1 DEF Outside
  <2> QED BY <1>1, <2>1, <2>2 DEF RunningIsKnown
<1> QED BY <1>3, <1>4, <1>5, <1>6

\* The other steps of a request only wind down.
LEMMA RequestWinds ==
  ASSUME TypeOK, ProcessInv, NEW o \in Ops,
         \/ AcquireGate(o) \/ CheckBusy(o) \/ StopSignal(o) \/ UseRuntime(o)
         \/ ReleaseGate(o)
  PROVE  Winding
<1> USE DEF TypeOK, RequestTypes, RuntimeTypes, ProcessInv, BoundToOne
<1>1. /\ UNCHANGED <<runtime, retired, gens, closing, pump, done, closePc,
                     closeRt>>
      /\ \A g \in Gens : proc'[g] = "running" => proc[g] = "running"
  BY DEF AcquireGate, CheckBusy, StopSignal, UseRuntime, ReleaseGate, Signal,
         sessionVars, pumpVars, nativeVars, closeVars
<1>2. \A q \in Ops \ {o} : StillMove(q)
  BY DEF AcquireGate, CheckBusy, StopSignal, UseRuntime, ReleaseGate, At, Leave,
         StillMove
<1>3. StopMove(o) \/ QuietMove(o)
  BY DEF AcquireGate, CheckBusy, StopSignal, UseRuntime, ReleaseGate, At, Leave,
         Admissible, StopMove, QuietMove, Quiet, OpPc, OnRuntime, Parked
<1> QED BY <1>1, <1>2, <1>3 DEF Winding

\* So do the steps of a turn.
LEMMA TurnWinds ==
  ASSUME TypeOK, ProcessInv, NEW p \in Prompts, TurnStep(p)
  PROVE  Winding
<1> USE DEF TypeOK, RequestTypes, RuntimeTypes, ProcessInv, BoundToOne, Ops
<1>1. /\ UNCHANGED <<bound, gens, closing, pump, done, closePc, closeRt>>
      /\ \A g \in Gens : proc'[g] = "running" => proc[g] = "running"
  BY DEF TurnStep, InstallTurn, Dispatch, AcceptTurn, AbortExpires,
         BeginSettlement, CommitTurn, SignalTurnRuntime, DropTurnRuntime,
         FenceLostTransport, ClaimTurn, PublishTurnIdle, Unwind, Signal,
         sessionVars, opVars, pumpVars, nativeVars, closeVars
<1>2. UNCHANGED <<runtime, retired>> \/ \E g \in Gens : DropRuntime(g)
  <2>1. CASE DropTurnRuntime(p) \/ FenceLostTransport(p)
    <3>1. bound[p] \in Gens
      BY <2>1 DEF DropTurnRuntime, FenceLostTransport, At, OnRuntime
    <3> QED BY <2>1, <3>1 DEF DropTurnRuntime, FenceLostTransport
  <2> QED
    BY <2>1
       DEF TurnStep, InstallTurn, Dispatch, AcceptTurn, AbortExpires,
           BeginSettlement, CommitTurn, SignalTurnRuntime, ClaimTurn,
           PublishTurnIdle, Unwind, sessionVars
<1>3. \A q \in Ops \ {p} : StillMove(q)
  BY <1>1, TurnFootprint DEF StillMove
<1>4. StillMove(p) \/ QuietMove(p)
  BY DEF TurnStep, InstallTurn, Dispatch, AcceptTurn, AbortExpires,
         BeginSettlement, CommitTurn, SignalTurnRuntime, DropTurnRuntime,
         FenceLostTransport, ClaimTurn, PublishTurnIdle, Unwind, At, Leave,
         opVars, StillMove, QuietMove, Quiet, OpPc, OnRuntime, Parked
<1> QED BY <1>1, <1>2, <1>3, <1>4 DEF Winding

-----------------------------------------------------------------------------
(* The pump, the process and the close.                                    *)

\* A pump leaves the session before it releases its process.
LEMMA PumpWinds ==
  ASSUME TypeOK, ProcessInv, NEW g \in Gens,
         PumpStep(g) \/ ReadFails(g) \/ Emit(g) \/ Exit(g)
  PROVE  Winding
<1> USE DEF TypeOK, RuntimeTypes, ProcessInv
<1>1. /\ UNCHANGED <<pc, bound, gens, closing, closePc, closeRt>>
      /\ \A h \in Gens : proc'[h] = "running" => proc[h] = "running"
      /\ \A h \in Gens \ {g} : pump'[h] = pump[h]
  BY DEF PumpStep, ReadFails, Emit, Exit, PumpTake, OpenCycle, LoseCycle, Apply,
         FinishDelivery, CommitCycle, SignalCycleRuntime, DropCycleRuntime,
         ClaimCycle, PublishCycleIdle, ClearCycle, DrainRuntime, EndForeground,
         RetireRuntime, Release, RuntimeEnded, Routed, PumpAt, Signal,
         sessionVars, opVars, pumpVars, nativeVars, closeVars
<1>2. UNCHANGED <<runtime, retired>> \/ DropRuntime(g)
  BY DEF PumpStep, ReadFails, Emit, Exit, PumpTake, OpenCycle, LoseCycle, Apply,
         FinishDelivery, CommitCycle, SignalCycleRuntime, DropCycleRuntime,
         ClaimCycle, PublishCycleIdle, ClearCycle, DrainRuntime, EndForeground,
         RetireRuntime, Release, RuntimeEnded, sessionVars
<1>3. \A h \in Gens : done'[h] => done[h] \/ pump[h] = "releasing"
  BY DEF PumpStep, ReadFails, Emit, Exit, PumpTake, OpenCycle, LoseCycle, Apply,
         FinishDelivery, CommitCycle, SignalCycleRuntime, DropCycleRuntime,
         ClaimCycle, PublishCycleIdle, ClearCycle, DrainRuntime, EndForeground,
         RetireRuntime, Release, RuntimeEnded, PumpAt, pumpVars
<1>4. \/ pump'[g] = pump[g]
      \/ /\ pump[g] # "none"
         /\ pump'[g] \in {"releasing", "done"} => runtime' # g
  <2>1. CASE DrainRuntime(g) \/ ReadFails(g)
    BY <2>1 DEF DrainRuntime, ReadFails, RuntimeEnded, sessionVars
  <2>2. CASE RetireRuntime(g)
    <3>1. DropRuntime(g) /\ pump[g] = "endWait"
      BY <2>2 DEF RetireRuntime, PumpAt
    <3> QED BY <3>1, DropBinds
  <2>3. CASE Release(g)
    BY <2>3 DEF Release, PumpAt, GoneIsUnbound, sessionVars
  <2> QED
    BY <2>1, <2>2, <2>3
       DEF PumpStep, Emit, Exit, PumpTake, OpenCycle, LoseCycle, Apply,
           FinishDelivery, CommitCycle, SignalCycleRuntime, DropCycleRuntime,
           ClaimCycle, PublishCycleIdle, ClearCycle, EndForeground, Routed,
           CycleLost, PumpAt, pumpVars
<1> QED BY <1>1, <1>2, <1>3, <1>4 DEF Winding, StillMove, BoundToOne

\* The ladder signals and drops the runtime it sampled; cancellation and the
\* interrupts change no binding.
LEMMA CloseWinds ==
  ASSUME TypeOK, ProcessInv,
         Cancel \/ (\E i \in callbacks : Abort(i)) \/ BeginClose \/ CloseStep
  PROVE  Winding
<1> USE DEF TypeOK, RequestTypes, RuntimeTypes, CloseTypes, ProcessInv,
            BoundToOne
<1>1. /\ UNCHANGED <<pc, bound, gens, pump, done>> /\ (closing => closing')
      /\ \A h \in Gens : proc'[h] = "running" => proc[h] = "running"
      /\ closePc' = "pump" => closeRt' \in Gens
  BY DEF Cancel, Abort, BeginClose, CloseStep, CloseAbort, CloseStop,
         CloseJoinPump, CloseCommit, CloseFence, CloseAt, Signal, sessionVars,
         opVars, pumpVars, nativeVars, closeVars
<1>2. UNCHANGED <<runtime, retired>> \/ \E g \in Gens : DropRuntime(g)
  BY DEF Cancel, Abort, BeginClose, CloseStep, CloseAbort, CloseStop,
         CloseJoinPump, CloseCommit, CloseFence, CloseAt, sessionVars
<1> QED BY <1>1, <1>2 DEF Winding, StillMove

\* The establishment binds nothing: its process was bound when it was installed.
LEMMA EstablishWinds ==
  ASSUME TypeOK, ProcessInv, EstablishCommit \/ EstablishOpen
  PROVE  Winding
<1>1. UNCHANGED <<runtime, retired, closing, bound, gens, proc, pump, done,
                 closePc, closeRt>>
  BY DEF EstablishCommit, EstablishOpen, sessionVars, pumpVars, nativeVars,
         closeVars
<1>2. \A q \in Ops \ {Establish} : StillMove(q)
  BY <1>1 DEF EstablishCommit, EstablishOpen, TypeOK, RequestTypes, StillMove
<1>3. /\ pc[Establish] \in {"commit", "open"}
      /\ pc'[Establish] \in {"open", "abandoned", "answered"}
  BY DEF EstablishCommit, EstablishOpen, TypeOK, RequestTypes, Ops
<1>4. QuietMove(Establish)
  BY <1>3 DEF QuietMove, Quiet, OpPc, OnRuntime, Parked
<1> QED BY <1>1, <1>2, <1>4 DEF Winding, ProcessInv, BoundToOne

-----------------------------------------------------------------------------
\* The invariant holds initially: the establishment installs the session with its
\* process bound.
LEMMA InitProcess == Init => ProcessInv
<1> SUFFICES ASSUME Init PROVE ProcessInv
  OBVIOUS
<1>1. 1 \in Gens /\ NoGen \notin Gens
  BY BoundsAssumption DEF Gens, NoGen
<1>2. OneProcess /\ OneGeneration /\ BoundToOne
  BY DEF Init, OneProcess, OneGeneration, BoundToOne, OnRuntime
<1>3. LaunchesAlone /\ GoneIsUnbound /\ RunningIsKnown
  BY <1>1 DEF Init, LaunchesAlone, GoneIsUnbound, RunningIsKnown, Gens
<1> QED BY <1>2, <1>3 DEF ProcessInv

\* Every step keeps it.
LEMMA ProcessStep ==
  ASSUME TypeOK, GateExclusive, ProcessInv, [Next]_vars
  PROVE  ProcessInv'
<1>1. CASE UNCHANGED vars
  <2>1. UNCHANGED <<runtime, retired, closing, pc, bound, gens, proc, pump, done,
                   closePc, closeRt>>
    BY <1>1 DEF vars, sessionVars, opVars, pumpVars, nativeVars, closeVars
  <2>2. Winding
    BY <2>1 DEF Winding, StillMove, ProcessInv, BoundToOne
  <2> QED BY <2>2, WindingKept
<1>2. CASE EstablishCommit \/ EstablishOpen
  BY <1>2, EstablishWinds, WindingKept
<1>3. ASSUME NEW o \in Prompts \cup Reads, AcquireGate(o) \/ RequestStep(o)
      PROVE  ProcessInv'
  <2>1. o \in Ops
    BY DEF Ops
  <2> QED
    BY <1>3, <2>1, LaunchAlone, BindAlone, StopAlone, EnsureAlone, RequestWinds,
       WindingKept DEF RequestStep
<1>4. ASSUME NEW p \in Prompts, TurnStep(p) PROVE ProcessInv'
  BY <1>4, TurnWinds, WindingKept
<1>5. CASE Cancel \/ (\E i \in callbacks : Abort(i)) \/ BeginClose \/ CloseStep
  BY <1>5, CloseWinds, WindingKept
<1>6. ASSUME NEW g \in Gens, PumpStep(g) \/ ReadFails(g) \/ Emit(g) \/ Exit(g)
      PROVE  ProcessInv'
  BY <1>6, PumpWinds, WindingKept
<1> QED BY <1>1, <1>2, <1>3, <1>4, <1>5, <1>6 DEF Next

\* Two claude processes never run on one session, whatever mixture of lost
\* streams, failed launches, surviving children, expired joins and closing
\* replaced the first: awaitRetired is the only thing that keeps them apart.
THEOREM ProcessIsOne == Spec => []OneProcess
<1>1. ProcessInv => OneProcess
  BY DEF ProcessInv
<1> QED
  BY <1>1, TypeCorrect, GateIsExclusive, InitProcess, ProcessStep, PTL DEF Spec
=============================================================================
