----------------------------- MODULE StreamProofs -----------------------------
(***************************************************************************)
(* The lifecycle stream of one session, for every number of requests,      *)
(* generations, records and failures.  Each argument has an invariant of   *)
(* its own:                                                                *)
(*                                                                         *)
(*   - what a turn has fixed at each step of its settlement (VerdictInv),  *)
(*     from which a turn's idle is never a success the store does not back *)
(*     and a cancellation taken in time is answered;                       *)
(*   - which generation an open incarnation belongs to (FreshStream,       *)
(*     OpeningInv), from which an incarnation opens only on a fenced       *)
(*     stream;                                                             *)
(*   - what the ladder has left behind (ClosedInv), from which a closed    *)
(*     session stays as it is;                                             *)
(*   - who will end an agent-origin cycle (CycleInv);                      *)
(*   - which incarnation a cycle was announced on (AnnouncedInv), from     *)
(*     which that incarnation owes it an idle until the idle is out.       *)
(***************************************************************************)
EXTENDS SessionProofs

-----------------------------------------------------------------------------
(* What the steps of each goroutine do to the stream.                      *)

\* The stream is only ever fenced, but by the two steps that open one.
StreamKeptOrFenced == stream' \in {stream, NoGen}

\* A request opens the incarnation of the generation it configured, and no other.
LEMMA RequestStream ==
  ASSUME NEW o \in Ops, AcquireGate(o) \/ RequestStep(o)
  PROVE  \/ UNCHANGED stream
         \/ pc[o] = "configuring" /\ stream' = bound[o] /\ Openable(bound[o])
BY DEF AcquireGate, RequestStep, CheckBusy, EnsureRuntime, JoinEnding, Launch,
       Bind, OpenStream, StopSignal, StopJoin, UseRuntime, ReleaseGate, pubVars

\* A turn only fences.
LEMMA TurnStream ==
  ASSUME NEW p \in Prompts, TurnStep(p)
  PROVE  StreamKeptOrFenced
BY DEF TurnStep, InstallTurn, Dispatch, AcceptTurn, AbortExpires,
       BeginSettlement, CommitTurn, SignalTurnRuntime, DropTurnRuntime,
       FenceLostTransport, ClaimTurn, PublishTurnIdle, Unwind, Fence, pubVars,
       StreamKeptOrFenced

\* So do a pump and its process.
LEMMA PumpStream ==
  ASSUME NEW g \in Gens, PumpStep(g) \/ ReadFails(g) \/ Emit(g) \/ Exit(g)
  PROVE  StreamKeptOrFenced
BY DEF PumpStep, ReadFails, Emit, Exit, PumpTake, OpenCycle, LoseCycle, Apply,
       FinishDelivery, CommitCycle, SignalCycleRuntime, DropCycleRuntime,
       ClaimCycle, PublishCycleIdle, ClearCycle, DrainRuntime, EndForeground,
       RetireRuntime, Release, RuntimeEnded, StreamAfterEnd, Fence, pubVars,
       StreamKeptOrFenced

\* And the ladder; a cancellation leaves the stream alone.
LEMMA CloseStream ==
  ASSUME Cancel \/ (\E i \in callbacks : Abort(i)) \/ BeginClose \/ CloseStep
  PROVE  StreamKeptOrFenced
BY DEF Cancel, Abort, BeginClose, CloseStep, CloseAbort, CloseStop,
       CloseJoinPump, CloseCommit, CloseFence, Fence, pubVars,
       StreamKeptOrFenced

\* A step of the establishment opens the first incarnation at most.
LEMMA EstablishStream ==
  ASSUME EstablishCommit \/ EstablishOpen
  PROVE  \/ UNCHANGED stream
         \/ pc[Establish] = "open" /\ stream' = 1 /\ Openable(1)
BY DEF EstablishCommit, EstablishOpen

\* While a request holds the gate, only the request itself may open a stream.
LEMMA StreamWhileHeld ==
  ASSUME TypeOK, GateExclusive, [Next]_vars, NEW p \in Prompts,
         pc[p] \notin Outside, pc[p] # "configuring"
  PROVE  StreamKeptOrFenced
<1> USE DEF StreamKeptOrFenced
<1>1. p \in Ops /\ Establish \in Ops /\ p # Establish
  BY NamesAssumption DEF Ops
<1>2. \A o \in Ops \ {p} : pc[o] \in Outside
  BY <1>1 DEF GateExclusive, Holding, Outside
<1>3. pc[Establish] # "open" /\ \A o \in Ops : pc[o] # "configuring"
  BY <1>1, <1>2 DEF Outside
<1>4. CASE UNCHANGED vars
  BY <1>4 DEF vars, pubVars
<1>5. CASE EstablishCommit \/ EstablishOpen
  BY <1>3, <1>5, EstablishStream
<1>6. ASSUME NEW o \in Prompts \cup Reads, AcquireGate(o) \/ RequestStep(o)
      PROVE  StreamKeptOrFenced
  BY <1>3, <1>6, RequestStream DEF Ops
<1> QED
  BY <1>4, <1>5, <1>6, TurnStream, PumpStream, CloseStream DEF Next

-----------------------------------------------------------------------------
(* What a settling pump holds.                                             *)

\* The stages in which a pump settles what it holds, and in which it has opened or
\* settles it.
Settlement == {"signalling", "dropping", "claiming", "publishing", "clearing"}
CycleStages == {"opened", "settling"} \cup Settlement

\* Only cycles are opened and settled on a pump (a turn's settlement is its
\* prompt's).
SettlesCycle == \A g \in Gens : pump[g] \in CycleStages => held[g] \in Cycles

\* A cycle is not a prompt.
LEMMA CyclesApart == Prompts \cap Cycles = {} /\ None \notin Cycles
BY NamesAssumption, BoundsAssumption DEF Cycles, Foregrounds

\* A pump that moves.
LEMMA PumpSettles ==
  ASSUME TypeOK, PumpHolds, SettlesCycle, NEW g \in Gens,
         PumpStep(g) \/ ReadFails(g) \/ Emit(g) \/ Exit(g)
  PROVE  SettlesCycle'
<1> USE DEF TypeOK, RuntimeTypes, CycleStages, Settlement, SettlesCycle
<1>1. \A h \in Gens \ {g} : pump'[h] = pump[h] /\ held'[h] = held[h]
  BY DEF PumpStep, ReadFails, Emit, Exit, PumpTake, OpenCycle, LoseCycle, Apply,
         FinishDelivery, CommitCycle, SignalCycleRuntime, DropCycleRuntime,
         ClaimCycle, PublishCycleIdle, ClearCycle, DrainRuntime, EndForeground,
         RetireRuntime, Release, RuntimeEnded, Routed, PumpAt, pumpVars
<1>2. pump'[g] \in CycleStages => held'[g] \in Cycles
  <2>1. CASE OpenCycle(g)
    BY <2>1, NextCycle DEF OpenCycle, Routed
  <2>2. CASE Apply(g)
    <3>1. held[g] \in Foregrounds
      BY <2>2 DEF Apply, PumpHolds, Holders
    <3> QED BY <2>2, <3>1 DEF Apply, Routed, Foregrounds
  <2> QED
    BY <2>1, <2>2
       DEF PumpStep, ReadFails, Emit, Exit, PumpTake, LoseCycle,
           FinishDelivery, CommitCycle, SignalCycleRuntime, DropCycleRuntime,
           ClaimCycle, PublishCycleIdle, ClearCycle, DrainRuntime,
           EndForeground, RetireRuntime, Release, RuntimeEnded, Routed, PumpAt,
           pumpVars
<1> QED BY <1>1, <1>2

\* Every step keeps it: nobody else moves a pump, but the bind that starts one.
LEMMA SettlesStep ==
  ASSUME TypeOK, PumpHolds, SettlesCycle, [Next]_vars
  PROVE  SettlesCycle'
<1> USE DEF TypeOK, RuntimeTypes, CycleStages, Settlement
<1>1. CASE UNCHANGED <<pump, held>>
  BY <1>1 DEF SettlesCycle
<1>2. CASE UNCHANGED vars
  BY <1>1, <1>2 DEF vars, pumpVars
<1>3. CASE EstablishCommit \/ EstablishOpen
  BY <1>1, <1>3 DEF EstablishCommit, EstablishOpen, pumpVars
<1>4. ASSUME NEW o \in Prompts \cup Reads, AcquireGate(o) \/ RequestStep(o)
      PROVE  SettlesCycle'
  <2>1. held' = held /\ \A g \in Gens : pump'[g] \in {pump[g], "ready"}
    BY <1>4 DEF AcquireGate, RequestStep, CheckBusy, EnsureRuntime, JoinEnding,
                Launch, Bind, OpenStream, StopSignal, StopJoin, UseRuntime,
                ReleaseGate, pumpVars
  <2> QED BY <2>1 DEF SettlesCycle
<1>5. ASSUME NEW p \in Prompts, TurnStep(p) PROVE SettlesCycle'
  BY <1>1, <1>5
     DEF TurnStep, InstallTurn, Dispatch, AcceptTurn, AbortExpires,
         BeginSettlement, CommitTurn, SignalTurnRuntime, DropTurnRuntime,
         FenceLostTransport, ClaimTurn, PublishTurnIdle, Unwind, pumpVars
<1>6. CASE Cancel \/ (\E i \in callbacks : Abort(i)) \/ BeginClose \/ CloseStep
  BY <1>1, <1>6
     DEF Cancel, Abort, BeginClose, CloseStep, CloseAbort, CloseStop,
         CloseJoinPump, CloseCommit, CloseFence, pumpVars
<1> QED
  BY <1>2, <1>3, <1>4, <1>5, <1>6, PumpSettles DEF Next

-----------------------------------------------------------------------------
(* The verdict of a turn.                                                  *)

\* The stages of a prompt whose commit failed, and of one whose verdict may be
\* published.
Failing    == {"signalling", "dropping", "claimFailed"}
Publishing == {"claiming", "publishing"}

\* Where a prompt stands once its verdict is fixed.
Decided == {"publishing", "unwinding", "leaving", "answered"}

\* claude settled the turn, and the store refused its rows.
NotStored(p) == ended[p] = "settled" /\ answer[p] = "failed"

\* claude settled the turn, and the store has its rows.
Stored(p) == ended[p] = "settled" /\ (Ephemeral \/ p \notin dirty)

\* What is fixed for a turn.  A verdict the store does not back is not seen,
\* because the stream is fenced until the gate is free; and a cancellation
\* outranks everything but the failed commit.
Verdict(p) ==
  /\ pc[p] \in Failing => stream = NoGen /\ NotStored(p)
  /\ pc[p] \in Publishing => stream = NoGen \/ Stored(p)
  /\ terminal[p] => pc[p] \in Decided
  /\ terminal[p] /\ cancelled[p] /\ closeTurn # p =>
       answer[p] = "cancelled" \/ NotStored(p)

VerdictInv ==
  /\ closePc = "none" => closeTurn = None
  /\ \A p \in Prompts : Verdict(p)

\* What a step that does not move the prompt must leave of its turn.
LEMMA VerdictKept ==
  ASSUME NEW p \in Prompts, Verdict(p),
         pc'[p] = pc[p], answer'[p] = answer[p], terminal'[p] = terminal[p],
         ended[p] = "settled" => ended'[p] = "settled",
         Stored(p) => Ephemeral \/ p \notin dirty',
         pc[p] \in Failing \cup Publishing => StreamKeptOrFenced,
         terminal[p] /\ cancelled'[p] /\ closeTurn' # p =>
           cancelled[p] /\ closeTurn # p
  PROVE  Verdict(p)'
BY DEF Verdict, NotStored, Stored, StreamKeptOrFenced

\* A request moves no turn that has a verdict, but for the release of its gate.
LEMMA RequestVerdicts ==
  ASSUME TypeOK, GateExclusive, VerdictInv, [Next]_vars, NEW o \in Ops,
         AcquireGate(o) \/ RequestStep(o)
  PROVE  VerdictInv'
<1> USE DEF TypeOK, RequestTypes, ForegroundTypes
<1>1. UNCHANGED <<closePc, closeTurn, ended, terminal, cancelled>>
  BY DEF AcquireGate, RequestStep, CheckBusy, EnsureRuntime, JoinEnding, Launch,
         Bind, OpenStream, StopSignal, StopJoin, UseRuntime, ReleaseGate,
         closeVars, fgVars
<1>2. dirty' \subseteq dirty
  BY DEF AcquireGate, RequestStep, CheckBusy, EnsureRuntime, JoinEnding, Launch,
         Bind, OpenStream, StopSignal, StopJoin, UseRuntime, ReleaseGate,
         CommitOk, pubVars
<1>3. ASSUME NEW p \in Prompts PROVE Verdict(p)'
  <2>1. p \in Ops
    BY DEF Ops
  <2>2. CASE p # o
    <3>1. pc'[p] = pc[p] /\ answer'[p] = answer[p]
      BY <2>1, <2>2
         DEF AcquireGate, RequestStep, CheckBusy, EnsureRuntime, JoinEnding,
             Launch, Bind, OpenStream, StopSignal, StopJoin, UseRuntime,
             ReleaseGate, Fail, Leave, At
    <3>2. pc[p] \in Failing \cup Publishing => StreamKeptOrFenced
      BY StreamWhileHeld DEF Failing, Publishing, Outside
    <3> QED BY <1>1, <1>2, <3>1, <3>2, VerdictKept DEF VerdictInv, Stored
  <2>3. CASE p = o
    <3>1. pc[p] \notin Decided \/ ReleaseGate(p)
      BY <2>3
         DEF AcquireGate, RequestStep, CheckBusy, EnsureRuntime, JoinEnding,
             Launch, Bind, OpenStream, StopSignal, StopJoin, UseRuntime, At,
             Decided
    <3>2. pc'[p] \notin Failing \cup Publishing
      BY <2>1, <2>3
         DEF AcquireGate, RequestStep, CheckBusy, EnsureRuntime, JoinEnding,
             Launch, Bind, OpenStream, StopSignal, StopJoin, UseRuntime,
             ReleaseGate, Fail, Leave, At, Served, Failing, Publishing
    <3>3. CASE pc[p] \notin Decided
      BY <1>1, <3>2, <3>3 DEF VerdictInv, Verdict
    <3>4. CASE ReleaseGate(p)
      <4>1. pc'[p] = "answered" /\ answer' = answer
        BY <2>1, <3>4 DEF ReleaseGate, At
      <4> QED BY <1>1, <3>2, <4>1 DEF VerdictInv, Verdict, Decided, NotStored
    <3> QED BY <3>1, <3>3, <3>4
  <2> QED BY <2>2, <2>3
<1> QED BY <1>1, <1>3 DEF VerdictInv

\* The settlement of a turn: the commit decides what may be seen, the claim what
\* is answered.
LEMMA TurnVerdicts ==
  ASSUME TypeOK, GateExclusive, VerdictInv, [Next]_vars, NEW p \in Prompts,
         TurnStep(p)
  PROVE  VerdictInv'
<1> USE DEF TypeOK, RequestTypes, ForegroundTypes
<1>1. UNCHANGED <<closePc, closeTurn, cancelled>> /\ p \in Ops
  BY DEF TurnStep, InstallTurn, Dispatch, AcceptTurn, AbortExpires,
         BeginSettlement, CommitTurn, SignalTurnRuntime, DropTurnRuntime,
         FenceLostTransport, ClaimTurn, PublishTurnIdle, Unwind, closeVars,
         fgVars, Ops
<1>2. /\ dirty' \subseteq dirty
      /\ \A q \in Prompts : ended[q] = "settled" => ended'[q] = "settled"
  BY DEF TurnStep, InstallTurn, Dispatch, AcceptTurn, AbortExpires,
         BeginSettlement, CommitTurn, SignalTurnRuntime, DropTurnRuntime,
         FenceLostTransport, ClaimTurn, PublishTurnIdle, Unwind, fgVars,
         pubVars, CommitOk, CommitFails, Settle
<1>3. ASSUME NEW q \in Prompts, q # p PROVE Verdict(q)'
  <2>1. q \in Ops
    BY DEF Ops
  <2>2. pc'[q] = pc[q] /\ answer'[q] = answer[q] /\ terminal'[q] = terminal[q]
    BY <1>3, <2>1
       DEF TurnStep, InstallTurn, Dispatch, AcceptTurn, AbortExpires,
           BeginSettlement, CommitTurn, SignalTurnRuntime, DropTurnRuntime,
           FenceLostTransport, ClaimTurn, PublishTurnIdle, Unwind, opVars,
           fgVars, Leave, At, Foregrounds
  <2> QED
    BY <1>1, <1>2, <2>2, TurnStream, VerdictKept DEF VerdictInv, Stored
<1>4. Verdict(p)'
  <2> USE <1>1 DEF VerdictInv, Verdict, Failing, Publishing, Decided, NotStored,
                   Stored
  <2>1. CASE InstallTurn(p) \/ Dispatch(p) \/ AcceptTurn(p) \/ AbortExpires(p)
             \/ BeginSettlement(p)
    BY <2>1 DEF InstallTurn, Dispatch, AcceptTurn, AbortExpires,
                BeginSettlement, Leave, At, opVars, fgVars
  <2>2. CASE CommitTurn(p)
    BY <2>2 DEF CommitTurn, CommitOk, CommitFails, Fence, fgVars
  <2>3. CASE SignalTurnRuntime(p) \/ DropTurnRuntime(p)
    BY <2>3 DEF SignalTurnRuntime, DropTurnRuntime, At, fgVars, pubVars
  <2>4. CASE FenceLostTransport(p)
    BY <2>4 DEF FenceLostTransport, Fence, At, fgVars
  <2>5. CASE ClaimTurn(p)
    BY <2>5 DEF ClaimTurn, Foregrounds, pubVars
  <2>6. CASE PublishTurnIdle(p) \/ Unwind(p)
    BY <2>6 DEF PublishTurnIdle, Unwind, At, fgVars, pubVars
  <2> QED BY <2>1, <2>2, <2>3, <2>4, <2>5, <2>6 DEF TurnStep
<1> QED BY <1>1, <1>3, <1>4 DEF VerdictInv

\* A pump adds no rows to a turn that is settled, and settles it once.
LEMMA PumpVerdicts ==
  ASSUME TypeOK, SettlesCycle, VerdictInv, NEW g \in Gens,
         PumpStep(g) \/ ReadFails(g) \/ Emit(g) \/ Exit(g)
  PROVE  VerdictInv'
<1> USE DEF TypeOK, ForegroundTypes
<1>1. UNCHANGED <<pc, answer, cancelled, closePc, closeTurn>>
  BY DEF PumpStep, ReadFails, Emit, Exit, PumpTake, OpenCycle, LoseCycle, Apply,
         FinishDelivery, CommitCycle, SignalCycleRuntime, DropCycleRuntime,
         ClaimCycle, PublishCycleIdle, ClearCycle, DrainRuntime, EndForeground,
         RetireRuntime, Release, RuntimeEnded, opVars, fgVars, closeVars
<1>2. ASSUME NEW p \in Prompts
      PROVE  /\ ended[p] = "settled" => ended'[p] = "settled"
             /\ Stored(p) => Ephemeral \/ p \notin dirty'
             /\ terminal'[p] = terminal[p]
  <2>1. CASE Apply(g)
    BY <2>1 DEF Apply, Settle, Stored, fgVars
  <2>2. CASE ClaimCycle(g)
    <3>1. held[g] # p
      BY <2>2, CyclesApart
         DEF ClaimCycle, PumpAt, SettlesCycle, CycleStages, Settlement
    <3> QED BY <2>2, <3>1 DEF ClaimCycle, Foregrounds, fgVars, pubVars, Stored
  <2>3. CASE EndForeground(g)
    BY <2>3 DEF EndForeground, Settle, Stored
  <2>4. CASE CommitCycle(g)
    BY <2>4 DEF CommitCycle, CommitOk, CommitFails, Stored, fgVars
  <2>5. CASE UNCHANGED <<ended, terminal, dirty>>
    BY <2>5 DEF Stored
  <2> QED
    BY <2>1, <2>2, <2>3, <2>4, <2>5
       DEF PumpStep, ReadFails, Emit, Exit, PumpTake, OpenCycle, LoseCycle,
           FinishDelivery, SignalCycleRuntime, DropCycleRuntime,
           PublishCycleIdle, ClearCycle, DrainRuntime, RetireRuntime, Release,
           RuntimeEnded, fgVars, pubVars
<1>3. ASSUME NEW p \in Prompts PROVE Verdict(p)'
  BY <1>1, <1>2, PumpStream, VerdictKept DEF VerdictInv
<1> QED BY <1>1, <1>3 DEF VerdictInv

\* A close cancels the turn it finds without looking at its verdict, and takes
\* it over; nothing else cancels a turn that is decided.
LEMMA CloseVerdicts ==
  ASSUME TypeOK, VerdictInv,
         Cancel \/ (\E i \in callbacks : Abort(i)) \/ BeginClose \/ CloseStep
  PROVE  VerdictInv'
<1> USE DEF TypeOK, RequestTypes, ForegroundTypes, CloseTypes
<1>1. UNCHANGED <<pc, answer, ended, terminal>> /\ dirty' \subseteq dirty
  BY DEF Cancel, Abort, BeginClose, CloseStep, CloseAbort, CloseStop,
         CloseJoinPump, CloseCommit, CloseFence, CommitOk, CommitFails, opVars,
         fgVars, pubVars
<1>2. closePc' = "none" => closeTurn' = None
  BY DEF Cancel, Abort, BeginClose, CloseStep, CloseAbort, CloseStop,
         CloseJoinPump, CloseCommit, CloseFence, CloseAt, closeVars, VerdictInv
<1>3. ASSUME NEW p \in Prompts
      PROVE  terminal[p] /\ cancelled'[p] /\ closeTurn' # p =>
               cancelled[p] /\ closeTurn # p
  <2>1. CASE Cancel
    BY <2>1 DEF Cancel, Cancellable, closeVars, Foregrounds
  <2>2. CASE BeginClose
    <3>1. closeTurn # p
      BY <2>2, NamesAssumption DEF BeginClose, CloseAt, VerdictInv, Ops
    <3> QED BY <2>2, <3>1 DEF BeginClose, Foregrounds
  <2>3. CASE (\E i \in callbacks : Abort(i)) \/ CloseStep
    BY <2>3 DEF Abort, CloseStep, CloseAbort, CloseStop, CloseJoinPump,
                CloseCommit, CloseFence, closeVars, fgVars
  <2> QED BY <2>1, <2>2, <2>3
<1>4. ASSUME NEW p \in Prompts PROVE Verdict(p)'
  BY <1>1, <1>3, CloseStream, VerdictKept DEF VerdictInv, Stored
<1> QED BY <1>2, <1>4 DEF VerdictInv

\* Every step keeps the verdicts.
LEMMA VerdictStep ==
  ASSUME TypeOK, GateExclusive, SettlesCycle, VerdictInv, [Next]_vars
  PROVE  VerdictInv'
<1>1. ASSUME UNCHANGED <<pc, answer, ended, terminal, cancelled, closePc,
                         closeTurn>>,
             dirty' \subseteq dirty, 
             \A p \in Prompts :
               pc[p] \in Failing \cup Publishing => StreamKeptOrFenced
      PROVE  VerdictInv'
  <2>1. ASSUME NEW p \in Prompts PROVE Verdict(p)'
    BY <1>1, VerdictKept DEF VerdictInv, Stored
  <2> QED BY <1>1, <2>1 DEF VerdictInv
<1>2. CASE UNCHANGED vars
  BY <1>1, <1>2
     DEF vars, opVars, fgVars, pubVars, closeVars, StreamKeptOrFenced
<1>3. CASE EstablishCommit \/ EstablishOpen
  <2>1. /\ UNCHANGED <<answer, ended, terminal, cancelled, closePc, closeTurn>>
        /\ dirty' \subseteq dirty
    BY <1>3 DEF EstablishCommit, EstablishOpen, CommitOk, CommitFails, fgVars,
                closeVars
  <2>2. ASSUME NEW p \in Prompts PROVE Verdict(p)'
    <3>1. pc'[p] = pc[p]
      BY <1>3, NamesAssumption
         DEF EstablishCommit, EstablishOpen, TypeOK, RequestTypes, Ops
    <3>2. pc[p] \in Failing \cup Publishing => StreamKeptOrFenced
      BY StreamWhileHeld DEF Failing, Publishing, Outside
    <3> QED BY <2>1, <3>1, <3>2, VerdictKept DEF VerdictInv, Stored
  <2> QED BY <2>1, <2>2 DEF VerdictInv
<1>4. ASSUME NEW o \in Prompts \cup Reads, AcquireGate(o) \/ RequestStep(o)
      PROVE  VerdictInv'
  BY <1>4, RequestVerdicts DEF Ops
<1>5. ASSUME NEW p \in Prompts, TurnStep(p) PROVE VerdictInv'
  BY <1>5, TurnVerdicts
<1>6. CASE Cancel \/ (\E i \in callbacks : Abort(i)) \/ BeginClose \/ CloseStep
  BY <1>6, CloseVerdicts
<1>7. ASSUME NEW g \in Gens, PumpStep(g) \/ ReadFails(g) \/ Emit(g) \/ Exit(g)
      PROVE  VerdictInv'
  BY <1>7, PumpVerdicts
<1> QED BY <1>2, <1>3, <1>4, <1>5, <1>6, <1>7 DEF Next

-----------------------------------------------------------------------------
(* The terminal idles.                                                     *)

\* The three who end a cycle: the pump that settled it, the end of its runtime, and
\* the ladder.
CycleEnds(c) ==
  \/ \E g \in Gens : PublishCycleIdle(g) /\ held[g] = c
  \/ \E g \in Gens : EndForeground(g) /\ held[g] = c
  \/ CloseFence /\ closePc = "cycle" /\ cycle = c

\* An idle that becomes visible does so on the open incarnation, for a turn whose
\* prompt publishes its answer or for a cycle that ends.
LEMMA NewTerminals ==
  ASSUME TypeOK, SettlesCycle, [Next]_vars, NEW t \in terminals',
         t \notin terminals
  PROVE  /\ stream # NoGen /\ t.inc = stream
         /\ \/ \E p \in Prompts :
                 /\ PublishTurnIdle(p)
                 /\ t.fg = p /\ t.outcome = answer[p] /\ t.durable = (p \notin dirty)
            \/ t.fg \in Cycles /\ CycleEnds(t.fg)
<1> USE DEF PublishIdle
<1>1. CASE UNCHANGED vars
  BY <1>1 DEF vars, pubVars
<1>2. CASE EstablishCommit \/ EstablishOpen
  BY <1>2 DEF EstablishCommit, EstablishOpen
<1>3. ASSUME NEW o \in Prompts \cup Reads, AcquireGate(o) \/ RequestStep(o)
      PROVE  FALSE
  BY <1>3 DEF AcquireGate, RequestStep, CheckBusy, EnsureRuntime, JoinEnding,
              Launch, Bind, OpenStream, StopSignal, StopJoin, UseRuntime,
              ReleaseGate, pubVars
<1>4. ASSUME NEW p \in Prompts, TurnStep(p)
      PROVE  /\ PublishTurnIdle(p) /\ stream # NoGen /\ t.inc = stream
             /\ t.fg = p /\ t.outcome = answer[p] /\ t.durable = (p \notin dirty)
  <2>1. CASE PublishTurnIdle(p)
    BY <2>1 DEF PublishTurnIdle
  <2> QED
    BY <1>4, <2>1
       DEF TurnStep, InstallTurn, Dispatch, AcceptTurn, AbortExpires,
           BeginSettlement, CommitTurn, SignalTurnRuntime, DropTurnRuntime,
           FenceLostTransport, ClaimTurn, Unwind, pubVars
<1>5. CASE Cancel \/ (\E i \in callbacks : Abort(i)) \/ BeginClose
  BY <1>5 DEF Cancel, Abort, BeginClose, pubVars
<1>6. CASE CloseStep
  <2>1. CASE CloseFence
    <3>1. cycle # None => cycle \in Cycles
      BY DEF TypeOK, RequestTypes
    <3> QED BY <2>1, <3>1 DEF CloseFence, CycleEnds
  <2> QED
    BY <1>6, <2>1 DEF CloseStep, CloseAbort, CloseStop, CloseJoinPump,
                      CloseCommit, pubVars
<1>7. ASSUME NEW g \in Gens, PumpStep(g) \/ ReadFails(g) \/ Emit(g) \/ Exit(g)
      PROVE  /\ stream # NoGen /\ t.inc = stream
             /\ t.fg \in Cycles /\ CycleEnds(t.fg)
  <2>1. CASE PublishCycleIdle(g)
    <3>1. held[g] \in Cycles
      BY <2>1 DEF PublishCycleIdle, PumpAt, SettlesCycle, CycleStages, Settlement
    <3>2. stream # NoGen /\ t.inc = stream /\ t.fg = held[g]
      BY <2>1 DEF PublishCycleIdle
    <3> QED BY <2>1, <3>1, <3>2 DEF CycleEnds
  <2>2. CASE EndForeground(g)
    BY <2>2 DEF EndForeground, EndsWithRuntime, CycleEnds
  <2> QED
    BY <1>7, <2>1, <2>2
       DEF PumpStep, ReadFails, Emit, Exit, PumpTake, OpenCycle, LoseCycle,
           Apply, FinishDelivery, CommitCycle, SignalCycleRuntime,
           DropCycleRuntime, ClaimCycle, ClearCycle, DrainRuntime,
           RetireRuntime, Release, RuntimeEnded, pubVars
<1> QED
  BY <1>1, <1>2, <1>3, <1>4, <1>5, <1>6, <1>7 DEF Next

\* What a turn's idle may say.
LEMMA DurableStep ==
  ASSUME TypeOK, SettlesCycle, VerdictInv, DurableTurns, [Next]_vars
  PROVE  DurableTurns'
<1> SUFFICES ASSUME NEW t \in terminals', t.fg \in Prompts,
                    t.outcome # "failed", ~Ephemeral
             PROVE  t.durable
  BY DEF DurableTurns
<1>1. CASE t \in terminals
  BY <1>1 DEF DurableTurns
<1>2. CASE t \notin terminals
  <2>1. t.fg \notin Cycles
    BY CyclesApart
  <2>2. PICK p \in Prompts : PublishTurnIdle(p) /\ t.durable = (p \notin dirty)
    BY <1>2, <2>1, NewTerminals
  <2>3. stream # NoGen /\ pc[p] = "publishing"
    BY <1>2, <2>2, NewTerminals DEF PublishTurnIdle, At
  <2> QED BY <2>2, <2>3 DEF VerdictInv, Verdict, Publishing, Stored
<1> QED BY <1>1, <1>2

\* The verdicts hold in every behaviour.
LEMMA VerdictsHold == Spec => [](SettlesCycle /\ VerdictInv)
<1>1. Init => SettlesCycle /\ VerdictInv
  BY DEF Init, SettlesCycle, CycleStages, Settlement, VerdictInv, Verdict,
         Failing, Publishing, Ops, Foregrounds
<1> QED
  BY <1>1, TypeInvariant, GateIsExclusive, SettlesStep, VerdictStep, PTL
     DEF Spec

\* A turn's idle that does not say failed stands for rows the store has: the commit
\* that failed and the transport that was lost fence the incarnation first, and
\* nobody opens another before the prompt gives up the gate.
THEOREM TurnsAreDurable == Spec => []DurableTurns
<1>1. Init => DurableTurns
  BY DEF Init, DurableTurns
<1> QED BY <1>1, TypeCorrect, VerdictsHold, DurableStep, PTL DEF Spec

\* A turn cancelled before its verdict was fixed answers cancelled, or failed when
\* the store refused its rows: the claim, which reads the flag under the lock,
\* cannot be overtaken by a cancellation that was accepted.
THEOREM CancellationsAreHonoured == Spec => []CancelHonoured
<1>1. VerdictInv => CancelHonoured
  BY DEF VerdictInv, Verdict, NotStored, CancelHonoured
<1> QED BY <1>1, VerdictsHold, PTL

-----------------------------------------------------------------------------
(* The generation of the open incarnation.                                 *)

\* claude has written nothing on this generation, and has nothing to run.
Silent(g) == out[g] = <<>> /\ runs[g] = <<>>

\* Where a request works with a process whose incarnation is not open yet.
Unopened == {"binding", "configuring", "stopping", "stopJoin"}

\* The first commit is still to come, or failed.
Unstored == ~persisted /\ ~Ephemeral

\* The host may address the session only after its establishment; what is closing
\* stays closing.
AddressedOpen ==
  /\ \A o \in Prompts \cup Reads : pc[o] # "idle" => Opened
  /\ closing <=> closePc # "none"

\* The incarnation of a generation opens once, after its launch.
FreshStream ==
  /\ \A o \in Ops : pc[o] \in Unopened => stream # bound[o]
  /\ pc[Establish] \in {"commit", "open"} => stream = NoGen
  /\ stream \in 0..gens

\* A process says nothing before its incarnation opens.
SilentFirst ==
  /\ \A g \in Gens : g > gens => Silent(g)
  /\ \A o \in Ops : pc[o] \in Unopened => Silent(bound[o])

\* Nothing at all is said before the first commit and the opening.
SilentUnstored ==
  /\ Unstored => pc[Establish] \in {"commit", "abandoned"}
  /\ Unstored \/ pc[Establish] \in {"commit", "open"} =>
       stream = NoGen /\ \A g \in Gens : Silent(g)

\* The open incarnation is that of the bound runtime, but on a closing session; a
\* settlement that gives up a generation has fenced it.
StreamOfRuntime ==
  /\ stream # NoGen => closing \/ runtime = stream
  /\ \A g \in Gens : pump[g] \in {"signalling", "dropping"} => stream # g

OpeningInv == SilentFirst /\ SilentUnstored /\ StreamOfRuntime

\* A silent generation stays silent until its incarnation opens or a prompt is
\* dispatched to it.
LEMMA StaysSilent ==
  ASSUME EarlyWork = FALSE, TypeOK, PumpHolds, [Next]_vars, NEW g \in Gens,
         Silent(g), stream # g,
         \A p \in Prompts :
           pc[p] = "dispatching" => bound[p] # g \/ proc[g] # "running"
  PROVE  Silent(g)'
<1> USE DEF Silent, TypeOK, RuntimeTypes
<1>1. CASE UNCHANGED <<out, runs>>
  BY <1>1
<1>2. CASE UNCHANGED vars
  BY <1>1, <1>2 DEF vars, nativeVars
<1>3. CASE EstablishCommit \/ EstablishOpen
  BY <1>1, <1>3 DEF EstablishCommit, EstablishOpen, nativeVars
<1>4. ASSUME NEW o \in Prompts \cup Reads, AcquireGate(o) \/ RequestStep(o)
      PROVE  Silent(g)'
  BY <1>1, <1>4
     DEF AcquireGate, RequestStep, CheckBusy, EnsureRuntime, JoinEnding, Launch,
         Bind, OpenStream, StopSignal, StopJoin, UseRuntime, ReleaseGate,
         nativeVars
<1>5. ASSUME NEW p \in Prompts, TurnStep(p) PROVE Silent(g)'
  <2>1. CASE Dispatch(p)
    BY <2>1 DEF Dispatch
  <2> QED
    BY <1>1, <1>5, <2>1
       DEF TurnStep, InstallTurn, AcceptTurn, AbortExpires, BeginSettlement,
           CommitTurn, SignalTurnRuntime, DropTurnRuntime, FenceLostTransport,
           ClaimTurn, PublishTurnIdle, Unwind, nativeVars
<1>6. CASE Cancel \/ (\E i \in callbacks : Abort(i)) \/ BeginClose \/ CloseStep
  BY <1>1, <1>6
     DEF Cancel, Abort, BeginClose, CloseStep, CloseAbort, CloseStop,
         CloseJoinPump, CloseCommit, CloseFence, nativeVars
<1>7. ASSUME NEW h \in Gens, PumpStep(h) \/ ReadFails(h) \/ Emit(h) \/ Exit(h)
      PROVE  Silent(g)'
  <2>1. CASE Emit(h)
    <3>1. h # g
      BY <2>1 DEF Emit
    <3> QED BY <2>1, <3>1 DEF Emit, Write
  <2>2. CASE PumpStep(h) /\ h # g
    BY <2>2
       DEF PumpStep, PumpTake, OpenCycle, LoseCycle, Apply, FinishDelivery,
           CommitCycle, SignalCycleRuntime, DropCycleRuntime, ClaimCycle,
           PublishCycleIdle, ClearCycle, DrainRuntime, EndForeground,
           RetireRuntime, Release, RuntimeEnded, Routed, nativeVars
  <2>3. CASE PumpStep(g)
    <3>1. pump[g] \notin Holders \cup {"opening"}
      BY DEF PumpHolds
    <3> QED
      BY <2>3, <3>1
         DEF Holders, PumpStep, PumpTake, OpenCycle, LoseCycle, Apply, CycleLost,
             FinishDelivery, CommitCycle, SignalCycleRuntime, DropCycleRuntime,
             ClaimCycle, PublishCycleIdle, ClearCycle, DrainRuntime,
             EndForeground, RetireRuntime, Release, RuntimeEnded, PumpAt,
             nativeVars
  <2> QED
    BY <1>1, <1>7, <2>1, <2>2, <2>3 DEF ReadFails, RuntimeEnded, Exit, nativeVars
<1> QED
  BY <1>2, <1>3, <1>4, <1>5, <1>6, <1>7 DEF Next

\* What a step may do to the requests and to the gate of the first one.
LEMMA AddressedStep ==
  ASSUME TypeOK, AddressedOpen, [Next]_vars
  PROVE  AddressedOpen'
<1> USE NamesAssumption DEF AddressedOpen, Opened, TypeOK, RequestTypes, Ops
<1>1. CASE UNCHANGED <<pc, closing, closePc>>
  BY <1>1
<1>2. CASE UNCHANGED vars
  BY <1>1, <1>2 DEF vars, opVars, sessionVars, closeVars
<1>3. CASE EstablishCommit \/ EstablishOpen
  <2>1. /\ pc[Establish] # "answered" /\ UNCHANGED <<closing, closePc>>
        /\ \A o \in Prompts \cup Reads : pc'[o] = pc[o]
    BY <1>3 DEF EstablishCommit, EstablishOpen, sessionVars, closeVars
  <2> QED BY <2>1
<1>4. ASSUME NEW o \in Prompts \cup Reads, AcquireGate(o) \/ RequestStep(o)
      PROVE  AddressedOpen'
  <2>1. /\ pc[o] # "idle" \/ Opened
        /\ \A q \in Ops \ {o} : pc'[q] = pc[q]
    BY <1>4
       DEF AcquireGate, RequestStep, CheckBusy, EnsureRuntime, JoinEnding,
           Launch, Bind, OpenStream, StopSignal, StopJoin, UseRuntime,
           ReleaseGate, Fail, Leave, At, sessionVars, closeVars
  <2>2. UNCHANGED <<closing, closePc>>
    BY <1>4
       DEF AcquireGate, RequestStep, CheckBusy, EnsureRuntime, JoinEnding,
           Launch, Bind, OpenStream, StopSignal, StopJoin, UseRuntime,
           ReleaseGate, sessionVars, closeVars
  <2> QED BY <2>1, <2>2
<1>5. ASSUME NEW p \in Prompts, TurnStep(p) PROVE AddressedOpen'
  <2>1. UNCHANGED <<closing, closePc>>
    BY <1>5
       DEF TurnStep, InstallTurn, Dispatch, AcceptTurn, AbortExpires,
           BeginSettlement, CommitTurn, SignalTurnRuntime, DropTurnRuntime,
           FenceLostTransport, ClaimTurn, PublishTurnIdle, Unwind, sessionVars,
           closeVars
  <2> QED BY <1>5, <2>1, TurnFootprint DEF Outside
<1>6. CASE Cancel \/ (\E i \in callbacks : Abort(i)) \/ BeginClose \/ CloseStep
  BY <1>6
     DEF Cancel, Abort, BeginClose, CloseStep, CloseAbort, CloseStop,
         CloseJoinPump, CloseCommit, CloseFence, CloseAt, opVars, sessionVars,
         closeVars
<1>7. ASSUME NEW g \in Gens, PumpStep(g) \/ ReadFails(g) \/ Emit(g) \/ Exit(g)
      PROVE  AddressedOpen'
  <2>1. UNCHANGED closePc
    BY <1>7
       DEF PumpStep, ReadFails, Emit, Exit, PumpTake, OpenCycle, LoseCycle,
           Apply, FinishDelivery, CommitCycle, SignalCycleRuntime,
           DropCycleRuntime, ClaimCycle, PublishCycleIdle, ClearCycle,
           DrainRuntime, EndForeground, RetireRuntime, Release, RuntimeEnded,
           closeVars
  <2> QED BY <1>1, <1>7, <2>1, PumpFootprint
<1> QED
  BY <1>2, <1>3, <1>4, <1>5, <1>6, <1>7 DEF Next

\* Whoever has a process that runs has one that was launched.
LEMMA RunningLaunched ==
  ASSUME TypeOK, ProcessInv, NEW g \in Gens, proc[g] = "running"
  PROVE  g \in 0..gens
BY DEF TypeOK, RuntimeTypes, ProcessInv, GoneIsUnbound, Gens

\* A stream opens for the generation its request configured, or for the first one.
Opens(o) ==
  /\ pc[o] = "configuring" /\ pc'[o] \notin Unopened
  /\ Openable(bound[o]) /\ stream' = bound[o] /\ UNCHANGED <<runtime, pump>>

OpensFirst ==
  /\ pc[Establish] = "open" /\ pc'[Establish] # "open"
  /\ Openable(1) /\ stream' = 1 /\ UNCHANGED <<runtime, pump>>

LEMMA StreamMoves ==
  ASSUME TypeOK, [Next]_vars
  PROVE  \/ StreamKeptOrFenced
         \/ \E o \in Prompts \cup Reads : Opens(o)
         \/ OpensFirst
<1>1. CASE UNCHANGED vars
  BY <1>1 DEF vars, pubVars, StreamKeptOrFenced
<1>2. CASE EstablishCommit \/ EstablishOpen
  BY <1>2 DEF EstablishCommit, EstablishOpen, TypeOK, RequestTypes, Ops,
              sessionVars, pumpVars, StreamKeptOrFenced, OpensFirst
<1>3. ASSUME NEW o \in Prompts \cup Reads, AcquireGate(o) \/ RequestStep(o)
      PROVE  StreamKeptOrFenced \/ Opens(o)
  <2>1. o \in Ops
    BY DEF Ops
  <2>2. CASE OpenStream(o)
    BY <2>1, <2>2
       DEF OpenStream, Fail, Leave, Served, TypeOK, RequestTypes, Opens,
           Unopened, StreamKeptOrFenced, sessionVars, pumpVars
  <2> QED
    BY <1>3, <2>2
       DEF AcquireGate, RequestStep, CheckBusy, EnsureRuntime, JoinEnding,
           Launch, Bind, StopSignal, StopJoin, UseRuntime, ReleaseGate, pubVars,
           StreamKeptOrFenced
<1> QED
  BY <1>1, <1>2, <1>3, TurnStream, PumpStream, CloseStream DEF Next

\* A request comes to work with a process by launching it, and keeps to that one.
LEMMA UnopenedMove ==
  ASSUME TypeOK, [Next]_vars, NEW o \in Ops, pc'[o] \in Unopened
  PROVE  \/ pc[o] \in Unopened /\ bound'[o] = bound[o]
         \/ /\ pc[o] = "launching" /\ bound'[o] = gens + 1
            /\ gens' = gens + 1 /\ stream' = stream /\ o # Establish
<1> USE DEF TypeOK, RequestTypes, Unopened
<1>1. CASE pc'[o] = pc[o] /\ bound'[o] = bound[o]
  BY <1>1
<1>2. CASE UNCHANGED vars
  BY <1>1, <1>2 DEF vars, opVars
<1>3. CASE EstablishCommit \/ EstablishOpen
  BY <1>1, <1>3, NamesAssumption DEF EstablishCommit, EstablishOpen, Ops
<1>4. ASSUME NEW q \in Prompts \cup Reads, AcquireGate(q) \/ RequestStep(q)
      PROVE  \/ pc[o] \in Unopened /\ bound'[o] = bound[o]
             \/ /\ pc[o] = "launching" /\ bound'[o] = gens + 1
                /\ gens' = gens + 1 /\ stream' = stream /\ o # Establish
  <2>1. q \in Ops /\ q # Establish
    BY NamesAssumption DEF Ops
  <2>2. CASE q # o
    BY <1>4, <2>1, <2>2
       DEF AcquireGate, RequestStep, CheckBusy, EnsureRuntime, JoinEnding,
           Launch, Bind, OpenStream, StopSignal, StopJoin, UseRuntime,
           ReleaseGate, Fail, Leave, At
  <2>3. CASE q = o /\ Launch(o)
    BY <2>1, <2>3 DEF Launch, Fail, Leave, pubVars
  <2>4. CASE q = o /\ (Bind(o) \/ OpenStream(o) \/ StopSignal(o) \/ StopJoin(o))
    BY <2>1, <2>4 DEF Bind, OpenStream, StopSignal, StopJoin, Fail, Leave,
                      Served, At
  <2>5. CASE q = o /\ (AcquireGate(o) \/ CheckBusy(o) \/ EnsureRuntime(o)
                        \/ JoinEnding(o) \/ UseRuntime(o) \/ ReleaseGate(o))
    BY <2>1, <2>5
       DEF AcquireGate, CheckBusy, EnsureRuntime, JoinEnding, UseRuntime,
           ReleaseGate, Fail, Leave, Served, At
  <2> QED BY <1>4, <2>2, <2>3, <2>4, <2>5 DEF RequestStep
<1>5. ASSUME NEW p \in Prompts, TurnStep(p)
      PROVE  pc'[o] = pc[o] /\ bound'[o] = bound[o]
  <2>1. bound' = bound /\ (pc'[p] \in Unopened => pc'[p] = pc[p])
    BY <1>5
       DEF TurnStep, InstallTurn, Dispatch, AcceptTurn, AbortExpires,
           BeginSettlement, CommitTurn, SignalTurnRuntime, DropTurnRuntime,
           FenceLostTransport, ClaimTurn, PublishTurnIdle, Unwind, Leave, At,
           opVars, Ops
  <2> QED BY <1>5, <2>1, TurnFootprint
<1>6. CASE Cancel \/ (\E i \in callbacks : Abort(i)) \/ BeginClose \/ CloseStep
  BY <1>1, <1>6
     DEF Cancel, Abort, BeginClose, CloseStep, CloseAbort, CloseStop,
         CloseJoinPump, CloseCommit, CloseFence, opVars
<1> QED
  BY <1>1, <1>2, <1>3, <1>4, <1>5, <1>6, PumpFootprint DEF Next

\* Generations are only added.
LEMMA GensGrow == ASSUME TypeOK, [Next]_vars PROVE gens' \in {gens, gens + 1}
<1>1. CASE UNCHANGED vars
  BY <1>1 DEF vars, nativeVars
<1>2. CASE EstablishCommit \/ EstablishOpen
  BY <1>2 DEF EstablishCommit, EstablishOpen, nativeVars
<1>3. ASSUME NEW o \in Prompts \cup Reads, AcquireGate(o) \/ RequestStep(o)
      PROVE  gens' \in {gens, gens + 1}
  BY <1>3
     DEF AcquireGate, RequestStep, CheckBusy, EnsureRuntime, JoinEnding, Launch,
         Bind, OpenStream, StopSignal, StopJoin, UseRuntime, ReleaseGate, nativeVars
<1>4. ASSUME NEW p \in Prompts, TurnStep(p) PROVE UNCHANGED gens
  BY <1>4
     DEF TurnStep, InstallTurn, Dispatch, AcceptTurn, AbortExpires,
         BeginSettlement, CommitTurn, SignalTurnRuntime, DropTurnRuntime,
         FenceLostTransport, ClaimTurn, PublishTurnIdle, Unwind, nativeVars
<1>5. ASSUME NEW g \in Gens, PumpStep(g) \/ ReadFails(g) \/ Emit(g) \/ Exit(g)
      PROVE  UNCHANGED gens
  BY <1>5
     DEF PumpStep, ReadFails, Emit, Exit, PumpTake, OpenCycle, LoseCycle, Apply,
         FinishDelivery, CommitCycle, SignalCycleRuntime, DropCycleRuntime,
         ClaimCycle, PublishCycleIdle, ClearCycle, DrainRuntime, EndForeground,
         RetireRuntime, Release, RuntimeEnded, nativeVars
<1>6. CASE Cancel \/ (\E i \in callbacks : Abort(i)) \/ BeginClose \/ CloseStep
  BY <1>6
     DEF Cancel, Abort, BeginClose, CloseStep, CloseAbort, CloseStop,
         CloseJoinPump, CloseCommit, CloseFence, nativeVars
<1> QED BY <1>1, <1>2, <1>3, <1>4, <1>5, <1>6 DEF Next

\* The establishment commits before it opens, and nothing stored is forgotten.
LEMMA EstablishMoves ==
  ASSUME TypeOK, [Next]_vars
  PROVE  /\ persisted => persisted'
         /\ \/ pc'[Establish] = pc[Establish]
            \/ /\ pc[Establish] = "commit"
               /\ \/ pc'[Establish] = "open" /\ ~Unstored'
                  \/ pc'[Establish] = "abandoned"
            \/ pc[Establish] = "open" /\ pc'[Establish] \in {"answered", "abandoned"}
<1> USE DEF TypeOK, RequestTypes, CommitOk, CommitFails
<1>1. Establish \in Ops /\ Establish \notin Prompts \cup Reads
  BY NamesAssumption DEF Ops
<1>2. CASE UNCHANGED vars
  BY <1>2 DEF vars, opVars, sessionVars
<1>3. CASE EstablishCommit \/ EstablishOpen
  BY <1>1, <1>3 DEF EstablishCommit, EstablishOpen, Unstored, sessionVars
<1>4. ASSUME NEW o \in Prompts \cup Reads, AcquireGate(o) \/ RequestStep(o)
      PROVE  (persisted => persisted') /\ pc'[Establish] = pc[Establish]
  BY <1>1, <1>4
     DEF AcquireGate, RequestStep, CheckBusy, EnsureRuntime, JoinEnding, Launch,
         Bind, OpenStream, StopSignal, StopJoin, UseRuntime, ReleaseGate, Fail,
         Leave, At, sessionVars
<1>5. ASSUME NEW p \in Prompts, TurnStep(p)
      PROVE  (persisted => persisted') /\ pc'[Establish] = pc[Establish]
  <2>1. persisted => persisted'
    BY <1>5
       DEF TurnStep, InstallTurn, Dispatch, AcceptTurn, AbortExpires,
           BeginSettlement, CommitTurn, SignalTurnRuntime, DropTurnRuntime,
           FenceLostTransport, ClaimTurn, PublishTurnIdle, Unwind, sessionVars
  <2> QED BY <1>1, <1>5, <2>1, TurnFootprint
<1>6. CASE Cancel \/ (\E i \in callbacks : Abort(i)) \/ BeginClose \/ CloseStep
  BY <1>6
     DEF Cancel, Abort, BeginClose, CloseStep, CloseAbort, CloseStop,
         CloseJoinPump, CloseCommit, CloseFence, opVars, sessionVars
<1>7. ASSUME NEW g \in Gens, PumpStep(g) \/ ReadFails(g) \/ Emit(g) \/ Exit(g)
      PROVE  (persisted => persisted') /\ pc'[Establish] = pc[Establish]
  <2>1. persisted => persisted'
    BY <1>7
       DEF PumpStep, ReadFails, Emit, Exit, PumpTake, OpenCycle, LoseCycle,
           Apply, FinishDelivery, CommitCycle, SignalCycleRuntime,
           DropCycleRuntime, ClaimCycle, PublishCycleIdle, ClearCycle,
           DrainRuntime, EndForeground, RetireRuntime, Release, RuntimeEnded,
           sessionVars
  <2> QED BY <1>7, <2>1, PumpFootprint
<1> QED
  BY <1>2, <1>3, <1>4, <1>5, <1>6, <1>7 DEF Next

\* An incarnation opens once.
LEMMA FreshStep ==
  ASSUME TypeOK, GateExclusive, ProcessInv, AddressedOpen, FreshStream,
         [Next]_vars
  PROVE  FreshStream'
<1> USE DEF TypeOK, RequestTypes, RuntimeTypes, FreshStream
<1>1. gens' \in {gens, gens + 1} /\ gens \in Nat /\ NoGen \notin Gens
      /\ Gens \subseteq Nat
  BY GensGrow DEF Gens, NoGen
<1>2. stream' \in 0..gens'
  <2>1. CASE StreamKeptOrFenced
    BY <1>1, <2>1 DEF StreamKeptOrFenced, NoGen
  <2>2. ASSUME NEW o \in Prompts \cup Reads, Opens(o) PROVE stream' \in 0..gens'
    <3>1. bound[o] \in Gens /\ proc[bound[o]] = "running"
      BY <2>2 DEF Opens, Openable, ProcessInv, BoundToOne, OnRuntime, Ops
    <3>2. bound[o] \in 0..gens
      BY <3>1, RunningLaunched
    <3> QED BY <1>1, <2>2, <3>2 DEF Opens
  <2>3. CASE OpensFirst
    BY <1>1, <2>3 DEF OpensFirst, Gens
  <2> QED BY <2>1, <2>2, <2>3, StreamMoves
<1>3. ASSUME NEW o \in Ops, pc'[o] \in Unopened PROVE stream' # bound'[o]
  <2>1. CASE pc[o] \in Unopened /\ bound'[o] = bound[o]
    <3>1. bound[o] \in Gens /\ stream # bound[o]
      BY <2>1 DEF ProcessInv, BoundToOne, OnRuntime, Unopened
    <3>2. pc[o] \notin Outside /\ pc[o] # "open"
      BY <2>1 DEF Unopened, Outside
    <3>3. \A q \in Ops \ {o} : pc[q] \notin {"configuring", "open"}
      BY <3>2, WorksAlone DEF Outside
    <3>4. StreamKeptOrFenced
      BY <1>3, <3>2, <3>3, StreamMoves DEF Opens, OpensFirst, Ops
    <3> QED BY <1>1, <2>1, <3>1, <3>4 DEF StreamKeptOrFenced
  <2>2. CASE bound'[o] = gens + 1 /\ stream' = stream
    BY <1>1, <2>2
  <2> QED BY <1>3, <2>1, <2>2, UnopenedMove
<1>4. ASSUME pc'[Establish] \in {"commit", "open"} PROVE stream' = NoGen
  <2>1. pc[Establish] \in {"commit", "open"}
    BY <1>4, EstablishMoves
  <2>2. \A o \in Prompts \cup Reads : pc[o] = "idle"
    BY <2>1 DEF AddressedOpen, Opened
  <2>3. ~OpensFirst
    BY <1>4, EstablishMoves DEF OpensFirst
  <2> QED BY <2>1, <2>2, <2>3, StreamMoves DEF Opens, StreamKeptOrFenced
<1> QED BY <1>2, <1>3, <1>4

\* In every behaviour.
LEMMA FreshHolds == Spec => []ProcessInv /\ []AddressedOpen /\ []FreshStream
<1>1. Init => AddressedOpen /\ FreshStream
  BY NamesAssumption
     DEF Init, AddressedOpen, Opened, FreshStream, Unopened, Ops, NoGen
<1>2. Spec => []ProcessInv
  BY TypeCorrect, GateIsExclusive, InitProcess, ProcessStep, PTL DEF Spec
<1> QED
  BY <1>1, <1>2, TypeCorrect, GateIsExclusive, AddressedStep, FreshStep, PTL
     DEF Spec

\* A launched process says nothing before its incarnation opens.
LEMMA SilentFirstStep ==
  ASSUME EarlyWork = FALSE, TypeOK, PumpHolds, GateExclusive, ProcessInv,
         FreshStream, SilentFirst, [Next]_vars
  PROVE  SilentFirst'
<1> USE DEF TypeOK, RequestTypes, RuntimeTypes, SilentFirst
<1>1. gens' \in {gens, gens + 1} /\ gens \in Nat /\ Gens \subseteq Nat
  BY GensGrow DEF Gens
<1>2. \A g \in Gens : g > gens => Silent(g)'
  <2> TAKE g \in Gens
  <2> HAVE g > gens
  <2>1. proc[g] # "running" /\ stream # g /\ Silent(g)
    BY <1>1 DEF ProcessInv, GoneIsUnbound, FreshStream
  <2> QED BY <2>1, StaysSilent
<1>3. ASSUME NEW o \in Ops, pc'[o] \in Unopened PROVE Silent(bound[o])'
  <2>1. CASE pc[o] \in Unopened /\ bound'[o] = bound[o]
    <3>1. bound[o] \in Gens /\ stream # bound[o] /\ Silent(bound[o])
      BY <2>1 DEF ProcessInv, BoundToOne, OnRuntime, Unopened, FreshStream
    <3>2. \A q \in Ops : pc[q] # "dispatching"
      BY <2>1, WorksAlone DEF Unopened, Outside
    <3>3. Silent(bound[o])' = (out'[bound[o]] = <<>> /\ runs'[bound[o]] = <<>>)
      BY <2>1 DEF Silent
    <3> QED BY <3>1, <3>2, <3>3, StaysSilent DEF Ops, Silent
  <2>2. CASE bound'[o] = gens + 1 /\ gens' = gens + 1
    <3>1. gens + 1 \in Gens /\ gens + 1 > gens
      BY <1>1, <2>2, NextTyped
    <3> QED BY <1>2, <2>2, <3>1 DEF Silent
  <2> QED BY <1>3, <2>1, <2>2, UnopenedMove
<1> QED BY <1>1, <1>2, <1>3

\* Nothing is said before the first commit and the first opening.
LEMMA SilentUnstoredStep ==
  ASSUME EarlyWork = FALSE, TypeOK, PumpHolds, AddressedOpen, SilentUnstored,
         [Next]_vars
  PROVE  SilentUnstored'
<1> USE DEF SilentUnstored
<1>1. Unstored' => Unstored /\ pc'[Establish] \in {"commit", "abandoned"}
  BY EstablishMoves DEF Unstored, TypeOK, RequestTypes
<1>2. ASSUME Unstored' \/ pc'[Establish] \in {"commit", "open"}
      PROVE  stream' = NoGen /\ \A g \in Gens : Silent(g)'
  <2>1. /\ Unstored \/ pc[Establish] \in {"commit", "open"}
        /\ pc[Establish] # "answered"
    BY <1>1, <1>2, EstablishMoves
  <2>2. \A o \in Prompts \cup Reads : pc[o] = "idle"
    BY <2>1 DEF AddressedOpen, Opened
  <2>3. stream = NoGen /\ \A g \in Gens : Silent(g) /\ stream # g
    BY <2>1 DEF Gens, NoGen
  <2>4. ~OpensFirst
    BY <1>1, <1>2, EstablishMoves DEF OpensFirst
  <2>5. stream' = NoGen
    BY <2>2, <2>3, <2>4, StreamMoves DEF Opens, StreamKeptOrFenced
  <2>6. \A g \in Gens : Silent(g)'
    BY <2>2, <2>3, StaysSilent
  <2> QED BY <2>5, <2>6
<1> QED BY <1>1, <1>2

\* A settlement that signals and drops a generation has fenced it first, and nobody
\* opens that generation again.
LEMMA FencedStep ==
  ASSUME TypeOK, PumpHolds, SilentFirst, SilentUnstored, StreamOfRuntime,
         [Next]_vars, NEW g \in Gens, pump'[g] \in {"signalling", "dropping"}
  PROVE  stream' # g
<1> USE DEF TypeOK, RuntimeTypes
<1>1. NoGen # g
  BY DEF NoGen, Gens
<1>2. pump[g] \in {"signalling", "dropping"} \/ stream' = NoGen
  <2>1. CASE UNCHANGED pump
    BY <2>1
  <2>2. CASE UNCHANGED vars
    BY <2>1, <2>2 DEF vars, pumpVars
  <2>3. CASE EstablishCommit \/ EstablishOpen
    BY <2>1, <2>3 DEF EstablishCommit, EstablishOpen, pumpVars
  <2>4. ASSUME NEW o \in Prompts \cup Reads, AcquireGate(o) \/ RequestStep(o)
        PROVE  pump[g] \in {"signalling", "dropping"}
    BY <2>1, <2>4
       DEF AcquireGate, RequestStep, CheckBusy, EnsureRuntime, JoinEnding,
           Launch, Bind, OpenStream, StopSignal, StopJoin, UseRuntime,
           ReleaseGate, pumpVars
  <2>5. ASSUME NEW p \in Prompts, TurnStep(p) PROVE UNCHANGED pump
    BY <2>5
       DEF TurnStep, InstallTurn, Dispatch, AcceptTurn, AbortExpires,
           BeginSettlement, CommitTurn, SignalTurnRuntime, DropTurnRuntime,
           FenceLostTransport, ClaimTurn, PublishTurnIdle, Unwind, pumpVars
  <2>6. CASE Cancel \/ (\E i \in callbacks : Abort(i)) \/ BeginClose \/ CloseStep
    BY <2>1, <2>6
       DEF Cancel, Abort, BeginClose, CloseStep, CloseAbort, CloseStop,
           CloseJoinPump, CloseCommit, CloseFence, pumpVars
  <2>7. ASSUME NEW h \in Gens, PumpStep(h) \/ ReadFails(h) \/ Emit(h) \/ Exit(h)
        PROVE  pump[g] \in {"signalling", "dropping"} \/ stream' = NoGen
    BY <2>1, <2>7
       DEF PumpStep, ReadFails, Emit, Exit, PumpTake, OpenCycle, LoseCycle,
           Apply, FinishDelivery, CommitCycle, SignalCycleRuntime,
           DropCycleRuntime, ClaimCycle, PublishCycleIdle, ClearCycle,
           DrainRuntime, EndForeground, RetireRuntime, Release, RuntimeEnded,
           Routed, PumpAt, Fence, pumpVars
  <2> QED
    BY <2>1, <2>2, <2>3, <2>4, <2>5, <2>6, <2>7 DEF Next
<1>3. CASE stream' = NoGen
  BY <1>1, <1>3
<1>4. CASE pump[g] \in {"signalling", "dropping"}
  <2>1. ~Silent(g) /\ stream # g
    BY <1>4 DEF PumpHolds, Holders, Silent, StreamOfRuntime
  <2>2. \A o \in Prompts \cup Reads : Opens(o) => bound[o] # g
    BY <2>1 DEF Opens, SilentFirst, Unopened, Ops
  <2>3. ~OpensFirst
    BY <2>1 DEF OpensFirst, SilentUnstored
  <2> QED BY <1>1, <2>1, <2>2, <2>3, StreamMoves DEF Opens, StreamKeptOrFenced
<1> QED BY <1>2, <1>3, <1>4

\* Whoever unbinds the generation of the open incarnation fences it, or finds the
\* session closing.
LEMMA UnbindsFenced ==
  ASSUME TypeOK, ProcessInv, VerdictInv, AddressedOpen, FreshStream,
         StreamOfRuntime, [Next]_vars, ~closing, stream = runtime,
         stream # NoGen, runtime' # runtime
  PROVE  stream' = NoGen
<1> USE DEF TypeOK, RequestTypes, RuntimeTypes
<1>1. CASE UNCHANGED vars
  BY <1>1 DEF vars, sessionVars
<1>2. CASE EstablishCommit \/ EstablishOpen
  BY <1>2 DEF EstablishCommit, EstablishOpen, sessionVars
<1>3. ASSUME NEW o \in Prompts \cup Reads, AcquireGate(o) \/ RequestStep(o)
      PROVE  FALSE
  <2>1. o \in Ops
    BY DEF Ops
  <2>2. CASE Bind(o)
    BY <2>1, <2>2 DEF Bind, ProcessInv, LaunchesAlone
  <2>3. CASE StopJoin(o)
    BY <2>1, <2>3 DEF StopJoin, DropRuntime, FreshStream, Unopened
  <2> QED
    BY <1>3, <2>2, <2>3
       DEF AcquireGate, RequestStep, CheckBusy, EnsureRuntime, JoinEnding,
           Launch, OpenStream, StopSignal, UseRuntime, ReleaseGate, sessionVars
<1>4. ASSUME NEW p \in Prompts, TurnStep(p) PROVE stream' = NoGen
  <2>1. CASE DropTurnRuntime(p)
    BY <2>1 DEF DropTurnRuntime, At, VerdictInv, Verdict, Failing
  <2>2. CASE FenceLostTransport(p)
    BY <2>2 DEF FenceLostTransport, Fence
  <2> QED
    BY <1>4, <2>1, <2>2
       DEF TurnStep, InstallTurn, Dispatch, AcceptTurn, AbortExpires,
           BeginSettlement, CommitTurn, SignalTurnRuntime, ClaimTurn,
           PublishTurnIdle, Unwind, sessionVars
<1>5. CASE Cancel \/ (\E i \in callbacks : Abort(i)) \/ BeginClose \/ CloseStep
  BY <1>5
     DEF Cancel, Abort, BeginClose, CloseStep, CloseAbort, CloseStop,
         CloseJoinPump, CloseCommit, CloseFence, CloseAt, AddressedOpen,
         sessionVars
<1>6. ASSUME NEW g \in Gens, PumpStep(g) \/ ReadFails(g) \/ Emit(g) \/ Exit(g)
      PROVE  stream' = NoGen
  <2>1. CASE DropCycleRuntime(g)
    BY <2>1 DEF DropCycleRuntime, PumpAt, DropRuntime, StreamOfRuntime
  <2>2. CASE RetireRuntime(g)
    BY <2>2 DEF RetireRuntime, StreamAfterEnd, DropRuntime
  <2> QED
    BY <1>6, <2>1, <2>2
       DEF PumpStep, ReadFails, Emit, Exit, PumpTake, OpenCycle, LoseCycle,
           Apply, FinishDelivery, CommitCycle, SignalCycleRuntime, ClaimCycle,
           PublishCycleIdle, ClearCycle, DrainRuntime, EndForeground, Release,
           RuntimeEnded, sessionVars
<1> QED
  BY <1>1, <1>2, <1>3, <1>4, <1>5, <1>6 DEF Next

\* A session that is closing stays so.
LEMMA ClosingStays ==
  ASSUME TypeOK, AddressedOpen, [Next]_vars, closing PROVE closing'
<1> USE DEF TypeOK, RequestTypes, AddressedOpen
<1>1. closePc # "none"
  OBVIOUS
<1>2. CASE UNCHANGED vars
  BY <1>2 DEF vars, sessionVars
<1>3. CASE EstablishCommit \/ EstablishOpen
  BY <1>3 DEF EstablishCommit, EstablishOpen, sessionVars
<1>4. ASSUME NEW o \in Prompts \cup Reads, AcquireGate(o) \/ RequestStep(o)
      PROVE  closing'
  BY <1>4
     DEF AcquireGate, RequestStep, CheckBusy, EnsureRuntime, JoinEnding, Launch,
         Bind, OpenStream, StopSignal, StopJoin, UseRuntime, ReleaseGate,
         sessionVars
<1>5. ASSUME NEW p \in Prompts, TurnStep(p) PROVE closing'
  BY <1>5
     DEF TurnStep, InstallTurn, Dispatch, AcceptTurn, AbortExpires,
         BeginSettlement, CommitTurn, SignalTurnRuntime, DropTurnRuntime,
         FenceLostTransport, ClaimTurn, PublishTurnIdle, Unwind, sessionVars
<1>6. CASE Cancel \/ (\E i \in callbacks : Abort(i)) \/ BeginClose \/ CloseStep
  BY <1>6
     DEF Cancel, Abort, BeginClose, CloseStep, CloseAbort, CloseStop,
         CloseJoinPump, CloseCommit, CloseFence, sessionVars
<1> QED
  BY <1>2, <1>3, <1>4, <1>5, <1>6, PumpFootprint DEF Next

\* Every step keeps the opening.
LEMMA OpeningStep ==
  ASSUME EarlyWork = FALSE, TypeOK, PumpHolds, GateExclusive, ProcessInv,
         VerdictInv, AddressedOpen, FreshStream, OpeningInv, [Next]_vars
  PROVE  OpeningInv'
<1> USE DEF OpeningInv
<1>1. ASSUME stream' # NoGen PROVE closing' \/ runtime' = stream'
  <2>1. CASE StreamKeptOrFenced
    BY <1>1, <2>1, UnbindsFenced, ClosingStays
       DEF StreamKeptOrFenced, StreamOfRuntime
  <2> QED
    BY <2>1, StreamMoves DEF Opens, OpensFirst, Openable
<1>2. StreamOfRuntime'
  BY <1>1, FencedStep DEF StreamOfRuntime
<1> QED
  BY <1>2, SilentFirstStep, SilentUnstoredStep

\* Initially the first incarnation is to be opened.
LEMMA OpeningFirst == Init => OpeningInv
<1> SUFFICES ASSUME Init PROVE OpeningInv
  OBVIOUS
<1>1. SilentUnstored
  BY DEF Init, SilentUnstored, Unstored, Silent, Ops
<1>2. SilentFirst
  BY DEF Init, SilentFirst, Silent, Unopened
<1>3. StreamOfRuntime
  BY DEF Init, StreamOfRuntime
<1> QED BY <1>1, <1>2, <1>3 DEF OpeningInv

\* The generation of the open incarnation, in every behaviour.
LEMMA OpeningHolds ==
  ASSUME EarlyWork = FALSE
  PROVE  Spec => []OpeningInv
<1>1. TypeOK /\ PumpHolds /\ GateExclusive /\ ProcessInv /\ VerdictInv
        /\ AddressedOpen /\ FreshStream /\ OpeningInv /\ [Next]_vars
        => OpeningInv'
  BY OpeningStep
<1> QED
  BY <1>1, TypeInvariant, GateIsExclusive, FreshHolds, VerdictsHold,
     OpeningFirst, PTL DEF Spec

\* An incarnation only opens on a fenced stream: a request opens the stream of the
\* runtime it has just bound, and whoever unbound the one before fenced it.  The
\* assumption is the model's account of a process that does nothing before its
\* incarnation opens.
THEOREM OpensOnlyFenced ==
  ASSUME EarlyWork = FALSE
  PROVE  Spec => OpensOnFencedStream
<1>1. ASSUME TypeOK, FreshStream, OpeningInv, [Next]_vars
      PROVE  [stream' \in {stream, NoGen} \/ stream = NoGen]_vars
  <2>1. ASSUME NEW o \in Prompts \cup Reads, Opens(o) PROVE stream = NoGen
    BY <1>1, <2>1 DEF Opens, Openable, OpeningInv, StreamOfRuntime, FreshStream,
                      Unopened, Ops
  <2>2. CASE OpensFirst
    BY <1>1, <2>2 DEF OpensFirst, OpeningInv, SilentUnstored
  <2> QED BY <1>1, <2>1, <2>2, StreamMoves DEF StreamKeptOrFenced
<1> QED
  BY <1>1, TypeCorrect, FreshHolds, OpeningHolds, PTL
     DEF Spec, OpensOnFencedStream

-----------------------------------------------------------------------------
(* The closed session.                                                     *)

\* The rungs of the ladder before and after the runtime is gone.
Winds   == {"abort", "stop", "pump"}
Emptied == {"commit", "cycle", "fence", "closed"}

\* What the ladder has done so far.  A session that is not persisted yet is closed
\* only with its gate free, so nobody is left to persist it.
ClosedInv ==
  /\ closePc \in Winds => runtime \in {closeRt, NoGen}
  /\ closePc \in Emptied => runtime = NoGen
  /\ closePc = "closed" => stream = NoGen /\ cycle = None
  /\ closePc # "none" => closeJoins \/ persisted
  /\ closePc \in Emptied \ {"commit"} /\ closeJoins => Holding = {}

\* A cycle is installed only by the pump of a session that is not closing.
LEMMA CycleMoves ==
  ASSUME [Next]_vars
  PROVE  cycle' \in {cycle, None} \/ \E g \in Gens : OpenCycle(g) /\ MayOpenCycle(g)
<1>1. CASE UNCHANGED vars
  BY <1>1 DEF vars, sessionVars
<1>2. CASE EstablishCommit \/ EstablishOpen
  BY <1>2 DEF EstablishCommit, EstablishOpen, sessionVars
<1>3. ASSUME NEW o \in Prompts \cup Reads, AcquireGate(o) \/ RequestStep(o)
      PROVE  UNCHANGED cycle
  BY <1>3
     DEF AcquireGate, RequestStep, CheckBusy, EnsureRuntime, JoinEnding, Launch,
         Bind, OpenStream, StopSignal, StopJoin, UseRuntime, ReleaseGate,
         sessionVars
<1>4. ASSUME NEW p \in Prompts, TurnStep(p) PROVE UNCHANGED cycle
  BY <1>4
     DEF TurnStep, InstallTurn, Dispatch, AcceptTurn, AbortExpires,
         BeginSettlement, CommitTurn, SignalTurnRuntime, DropTurnRuntime,
         FenceLostTransport, ClaimTurn, PublishTurnIdle, Unwind, sessionVars
<1>5. ASSUME NEW g \in Gens, PumpStep(g) \/ ReadFails(g) \/ Emit(g) \/ Exit(g)
      PROVE  cycle' \in {cycle, None} \/ (OpenCycle(g) /\ MayOpenCycle(g))
  <2>1. CASE OpenCycle(g)
    BY <2>1 DEF OpenCycle
  <2>2. CASE ClearCycle(g)
    BY <2>2 DEF ClearCycle
  <2>3. CASE DrainRuntime(g) \/ ReadFails(g)
    BY <2>3 DEF DrainRuntime, ReadFails, RuntimeEnded, CycleAfterEnd
  <2> QED
    BY <1>5, <2>1, <2>2, <2>3
       DEF PumpStep, Emit, Exit, PumpTake, LoseCycle, Apply, FinishDelivery,
           CommitCycle, SignalCycleRuntime, DropCycleRuntime, ClaimCycle,
           PublishCycleIdle, EndForeground, RetireRuntime, Release, sessionVars
<1>6. CASE Cancel \/ (\E i \in callbacks : Abort(i)) \/ BeginClose \/ CloseStep
  BY <1>6
     DEF Cancel, Abort, BeginClose, CloseStep, CloseAbort, CloseStop,
         CloseJoinPump, CloseCommit, CloseFence, sessionVars
<1> QED BY <1>1, <1>2, <1>3, <1>4, <1>5, <1>6 DEF Next

\* A runtime is bound only to a session that is not closing.
LEMMA RuntimeMoves ==
  ASSUME [Next]_vars, closing
  PROVE  runtime' \in {runtime, NoGen}
<1> USE DEF DropRuntime
<1>1. CASE UNCHANGED vars
  BY <1>1 DEF vars, sessionVars
<1>2. CASE EstablishCommit \/ EstablishOpen
  BY <1>2 DEF EstablishCommit, EstablishOpen, sessionVars
<1>3. ASSUME NEW o \in Prompts \cup Reads, AcquireGate(o) \/ RequestStep(o)
      PROVE  runtime' \in {runtime, NoGen}
  BY <1>3
     DEF AcquireGate, RequestStep, CheckBusy, EnsureRuntime, JoinEnding, Launch,
         Bind, BindRefused, OpenStream, StopSignal, StopJoin, UseRuntime,
         ReleaseGate, sessionVars
<1>4. ASSUME NEW p \in Prompts, TurnStep(p) PROVE runtime' \in {runtime, NoGen}
  BY <1>4
     DEF TurnStep, InstallTurn, Dispatch, AcceptTurn, AbortExpires,
         BeginSettlement, CommitTurn, SignalTurnRuntime, DropTurnRuntime,
         FenceLostTransport, ClaimTurn, PublishTurnIdle, Unwind, sessionVars
<1>5. ASSUME NEW g \in Gens, PumpStep(g) \/ ReadFails(g) \/ Emit(g) \/ Exit(g)
      PROVE  runtime' \in {runtime, NoGen}
  BY <1>5
     DEF PumpStep, ReadFails, Emit, Exit, PumpTake, OpenCycle, LoseCycle, Apply,
         FinishDelivery, CommitCycle, SignalCycleRuntime, DropCycleRuntime,
         ClaimCycle, PublishCycleIdle, ClearCycle, DrainRuntime, EndForeground,
         RetireRuntime, Release, RuntimeEnded, sessionVars
<1>6. CASE Cancel \/ (\E i \in callbacks : Abort(i)) \/ BeginClose \/ CloseStep
  BY <1>6
     DEF Cancel, Abort, BeginClose, CloseStep, CloseAbort, CloseStop,
         CloseJoinPump, CloseCommit, CloseFence, sessionVars
<1> QED BY <1>1, <1>2, <1>3, <1>4, <1>5, <1>6 DEF Next

\* The ladder is climbed by itself alone.
LEMMA LadderMoves ==
  ASSUME [Next]_vars
  PROVE  UNCHANGED closeVars \/ BeginClose \/ CloseStep
<1>1. CASE UNCHANGED vars
  BY <1>1 DEF vars
<1>2. CASE EstablishCommit \/ EstablishOpen
  BY <1>2 DEF EstablishCommit, EstablishOpen
<1>3. ASSUME NEW o \in Prompts \cup Reads, AcquireGate(o) \/ RequestStep(o)
      PROVE  UNCHANGED closeVars
  BY <1>3
     DEF AcquireGate, RequestStep, CheckBusy, EnsureRuntime, JoinEnding, Launch,
         Bind, OpenStream, StopSignal, StopJoin, UseRuntime, ReleaseGate
<1>4. ASSUME NEW p \in Prompts, TurnStep(p) PROVE UNCHANGED closeVars
  BY <1>4
     DEF TurnStep, InstallTurn, Dispatch, AcceptTurn, AbortExpires,
         BeginSettlement, CommitTurn, SignalTurnRuntime, DropTurnRuntime,
         FenceLostTransport, ClaimTurn, PublishTurnIdle, Unwind
<1>5. ASSUME NEW g \in Gens, PumpStep(g) \/ ReadFails(g) \/ Emit(g) \/ Exit(g)
      PROVE  UNCHANGED closeVars
  BY <1>5
     DEF PumpStep, ReadFails, Emit, Exit, PumpTake, OpenCycle, LoseCycle, Apply,
         FinishDelivery, CommitCycle, SignalCycleRuntime, DropCycleRuntime,
         ClaimCycle, PublishCycleIdle, ClearCycle, DrainRuntime, EndForeground,
         RetireRuntime, Release, RuntimeEnded
<1>6. CASE Cancel \/ \E i \in callbacks : Abort(i)
  BY <1>6 DEF Cancel, Abort
<1> QED BY <1>1, <1>2, <1>3, <1>4, <1>5, <1>6 DEF Next

\* Nobody is admitted to a closing session.
LEMMA HoldingShrinks ==
  ASSUME TypeOK, [Next]_vars, closing, Holding = {}
  PROVE  Holding' = {}
<1> USE DEF TypeOK, RequestTypes, Holding
<1>1. \A o \in Ops : pc[o] \in Outside
  BY DEF Outside
<1>2. CASE UNCHANGED pc
  BY <1>2
<1>3. CASE UNCHANGED vars
  BY <1>2, <1>3 DEF vars, opVars
<1>4. CASE EstablishCommit \/ EstablishOpen
  BY <1>1, <1>4 DEF EstablishCommit, EstablishOpen, Outside, Ops
<1>5. ASSUME NEW o \in Prompts \cup Reads, AcquireGate(o) \/ RequestStep(o)
      PROVE  Holding' = {}
  <2>1. o \in Ops /\ AcquireGate(o)
    BY <1>1, <1>5, RequestFootprint DEF Ops
  <2> QED BY <1>1, <2>1 DEF AcquireGate, Admissible, Outside
<1>6. ASSUME NEW p \in Prompts, TurnStep(p) PROVE FALSE
  BY <1>1, <1>6, TurnFootprint DEF Ops
<1>7. CASE Cancel \/ (\E i \in callbacks : Abort(i)) \/ BeginClose \/ CloseStep
  BY <1>2, <1>7
     DEF Cancel, Abort, BeginClose, CloseStep, CloseAbort, CloseStop,
         CloseJoinPump, CloseCommit, CloseFence, opVars
<1> QED
  BY <1>2, <1>3, <1>4, <1>5, <1>6, <1>7, PumpFootprint DEF Next

\* Every rung leaves what the next one counts on.
LEMMA ClosedStep ==
  ASSUME TypeOK, GateExclusive, AddressedOpen, ClosedInv, [Next]_vars
  PROVE  ClosedInv'
<1> USE DEF TypeOK, RequestTypes, CloseTypes, Winds, Emptied
<1>1. persisted => persisted'
  BY EstablishMoves
<1>2. CASE UNCHANGED closeVars
  <2>1. CASE closePc = "none"
    BY <1>2, <2>1 DEF ClosedInv, closeVars
  <2>2. CASE closePc # "none"
    <3>1. closing
      BY <2>2 DEF AddressedOpen
    <3>2. runtime' \in {runtime, NoGen} /\ (Holding = {} => Holding' = {})
      BY <3>1, RuntimeMoves, HoldingShrinks
    <3>3. stream = NoGen /\ cycle = None => stream' = NoGen /\ cycle' = None
      BY <3>1, StreamMoves, CycleMoves
         DEF StreamKeptOrFenced, Opens, OpensFirst, Openable, MayOpenCycle
    <3> QED BY <1>1, <1>2, <3>2, <3>3 DEF ClosedInv, closeVars
  <2> QED BY <2>1, <2>2
<1>3. CASE BeginClose
  BY <1>3 DEF BeginClose, CloseAt, JoinsEstablishment, ClosedInv
<1>4. CASE CloseAbort
  BY <1>4 DEF CloseAbort, CloseAt, ClosedInv, sessionVars
<1>5. CASE CloseStop
  BY <1>5 DEF CloseStop, ClosedInv, sessionVars
<1>6. CASE CloseJoinPump
  BY <1>6 DEF CloseJoinPump, CloseAt, DropRuntime, ClosedInv
<1>7. CASE CloseCommit
  <2>1. closeJoins => Holding' = {}
    BY <1>7, NamesAssumption
       DEF CloseCommit, GateExclusive, Holding, opVars
  <2> QED BY <1>1, <1>7, <2>1 DEF CloseCommit, ClosedInv
<1>8. CASE CloseFence
  <2>1. Holding' = Holding
    BY <1>8 DEF CloseFence, Holding, opVars
  <2> QED BY <1>8, <2>1 DEF CloseFence, Fence, ClosedInv
<1> QED
  BY <1>2, <1>3, <1>4, <1>5, <1>6, <1>7, <1>8, LadderMoves DEF CloseStep

\* Who persists a session: a request in its hold, the pump of a cycle, the ladder.
LEMMA Persists ==
  ASSUME TypeOK, [Next]_vars, ~persisted, persisted'
  PROVE  \/ Holding # {}
         \/ ~Ephemeral /\ \E g \in Gens : pump[g] = "settling"
         \/ CloseCommit
<1> USE DEF CommitOk, CommitFails, Holding
<1>1. CASE EstablishCommit \/ EstablishOpen
  BY <1>1 DEF EstablishCommit, EstablishOpen, Ops
<1>2. ASSUME NEW o \in Prompts \cup Reads, AcquireGate(o) \/ RequestStep(o)
      PROVE  o \in Holding
  <2>1. o \in Ops
    BY DEF Ops
  <2>2. ~AcquireGate(o)
    BY DEF AcquireGate, sessionVars
  <2>3. pc[o] \notin Outside
    BY <1>2, <2>1, <2>2, RequestFootprint DEF TypeOK
  <2> QED BY <2>1, <2>3 DEF Outside
<1>3. ASSUME NEW p \in Prompts, TurnStep(p) PROVE p \in Holding
  BY <1>3, TurnFootprint DEF TypeOK, Ops, Outside
<1>4. ASSUME NEW g \in Gens, PumpStep(g) \/ ReadFails(g) \/ Emit(g) \/ Exit(g)
      PROVE  ~Ephemeral /\ pump[g] = "settling"
  BY <1>4
     DEF PumpStep, ReadFails, Emit, Exit, PumpTake, OpenCycle, LoseCycle, Apply,
         FinishDelivery, CommitCycle, SignalCycleRuntime, DropCycleRuntime,
         ClaimCycle, PublishCycleIdle, ClearCycle, DrainRuntime, EndForeground,
         RetireRuntime, Release, RuntimeEnded, sessionVars
<1>5. CASE Cancel \/ (\E i \in callbacks : Abort(i)) \/ BeginClose \/ CloseStep
  BY <1>5
     DEF Cancel, Abort, BeginClose, CloseStep, CloseAbort, CloseStop,
         CloseJoinPump, CloseFence, sessionVars
<1>6. CASE UNCHANGED vars
  BY <1>6 DEF vars, sessionVars
<1> QED
  BY <1>1, <1>2, <1>3, <1>4, <1>5, <1>6 DEF Next

\* Idles are only added.
LEMMA TerminalsGrow == ASSUME [Next]_vars PROVE terminals \subseteq terminals'
<1>1. CASE UNCHANGED vars
  BY <1>1 DEF vars, pubVars
<1>2. CASE EstablishCommit \/ EstablishOpen
  BY <1>2 DEF EstablishCommit, EstablishOpen, pubVars
<1>3. ASSUME NEW o \in Prompts \cup Reads, AcquireGate(o) \/ RequestStep(o)
      PROVE  UNCHANGED terminals
  BY <1>3
     DEF AcquireGate, RequestStep, CheckBusy, EnsureRuntime, JoinEnding, Launch,
         Bind, OpenStream, StopSignal, StopJoin, UseRuntime, ReleaseGate, pubVars
<1>4. ASSUME NEW p \in Prompts, TurnStep(p) PROVE terminals \subseteq terminals'
  BY <1>4
     DEF TurnStep, InstallTurn, Dispatch, AcceptTurn, AbortExpires,
         BeginSettlement, CommitTurn, SignalTurnRuntime, DropTurnRuntime,
         FenceLostTransport, ClaimTurn, PublishTurnIdle, Unwind, pubVars, PublishIdle
<1>5. ASSUME NEW g \in Gens, PumpStep(g) \/ ReadFails(g) \/ Emit(g) \/ Exit(g)
      PROVE  terminals \subseteq terminals'
  BY <1>5
     DEF PumpStep, ReadFails, Emit, Exit, PumpTake, OpenCycle, LoseCycle, Apply,
         FinishDelivery, CommitCycle, SignalCycleRuntime, DropCycleRuntime,
         ClaimCycle, PublishCycleIdle, ClearCycle, DrainRuntime, EndForeground,
         RetireRuntime, Release, RuntimeEnded, pubVars, PublishIdle
<1>6. CASE Cancel \/ (\E i \in callbacks : Abort(i)) \/ BeginClose \/ CloseStep
  BY <1>6
     DEF Cancel, Abort, BeginClose, CloseStep, CloseAbort, CloseStop,
         CloseJoinPump, CloseCommit, CloseFence, pubVars, PublishIdle
<1> QED BY <1>1, <1>2, <1>3, <1>4, <1>5, <1>6 DEF Next

\* What the ladder has done, in every behaviour.
LEMMA ClosedHolds == Spec => []ClosedInv
<1>1. Init => ClosedInv
  BY DEF Init, ClosedInv, Winds, Emptied
<1>2. TypeOK /\ GateExclusive /\ AddressedOpen /\ ClosedInv /\ [Next]_vars
        => ClosedInv'
  BY ClosedStep
<1> QED
  BY <1>1, <1>2, TypeInvariant, GateIsExclusive, FreshHolds, PTL DEF Spec

\* What may still run on a closed session changes nothing of it.
LEMMA ClosedQuiet ==
  ASSUME TypeOK, PumpHolds, SettlesCycle, AddressedOpen, OpeningInv, ClosedInv,
         [Next]_vars, closePc = "closed"
  PROVE  UNCHANGED <<stream, cycle, runtime, terminals, persisted>>
<1> USE DEF TypeOK, RequestTypes
<1>1. closing
  BY DEF AddressedOpen
<1>2. runtime = NoGen /\ stream = NoGen /\ cycle = None
  BY DEF ClosedInv, Emptied
<1>3. UNCHANGED runtime
  BY <1>1, <1>2, RuntimeMoves
<1>4. UNCHANGED <<stream, cycle>>
  BY <1>1, <1>2, StreamMoves, CycleMoves
     DEF StreamKeptOrFenced, Opens, OpensFirst, Openable, MayOpenCycle
<1>5. UNCHANGED terminals
  BY <1>2, TerminalsGrow, NewTerminals
<1>6. UNCHANGED persisted
  <2>1. CASE persisted
    BY <2>1, EstablishMoves, NextTyped
  <2>2. CASE ~persisted
    <3>1. Holding = {} /\ ~CloseCommit
      BY <2>2 DEF ClosedInv, Emptied, CloseCommit
    <3>2. ~Ephemeral => \A g \in Gens : pump[g] # "settling"
      BY <2>2 DEF OpeningInv, SilentUnstored, Unstored, Silent, PumpHolds, Holders
    <3> QED BY <2>2, <3>1, <3>2, Persists, NextTyped
  <2> QED BY <2>1, <2>2
<1> QED BY <1>3, <1>4, <1>5, <1>6

\* A closed session stays as the ladder left it: a pump it gave up on, a launch that
\* was under way and the first commit come too late to bind, open, publish or
\* persist anything.
THEOREM ClosedStaysClosed ==
  ASSUME EarlyWork = FALSE
  PROVE  Spec => ClosedIsFinal
<1>1. TypeOK /\ PumpHolds /\ SettlesCycle /\ AddressedOpen /\ OpeningInv
        /\ ClosedInv /\ [Next]_vars =>
        [closePc = "closed" =>
           UNCHANGED <<stream, cycle, runtime, terminals, persisted>>]_vars
  BY ClosedQuiet
<1> QED
  BY <1>1, TypeInvariant, FreshHolds, VerdictsHold, OpeningHolds, ClosedHolds,
     PTL DEF Spec, ClosedIsFinal

-----------------------------------------------------------------------------
(* Who works on a cycle.                                                   *)

\* Where a prompt's turn is installed.
InTurn ==
  {"ensuring", "joining", "launching", "binding", "configuring", "stopping",
   "stopJoin", "dispatching", "accepting", "running", "settling", "signalling",
   "dropping", "claiming", "claimFailed", "publishing", "unwinding"}

TurnNamed == \A p \in Prompts : pc[p] \in InTurn => turn = p

\* Whoever works on a turn has it installed.
LEMMA TurnNamedStep ==
  ASSUME TypeOK, GateExclusive, TurnNamed, [Next]_vars
  PROVE  TurnNamed'
<1> USE NamesAssumption DEF TypeOK, RequestTypes, TurnNamed
<1>1. CASE UNCHANGED <<pc, turn>>
  BY <1>1
<1>2. CASE UNCHANGED vars
  BY <1>1, <1>2 DEF vars, opVars, sessionVars
<1>3. CASE EstablishCommit \/ EstablishOpen
  BY <1>3 DEF EstablishCommit, EstablishOpen, sessionVars, Ops
<1>4. ASSUME NEW o \in Prompts \cup Reads, AcquireGate(o) \/ RequestStep(o)
      PROVE  TurnNamed'
  <2>1. o \in Ops
    BY DEF Ops
  <2>2. UNCHANGED turn /\ \A q \in Ops \ {o} : pc'[q] = pc[q]
    BY <1>4, <2>1
       DEF AcquireGate, RequestStep, CheckBusy, EnsureRuntime, JoinEnding,
           Launch, Bind, OpenStream, StopSignal, StopJoin, UseRuntime,
           ReleaseGate, Fail, Leave, At, sessionVars
  <2>3. o \in Prompts /\ pc'[o] \in InTurn => pc[o] \in InTurn
    BY <1>4, <2>1
       DEF AcquireGate, RequestStep, CheckBusy, EnsureRuntime, JoinEnding,
           Launch, Bind, OpenStream, StopSignal, StopJoin, UseRuntime,
           ReleaseGate, Fail, Leave, At, InTurn
  <2> QED BY <2>2, <2>3 DEF Ops
<1>5. ASSUME NEW p \in Prompts, TurnStep(p) PROVE TurnNamed'
  <2>1. /\ p \in Ops /\ \A q \in Ops \ {p} : pc'[q] = pc[q]
        /\ \A q \in Prompts \ {p} : pc[q] \in Outside
    BY <1>5, TurnFootprint, WorksAlone DEF Ops
  <2>2. pc'[p] \in InTurn => turn' = p
    BY <1>5
       DEF TurnStep, InstallTurn, Dispatch, AcceptTurn, AbortExpires,
           BeginSettlement, CommitTurn, SignalTurnRuntime, DropTurnRuntime,
           FenceLostTransport, ClaimTurn, PublishTurnIdle, Unwind, Leave, At,
           opVars, sessionVars, InTurn, Ops
  <2> QED BY <2>1, <2>2 DEF Ops, Outside, InTurn
<1>6. CASE Cancel \/ (\E i \in callbacks : Abort(i)) \/ BeginClose \/ CloseStep
  BY <1>1, <1>6
     DEF Cancel, Abort, BeginClose, CloseStep, CloseAbort, CloseStop,
         CloseJoinPump, CloseCommit, CloseFence, opVars, sessionVars
<1> QED
  BY <1>1, <1>2, <1>3, <1>4, <1>5, <1>6, PumpFootprint DEF Next

\* What the steps of everybody but the pumps do to cycles, pumps and the runtime.
OffPump ==
  /\ UNCHANGED <<held, cycles>>
  /\ \/ UNCHANGED cycle
     \/ cycle' = None /\ stream' = NoGen
  /\ \/ UNCHANGED pump /\ runtime' \in {runtime, NoGen}
     \/ \E g \in Gens : /\ pump[g] = "none" /\ runtime = NoGen /\ runtime' = g
                        /\ pump' = [pump EXCEPT ![g] = "ready"]
  /\ \A c \in Cycles : acceptedIn'[c] = acceptedIn[c]

LEMMA OffPumpMoves ==
  ASSUME TypeOK, ProcessInv, [Next]_vars
  PROVE  OffPump \/ \E g \in Gens : PumpStep(g) \/ ReadFails(g)
<1> USE DEF TypeOK, RequestTypes, RuntimeTypes, StreamTypes, OffPump
<1>1. CASE UNCHANGED <<held, cycles, cycle, pump, runtime, acceptedIn>>
  BY <1>1
<1>2. CASE UNCHANGED vars
  BY <1>1, <1>2 DEF vars, pumpVars, ghostVars, sessionVars, pubVars
<1>3. CASE EstablishCommit \/ EstablishOpen
  BY <1>1, <1>3
     DEF EstablishCommit, EstablishOpen, sessionVars, pumpVars, ghostVars
<1>4. ASSUME NEW o \in Prompts \cup Reads, AcquireGate(o) \/ RequestStep(o)
      PROVE  OffPump
  <2>1. CASE Bind(o) /\ ~BindRefused
    <3>1. o \in Ops
      BY DEF Ops
    <3>2. bound[o] \in Gens /\ pump[bound[o]] = "none" /\ runtime = NoGen
      BY <2>1, <3>1
         DEF Bind, ProcessInv, LaunchesAlone, BoundToOne, OnRuntime
    <3> QED BY <2>1, <3>2 DEF Bind, ghostVars, pubVars
  <2>2. CASE Bind(o) /\ BindRefused
    BY <1>1, <2>2 DEF Bind, ghostVars, pubVars
  <2>3. CASE StopJoin(o)
    BY <2>3 DEF StopJoin, DropRuntime, pumpVars, ghostVars, pubVars
  <2> QED
    BY <1>1, <1>4, <2>1, <2>2, <2>3
       DEF AcquireGate, RequestStep, CheckBusy, EnsureRuntime, JoinEnding,
           Launch, OpenStream, StopSignal, UseRuntime, ReleaseGate, sessionVars,
           pumpVars, ghostVars, pubVars
<1>5. ASSUME NEW p \in Prompts, TurnStep(p) PROVE OffPump
  <2>1. CASE DropTurnRuntime(p) \/ FenceLostTransport(p)
    BY <2>1 DEF DropTurnRuntime, FenceLostTransport, DropRuntime, pumpVars,
                ghostVars, pubVars
  <2>2. CASE AcceptTurn(p)
    BY <2>2, CyclesApart
       DEF AcceptTurn, Accept, pumpVars, ghostVars, sessionVars, Foregrounds
  <2> QED
    BY <1>1, <1>5, <2>1, <2>2
       DEF TurnStep, InstallTurn, Dispatch, AbortExpires, BeginSettlement,
           CommitTurn, SignalTurnRuntime, ClaimTurn, PublishTurnIdle, Unwind,
           sessionVars, pumpVars, ghostVars, pubVars
<1>6. CASE Cancel \/ (\E i \in callbacks : Abort(i)) \/ BeginClose \/ CloseStep
  BY <1>6
     DEF Cancel, Abort, BeginClose, CloseStep, CloseAbort, CloseStop,
         CloseJoinPump, CloseCommit, CloseFence, DropRuntime, Fence, pumpVars,
         ghostVars, sessionVars, pubVars
<1>7. ASSUME NEW g \in Gens, Emit(g) \/ Exit(g) PROVE OffPump
  BY <1>1, <1>7 DEF Emit, Exit, pumpVars, ghostVars, sessionVars, pubVars
<1> QED
  BY <1>2, <1>3, <1>4, <1>5, <1>6, <1>7 DEF Next

\* What the pump of the bound runtime settles is the session's cycle, or none is.
HeldIsCurrent ==
  \A g \in Gens :
    runtime = g /\ pump[g] \in Holders /\ held[g] \in Cycles =>
      cycle \in {None, held[g]}

\* Where the pump of the bound runtime still takes records.
Serving == PumpPc \ {"none", "endJoin", "endWait", "releasing", "done"}

\* The bound runtime serves, and no launch is going to give it up.
RuntimeServes ==
  /\ runtime # NoGen /\ pump[runtime] \in Serving
  /\ \A o \in Ops :
       pc[o] \in {"configuring", "stopping", "stopJoin"} => bound[o] # runtime

\* Whoever settles an open cycle clears it, and without a settlement the runtime
\* that serves ends it with itself.
CycleOwned ==
  cycle # None /\ ~closing =>
    \/ \E g \in Gens : held[g] = cycle /\ pump[g] \in Settlement
    \/ RuntimeServes

\* One pump moves, and it keeps or drops what it holds, or takes another.
LEMMA PumpMoves ==
  ASSUME TypeOK, NEW g \in Gens, PumpStep(g) \/ ReadFails(g)
  PROVE  /\ \A h \in Gens \ {g} : pump'[h] = pump[h] /\ held'[h] = held[h]
         /\ UNCHANGED runtime \/ DropRuntime(g)
         /\ pump'[g] \in Holders =>
              \/ pump[g] \in Holders /\ held'[g] = held[g]
              \/ PumpTake(g) /\ held'[g] = Foreground
              \/ OpenCycle(g) /\ MayOpenCycle(g) /\ held'[g] = cycle'
         /\ pump[g] \in Serving =>
              \/ pump'[g] \in Serving
              \/ cycle' = CycleAfterEnd
              \/ runtime # g
<1> USE DEF TypeOK, RuntimeTypes
<1>1. CASE PumpTake(g)
  BY <1>1 DEF PumpTake, Routed, Holders, Serving, PumpPc
<1>2. CASE OpenCycle(g) /\ MayOpenCycle(g)
  BY <1>2 DEF OpenCycle, Serving, PumpPc
<1>3. CASE OpenCycle(g) /\ ~MayOpenCycle(g)
  BY <1>3 DEF OpenCycle, Routed, Holders, Serving, PumpPc
<1>4. CASE LoseCycle(g) \/ Apply(g) \/ FinishDelivery(g) \/ ClearCycle(g)
  BY <1>4 DEF LoseCycle, CycleLost, Apply, FinishDelivery, ClearCycle, Routed,
              Holders, Serving, PumpPc, sessionVars
<1>5. CASE CommitCycle(g) \/ SignalCycleRuntime(g) \/ DropCycleRuntime(g)
             \/ ClaimCycle(g) \/ PublishCycleIdle(g)
  BY <1>5 DEF CommitCycle, SignalCycleRuntime, DropCycleRuntime, ClaimCycle,
              PublishCycleIdle, PumpAt, Holders, Serving, PumpPc, sessionVars
<1>6. CASE DrainRuntime(g) \/ ReadFails(g)
  BY <1>6 DEF DrainRuntime, ReadFails, RuntimeEnded, Holders, Serving
<1>7. CASE EndForeground(g) \/ RetireRuntime(g) \/ Release(g)
  BY <1>7 DEF EndForeground, RetireRuntime, Release, PumpAt, Holders, Serving,
              sessionVars
<1> QED
  BY <1>1, <1>2, <1>3, <1>4, <1>5, <1>6, <1>7 DEF PumpStep

\* The pump of the bound runtime settles nothing but the session's cycle.
LEMMA HeldIsCurrentStep ==
  ASSUME TypeOK, ProcessInv, HeldIsCurrent, [Next]_vars
  PROVE  HeldIsCurrent'
<1> USE CyclesApart DEF TypeOK, RequestTypes, RuntimeTypes, HeldIsCurrent
<1>1. CASE OffPump
  <2>1. UNCHANGED held /\ cycle' \in {cycle, None}
    BY <1>1 DEF OffPump
  <2>2. ASSUME NEW g \in Gens, runtime' = g, pump'[g] \in Holders
        PROVE  runtime = g /\ pump[g] \in Holders
    <3>1. NoGen # g
      BY DEF NoGen, Gens
    <3> QED BY <1>1, <2>2, <3>1 DEF OffPump, Holders
  <2> QED BY <2>1, <2>2
<1>2. ASSUME NEW g \in Gens, PumpStep(g) \/ ReadFails(g)
      PROVE  HeldIsCurrent'
  <2> SUFFICES ASSUME NEW h \in Gens, runtime' = h, pump'[h] \in Holders,
                      held'[h] \in Cycles
               PROVE  cycle' \in {None, held'[h]}
    OBVIOUS
  <2>1. runtime = h
    <3>1. UNCHANGED runtime \/ DropRuntime(g)
      BY <1>2, PumpMoves
    <3>2. h # NoGen
      BY DEF NoGen, Gens
    <3> QED BY <3>1, <3>2 DEF DropRuntime
  <2>2. CASE h # g
    <3>1. ~(OpenCycle(g) /\ MayOpenCycle(g))
      BY <2>1, <2>2 DEF MayOpenCycle
    <3>2. cycle' \in {cycle, None}
      <4>1. \A k \in Gens \ {g} : ~OpenCycle(k) \/ ~MayOpenCycle(k) \/ k = h
        BY <2>1 DEF MayOpenCycle
      <4>2. ~OpenCycle(h)
        BY <1>2, <2>2, PumpMoves DEF OpenCycle, Routed
      <4> QED BY <3>1, <4>1, <4>2, CycleMoves
    <3> QED BY <1>2, <2>1, <2>2, <3>2, PumpMoves
  <2>3. CASE h = g /\ PumpTake(g)
    <3>1. UNCHANGED cycle
      BY <2>3 DEF PumpTake
    <3>2. CASE pump'[g] = "ready"
      BY <2>3, <3>2 DEF Holders
    <3>3. CASE pump'[g] # "ready"
      BY <1>2, <2>3, <3>1, <3>3, PumpMoves DEF PumpTake, Routed, Foreground
    <3> QED BY <3>2, <3>3
  <2>4. CASE h = g /\ OpenCycle(g) /\ MayOpenCycle(g)
    BY <2>4 DEF OpenCycle
  <2>5. CASE h = g /\ pump[g] \in Holders /\ held'[g] = held[g]
    <3>1. \A k \in Gens : ~(OpenCycle(k) /\ MayOpenCycle(k))
      BY <2>1, <2>5 DEF OpenCycle, MayOpenCycle, Holders
    <3> QED BY <2>1, <2>5, <3>1, CycleMoves
  <2> QED
    BY <1>2, <2>2, <2>3, <2>4, <2>5, PumpMoves
<1> QED BY <1>1, <1>2, OffPumpMoves

\* A cycle's runtime is unbound by its own pump, or by whoever closes the session.
LEMMA CycleKeepsRuntime ==
  ASSUME TypeOK, ProcessInv, AddressedOpen, OneForeground, TurnNamed,
         RuntimeServes, cycle # None, ~closing, [Next]_vars
  PROVE  \/ UNCHANGED runtime
         \/ \E g \in Gens : DropCycleRuntime(g)
<1> USE DEF TypeOK, RequestTypes, RuntimeTypes, RuntimeServes
<1>1. turn = None
  BY DEF OneForeground
<1>2. CASE UNCHANGED vars
  BY <1>2 DEF vars, sessionVars
<1>3. CASE EstablishCommit \/ EstablishOpen
  BY <1>3 DEF EstablishCommit, EstablishOpen, sessionVars
<1>4. ASSUME NEW o \in Prompts \cup Reads, AcquireGate(o) \/ RequestStep(o)
      PROVE  UNCHANGED runtime
  <2>1. o \in Ops
    BY DEF Ops
  <2>2. CASE Bind(o)
    BY <2>1, <2>2 DEF Bind, ProcessInv, LaunchesAlone
  <2>3. CASE StopJoin(o)
    BY <2>1, <2>3 DEF StopJoin, DropRuntime
  <2> QED
    BY <1>4, <2>2, <2>3
       DEF AcquireGate, RequestStep, CheckBusy, EnsureRuntime, JoinEnding,
           Launch, OpenStream, StopSignal, UseRuntime, ReleaseGate, sessionVars
<1>5. ASSUME NEW p \in Prompts, TurnStep(p) PROVE UNCHANGED runtime
  <2>1. CASE DropTurnRuntime(p) \/ FenceLostTransport(p)
    BY <1>1, <2>1, NamesAssumption
       DEF DropTurnRuntime, FenceLostTransport, At, TurnNamed, InTurn, Ops
  <2> QED
    BY <1>5, <2>1
       DEF TurnStep, InstallTurn, Dispatch, AcceptTurn, AbortExpires,
           BeginSettlement, CommitTurn, SignalTurnRuntime, ClaimTurn,
           PublishTurnIdle, Unwind, sessionVars
<1>6. CASE Cancel \/ (\E i \in callbacks : Abort(i)) \/ BeginClose \/ CloseStep
  BY <1>6
     DEF Cancel, Abort, BeginClose, CloseStep, CloseAbort, CloseStop,
         CloseJoinPump, CloseCommit, CloseFence, CloseAt, AddressedOpen,
         sessionVars
<1>7. ASSUME NEW g \in Gens, PumpStep(g) \/ ReadFails(g) \/ Emit(g) \/ Exit(g)
      PROVE  UNCHANGED runtime \/ DropCycleRuntime(g)
  <2>1. CASE RetireRuntime(g)
    BY <2>1 DEF RetireRuntime, PumpAt, DropRuntime, Serving
  <2> QED
    BY <1>7, <2>1
       DEF PumpStep, ReadFails, Emit, Exit, PumpTake, OpenCycle, LoseCycle,
           Apply, FinishDelivery, CommitCycle, SignalCycleRuntime, ClaimCycle,
           PublishCycleIdle, ClearCycle, DrainRuntime, EndForeground, Release,
           RuntimeEnded, sessionVars
<1> QED
  BY <1>2, <1>3, <1>4, <1>5, <1>6, <1>7 DEF Next

\* A cycle is installed by a pump that serves, and taken away by the one that
\* settled it or by the end of its runtime.
LEMMA CycleOwnedStep ==
  ASSUME TypeOK, PumpHolds, ProcessInv, SettlesCycle, AddressedOpen, SilentFirst,
         OneForeground, TurnNamed, HeldIsCurrent, CycleOwned, [Next]_vars
  PROVE  CycleOwned'
<1> USE DEF TypeOK, RequestTypes, RuntimeTypes
<1> SUFFICES ASSUME cycle' # None, ~closing'
             PROVE  \/ \E g \in Gens : held'[g] = cycle' /\ pump'[g] \in Settlement
                    \/ RuntimeServes'
  BY DEF CycleOwned
<1>1. ~closing
  BY ClosingStays
<1>2. ASSUME NEW g \in Gens, OpenCycle(g), MayOpenCycle(g)
      PROVE  RuntimeServes'
  <2>1. runtime' = g /\ pump'[g] = "opened" /\ pump[g] = "opening"
    BY <1>2 DEF OpenCycle, MayOpenCycle
  <2>2. UNCHANGED <<pc, bound>> /\ g # NoGen
    BY <1>2 DEF OpenCycle, opVars, NoGen, Gens
  <2>3. ~Silent(g)
    BY <2>1 DEF PumpHolds, Silent
  <2>4. \A o \in Ops : pc[o] \in {"configuring", "stopping", "stopJoin"} =>
          bound[o] # g
    BY <2>3 DEF SilentFirst, Unopened
  <2> QED BY <2>1, <2>2, <2>4 DEF RuntimeServes, Serving, PumpPc
<1>3. CASE cycle' = cycle
  <2>1. ASSUME NEW g \in Gens, held[g] = cycle, pump[g] \in Settlement
        PROVE  held'[g] = cycle' /\ pump'[g] \in Settlement
    <3>1. CASE OffPump
      BY <1>3, <2>1, <3>1 DEF OffPump, Settlement
    <3>2. ASSUME NEW h \in Gens, PumpStep(h) \/ ReadFails(h)
          PROVE  held'[g] = cycle' /\ pump'[g] \in Settlement
      <4>1. CASE h # g
        BY <1>3, <2>1, <3>2, <4>1, PumpMoves
      <4>2. CASE h = g
        BY <1>3, <2>1, <3>2, <4>2
           DEF PumpStep, ReadFails, PumpTake, OpenCycle, LoseCycle, CycleLost,
               Apply, FinishDelivery, CommitCycle, SignalCycleRuntime,
               DropCycleRuntime, ClaimCycle, PublishCycleIdle, ClearCycle,
               DrainRuntime, EndForeground, RetireRuntime, Release, PumpAt,
               Settlement
      <4> QED BY <4>1, <4>2
    <3> QED BY <3>1, <3>2, OffPumpMoves
  <2>2. ASSUME RuntimeServes, NEW g \in Gens, DropCycleRuntime(g), runtime = g
        PROVE  held'[g] = cycle' /\ pump'[g] \in Settlement
    <3>1. pump[g] = "dropping" /\ pump'[g] = "claiming" /\ held' = held
      BY <2>2 DEF DropCycleRuntime, PumpAt
    <3>2. held[g] \in Cycles
      BY <3>1 DEF SettlesCycle, CycleStages, Settlement
    <3>3. cycle = held[g]
      BY <1>3, <2>2, <3>1, <3>2 DEF HeldIsCurrent, Holders
    <3> QED BY <1>3, <3>1, <3>3 DEF Settlement
  <2>3. ASSUME RuntimeServes, UNCHANGED runtime
        PROVE  RuntimeServes'
    <3>1. runtime \in Gens
      BY <2>3 DEF RuntimeServes
    <3>2. pump'[runtime] \in Serving
      <4>1. CASE OffPump
        BY <2>3, <3>1, <4>1 DEF OffPump, RuntimeServes, Serving, PumpPc
      <4>2. ASSUME NEW g \in Gens, PumpStep(g) \/ ReadFails(g)
            PROVE  pump'[runtime] \in Serving
        <5>1. cycle' = CycleAfterEnd => cycle' = None
          BY <1>1 DEF CycleAfterEnd
        <5> QED BY <2>3, <3>1, <4>2, <5>1, PumpMoves DEF RuntimeServes
      <4> QED BY <4>1, <4>2, OffPumpMoves
    <3>3. ASSUME NEW o \in Ops,
                 pc'[o] \in {"configuring", "stopping", "stopJoin"}
          PROVE  bound'[o] # runtime
      <4>1. pc[o] # "launching" /\ pc[o] # "binding"
        BY <2>3, <3>1 DEF ProcessInv, LaunchesAlone, RuntimeServes
      <4>2. pc[o] \in Unopened /\ bound'[o] = bound[o]
        BY <3>3, <4>1, UnopenedMove DEF Unopened
      <4> QED BY <2>3, <4>1, <4>2 DEF RuntimeServes, Unopened
    <3> QED BY <2>3, <3>1, <3>2, <3>3 DEF RuntimeServes
  <2>4. ASSUME RuntimeServes, runtime' # runtime
        PROVE  \E g \in Gens : DropCycleRuntime(g) /\ runtime = g
    <3>1. PICK g \in Gens : DropCycleRuntime(g)
      BY <1>1, <1>3, <2>4, CycleKeepsRuntime
    <3> QED BY <2>4, <3>1 DEF DropCycleRuntime, DropRuntime
  <2> QED BY <1>1, <1>3, <2>1, <2>2, <2>3, <2>4 DEF CycleOwned
<1> QED BY <1>2, <1>3, CycleMoves

\* What the owner of a cycle rests on.
CycleInv == TurnNamed /\ HeldIsCurrent /\ CycleOwned

\* In every behaviour.
LEMMA CyclesHold ==
  ASSUME EarlyWork = FALSE
  PROVE  Spec => []CycleInv
<1>1. Init => CycleInv
  BY NamesAssumption
     DEF Init, CycleInv, TurnNamed, InTurn, HeldIsCurrent, Holders, CycleOwned, Ops
<1>2. TypeOK /\ PumpHolds /\ GateExclusive /\ ProcessInv /\ SettlesCycle
        /\ AddressedOpen /\ OpeningInv /\ OneForeground /\ CycleInv /\ [Next]_vars
        => CycleInv'
  BY TurnNamedStep, HeldIsCurrentStep, CycleOwnedStep DEF CycleInv, OpeningInv
<1> QED
  BY <1>1, <1>2, TypeInvariant, GateIsExclusive, FreshHolds, VerdictsHold,
     OpeningHolds, ForegroundIsOne, PTL DEF Spec

\* An installed cycle always has somebody who will clear it: the pump that settles
\* it, the bound runtime whose pump still takes records, or the ladder.  So no cycle
\* refuses every later prompt for good.
THEOREM CyclesHaveOwners ==
  ASSUME EarlyWork = FALSE
  PROVE  Spec => []CycleHasOwner
<1>1. CycleInv => CycleHasOwner
  BY DEF CycleInv, CycleOwned, RuntimeServes, Serving, CycleHasOwner
<1> QED BY <1>1, CyclesHold, PTL

-----------------------------------------------------------------------------
(* The idle a cycle is owed.                                               *)

\* A foreground is announced on an incarnation that was opened, and on none that
\* is still to open.
AcceptedPast == \A f \in Foregrounds : acceptedIn[f] \in (0..gens) \cup {NotYet}

AcceptedFresh ==
  /\ \A o \in Ops : pc[o] \in Unopened =>
       \A f \in Foregrounds : acceptedIn[f] # bound[o]
  /\ pc[Establish] \in {"commit", "open"} =>
       \A f \in Foregrounds : acceptedIn[f] # 1

\* Cycles are numbered as they start.
CycleNames ==
  /\ cycle \in Cycles => cycle <= cycles
  /\ \A g \in Gens : held[g] \in Cycles => held[g] <= cycles
  /\ \A c \in Cycles : c > cycles => acceptedIn[c] = NotYet

\* The host has seen the idle of the foreground.
Ended(f) == \E t \in terminals : t.fg = f

\* The open incarnation has the idle of a cycle it announced, or the cycle is still
\* the session's, or its runtime is ending it; whoever clears it has published it.
CycleOwed ==
  stream # NoGen =>
    \A c \in Cycles : acceptedIn[c] = stream =>
      /\ \/ Ended(c)
         \/ cycle = c
         \/ \E g \in Gens : held[g] = c /\ pump[g] = "endJoin"
      /\ \A g \in Gens : held[g] = c /\ pump[g] = "clearing" => Ended(c)

\* A foreground is announced once, on the open incarnation or on none.
LEMMA AcceptMoves ==
  ASSUME TypeOK, [Next]_vars, NEW f \in Foregrounds
  PROVE  \/ acceptedIn'[f] = acceptedIn[f]
         \/ acceptedIn[f] = NotYet /\ acceptedIn'[f] = stream
<1> USE DEF TypeOK, StreamTypes
<1>1. CASE UNCHANGED acceptedIn
  BY <1>1
<1>2. CASE UNCHANGED vars
  BY <1>1, <1>2 DEF vars, pubVars
<1>3. CASE EstablishCommit \/ EstablishOpen
  BY <1>1, <1>3 DEF EstablishCommit, EstablishOpen
<1>4. ASSUME NEW o \in Prompts \cup Reads, AcquireGate(o) \/ RequestStep(o)
      PROVE  UNCHANGED acceptedIn
  BY <1>4
     DEF AcquireGate, RequestStep, CheckBusy, EnsureRuntime, JoinEnding, Launch,
         Bind, OpenStream, StopSignal, StopJoin, UseRuntime, ReleaseGate,
         pubVars
<1>5. ASSUME NEW p \in Prompts, TurnStep(p)
      PROVE  \/ acceptedIn'[f] = acceptedIn[f]
             \/ acceptedIn[f] = NotYet /\ acceptedIn'[f] = stream
  <2>1. CASE AcceptTurn(p)
    BY <2>1 DEF AcceptTurn, Accept
  <2> QED
    BY <1>1, <1>5, <2>1
       DEF TurnStep, InstallTurn, Dispatch, AbortExpires, BeginSettlement,
           CommitTurn, SignalTurnRuntime, DropTurnRuntime, FenceLostTransport,
           ClaimTurn, PublishTurnIdle, Unwind, pubVars
<1>6. ASSUME NEW g \in Gens, PumpStep(g) \/ ReadFails(g) \/ Emit(g) \/ Exit(g)
      PROVE  \/ acceptedIn'[f] = acceptedIn[f]
             \/ acceptedIn[f] = NotYet /\ acceptedIn'[f] = stream
  <2>1. CASE OpenCycle(g)
    BY <2>1 DEF OpenCycle, Accept
  <2>2. CASE Apply(g)
    BY <2>2 DEF Apply, Accept
  <2> QED
    BY <1>1, <1>6, <2>1, <2>2
       DEF PumpStep, ReadFails, Emit, Exit, PumpTake, LoseCycle, FinishDelivery,
           CommitCycle, SignalCycleRuntime, DropCycleRuntime, ClaimCycle,
           PublishCycleIdle, ClearCycle, DrainRuntime, EndForeground,
           RetireRuntime, Release, RuntimeEnded, pubVars
<1>7. CASE Cancel \/ (\E i \in callbacks : Abort(i)) \/ BeginClose \/ CloseStep
  BY <1>1, <1>7
     DEF Cancel, Abort, BeginClose, CloseStep, CloseAbort, CloseStop,
         CloseJoinPump, CloseCommit, CloseFence, pubVars
<1> QED
  BY <1>2, <1>3, <1>4, <1>5, <1>6, <1>7 DEF Next

\* So an incarnation that is about to open has announced nothing.
LEMMA AcceptedStep ==
  ASSUME TypeOK, PumpHolds, ProcessInv, FreshStream, AcceptedPast,
         AcceptedFresh, [Next]_vars
  PROVE  AcceptedPast' /\ AcceptedFresh'
<1>1. /\ gens' \in {gens, gens + 1} /\ gens' \in 1..MaxGen
      /\ gens \in Nat /\ MaxGen \in Nat
  <2>1. TypeOK'
    BY NextTyped
  <2>2. gens \in Gens /\ gens' \in Gens
    BY <2>1 DEF TypeOK, RuntimeTypes
  <2>3. MaxGen \in Nat
    BY BoundsAssumption
  <2> QED BY <2>2, <2>3, GensGrow DEF Gens
<1>2. ASSUME NEW f \in Foregrounds
      PROVE  /\ acceptedIn'[f] \in {acceptedIn[f], stream}
             /\ acceptedIn[f] \in (0..gens) \cup {NotYet} /\ stream \in 0..gens
  BY AcceptMoves DEF AcceptedPast, FreshStream
<1>3. AcceptedPast'
  <2> SUFFICES ASSUME NEW f \in Foregrounds
               PROVE  acceptedIn'[f] \in (0..gens') \cup {NotYet}
    BY DEF AcceptedPast, NotYet
  <2>1. 0..gens \subseteq 0..gens'
    BY <1>1
  <2> QED BY <1>2, <2>1
<1>4. ASSUME NEW o \in Ops, pc'[o] \in Unopened, NEW f \in Foregrounds
      PROVE  acceptedIn'[f] # bound'[o]
  <2>1. CASE pc[o] \in Unopened /\ bound'[o] = bound[o]
    BY <1>2, <2>1 DEF FreshStream, AcceptedFresh
  <2>2. CASE bound'[o] = gens + 1 /\ gens' = gens + 1
    <3>1. gens + 1 \notin (0..gens) \cup {NotYet}
      BY <1>1, <2>2 DEF NotYet
    <3> QED BY <1>2, <2>2, <3>1
  <2> QED BY <1>4, <2>1, <2>2, UnopenedMove
<1>5. ASSUME pc'[Establish] \in {"commit", "open"}, NEW f \in Foregrounds
      PROVE  acceptedIn'[f] # 1
  <2>1. pc[Establish] \in {"commit", "open"}
    BY <1>5, EstablishMoves
  <2> QED BY <1>2, <2>1 DEF FreshStream, AcceptedFresh, NoGen
<1>6. AcceptedFresh'
  BY <1>4, <1>5 DEF AcceptedFresh
<1> QED BY <1>3, <1>6

\* Only a pump that opens a cycle announces one; the others drop or end it.
LEMMA CyclesKept ==
  ASSUME TypeOK, NEW g \in Gens, PumpStep(g) \/ ReadFails(g),
         ~(OpenCycle(g) /\ MayOpenCycle(g))
  PROVE  /\ UNCHANGED cycles /\ cycle' \in {cycle, None}
         /\ held'[g] \in {held[g], None, turn, cycle}
         /\ \A c \in Cycles : acceptedIn'[c] = acceptedIn[c]
<1> USE CyclesApart
    DEF TypeOK, RequestTypes, RuntimeTypes, StreamTypes
<1>1. UNCHANGED cycles /\ cycle' \in {cycle, None}
  BY DEF PumpStep, ReadFails, PumpTake, OpenCycle, LoseCycle, Apply,
         FinishDelivery, CommitCycle, SignalCycleRuntime, DropCycleRuntime,
         ClaimCycle, PublishCycleIdle, ClearCycle, DrainRuntime,
         EndForeground, RetireRuntime, Release, RuntimeEnded, CycleAfterEnd,
         ghostVars, sessionVars
<1>2. held'[g] \in {held[g], None, turn, cycle}
  BY DEF PumpStep, ReadFails, PumpTake, OpenCycle, LoseCycle, Apply,
         FinishDelivery, CommitCycle, SignalCycleRuntime, DropCycleRuntime,
         ClaimCycle, PublishCycleIdle, ClearCycle, DrainRuntime,
         EndForeground, RetireRuntime, Release, RuntimeEnded, Routed,
         Foreground, pumpVars
<1>3. \A c \in Cycles : acceptedIn'[c] = acceptedIn[c]
  <2>1. CASE Apply(g)
    BY <2>1 DEF Apply, Accept, Foregrounds
  <2> QED
    BY <2>1
       DEF PumpStep, ReadFails, PumpTake, OpenCycle, LoseCycle,
           FinishDelivery, CommitCycle, SignalCycleRuntime,
           DropCycleRuntime, ClaimCycle, PublishCycleIdle, ClearCycle,
           DrainRuntime, EndForeground, RetireRuntime, Release, RuntimeEnded,
           pubVars
<1> QED BY <1>1, <1>2, <1>3

\* The next cycle has a name of its own.
LEMMA CycleNamesStep ==
  ASSUME TypeOK, ProcessInv, PumpHolds, CycleNames, [Next]_vars
  PROVE  CycleNames'
<1> USE CyclesApart
    DEF TypeOK, RequestTypes, RuntimeTypes, StreamTypes, BoundTypes, CycleNames
<1>1. CASE OffPump
  BY <1>1 DEF OffPump
<1>2. ASSUME NEW g \in Gens, PumpStep(g) \/ ReadFails(g)
      PROVE  CycleNames'
  <2>1. CASE OpenCycle(g) /\ MayOpenCycle(g)
    <3>1. /\ cycles' = cycles + 1 /\ cycle' = cycles + 1
          /\ held' = [held EXCEPT ![g] = cycles + 1]
      BY <2>1 DEF OpenCycle
    <3>2. cycles \in Nat /\ Cycles \subseteq Nat
      BY BoundsAssumption DEF Cycles
    <3>3. ASSUME NEW c \in Cycles, c # cycles + 1
          PROVE  acceptedIn'[c] = acceptedIn[c]
      BY <2>1, <3>3 DEF OpenCycle, Accept, Foregrounds
    <3>4. ASSUME NEW h \in Gens, held'[h] \in Cycles
          PROVE  held'[h] <= cycles + 1
      <4>1. CASE h = g
        BY <3>1, <3>2, <4>1
      <4>2. CASE h # g
        <5>1. held'[h] = held[h]
          BY <3>1, <4>2
        <5>2. held[h] \in Nat /\ held[h] <= cycles
          BY <3>2, <3>4, <5>1
        <5>3. \A n \in Nat : n <= cycles => n <= cycles + 1
          BY <3>2
        <5> QED BY <5>1, <5>2, <5>3
      <4> QED BY <4>1, <4>2
    <3>5. ASSUME NEW c \in Cycles, c > cycles + 1
          PROVE  acceptedIn'[c] = NotYet
      <4>1. c > cycles /\ c # cycles + 1
        BY <3>2, <3>5
      <4> QED BY <3>3, <4>1
    <3> QED BY <3>1, <3>2, <3>4, <3>5
  <2>2. CASE ~(OpenCycle(g) /\ MayOpenCycle(g))
    <3>1. /\ UNCHANGED cycles /\ cycle' \in {cycle, None}
          /\ held'[g] \in {held[g], None, turn, cycle}
          /\ \A c \in Cycles : acceptedIn'[c] = acceptedIn[c]
      BY <1>2, <2>2, CyclesKept
    <3>2. \A h \in Gens \ {g} : held'[h] = held[h]
      BY <1>2, PumpMoves
    <3> QED BY <3>1, <3>2
  <2> QED BY <2>1, <2>2
<1> QED BY <1>1, <1>2, OffPumpMoves

\* What is published on an open incarnation has been seen.
LEMMA Publishes ==
  ASSUME NEW f, NEW outcome, PublishIdle(f, outcome), stream # NoGen
  PROVE  Ended(f)'
<1> DEFINE t == [fg |-> f, inc |-> stream, outcome |-> outcome,
                 durable |-> f \notin dirty]
<1>1. t \in terminals'
  BY DEF PublishIdle
<1>2. t.fg = f
  OBVIOUS
<1> HIDE DEF t
<1> QED BY <1>1, <1>2 DEF Ended

\* A pump step that leaves the stream alone owes no cycle more than before.
LEMMA PumpOwes ==
  ASSUME TypeOK, PumpHolds, SettlesCycle, OneForeground, CycleNames, CycleOwed,
         [Next]_vars, NEW g \in Gens, PumpStep(g) \/ ReadFails(g),
         stream' = stream, stream # NoGen
  PROVE  CycleOwed'
<1> USE CyclesApart DEF TypeOK, RequestTypes, RuntimeTypes, StreamTypes
<1> SUFFICES ASSUME NEW c \in Cycles, acceptedIn'[c] = stream
             PROVE  /\ \/ Ended(c)'
                       \/ cycle' = c
                       \/ \E h \in Gens : held'[h] = c /\ pump'[h] = "endJoin"
                    /\ \A h \in Gens : held'[h] = c /\ pump'[h] = "clearing"
                                         => Ended(c)'
  BY DEF CycleOwed
<1>1. Ended(c) => Ended(c)'
  BY TerminalsGrow DEF Ended
<1>2. \A h \in Gens \ {g} : pump'[h] = pump[h] /\ held'[h] = held[h]
  BY PumpMoves
<1>3. CASE OpenCycle(g) /\ MayOpenCycle(g)
  <2>1. /\ cycles' = cycles + 1 /\ cycle' = cycles + 1 /\ cycle = None
        /\ pump[g] = "opening" /\ pump'[g] = "opened"
        /\ acceptedIn' = acceptedIn
             \/ acceptedIn' = [acceptedIn EXCEPT ![cycles + 1] = stream]
    BY <1>3 DEF OpenCycle, MayOpenCycle, Accept
  <2>2. CASE c = cycles + 1
    <3>1. \A h \in Gens : held[h] # c
      BY <2>2, BoundsAssumption DEF CycleNames, Cycles, BoundTypes
    <3> QED BY <1>2, <2>1, <2>2, <3>1
  <2>3. CASE c # cycles + 1
    <3>1. acceptedIn[c] = stream
      BY <2>1, <2>3 DEF Foregrounds
    <3>2. cycle # c
      BY <2>1
    <3>3. Ended(c) \/ \E h \in Gens \ {g} : held[h] = c /\ pump[h] = "endJoin"
      BY <2>1, <3>1, <3>2 DEF CycleOwed
    <3>4. \A h \in Gens \ {g} : held[h] = c /\ pump[h] = "clearing" => Ended(c)
      BY <3>1 DEF CycleOwed
    <3> QED BY <1>1, <1>2, <2>1, <3>3, <3>4
  <2> QED BY <2>2, <2>3
<1>4. CASE ~(OpenCycle(g) /\ MayOpenCycle(g))
  <2>1. /\ acceptedIn[c] = stream
        /\ \/ Ended(c)
           \/ cycle = c
           \/ \E h \in Gens : held[h] = c /\ pump[h] = "endJoin"
        /\ \A h \in Gens : held[h] = c /\ pump[h] = "clearing" => Ended(c)
    BY <1>4, CyclesKept DEF CycleOwed
  <2>2. pump[g] = "endJoin" /\ held[g] = c => Ended(c)'
    <3> SUFFICES ASSUME pump[g] = "endJoin", held[g] = c PROVE Ended(c)'
      OBVIOUS
    <3>1. EndForeground(g)
      BY DEF PumpStep, ReadFails, PumpTake, OpenCycle, LoseCycle, CycleLost,
             Apply, FinishDelivery, CommitCycle, SignalCycleRuntime,
             DropCycleRuntime, ClaimCycle, PublishCycleIdle, ClearCycle,
             DrainRuntime, RetireRuntime, Release, PumpAt
    <3> QED BY <3>1, Publishes DEF EndForeground, EndsWithRuntime
  <2>3. pump'[g] = "clearing" /\ held'[g] = c => Ended(c)'
    <3> SUFFICES ASSUME pump'[g] = "clearing", held'[g] = c PROVE Ended(c)'
      OBVIOUS
    <3>1. PublishCycleIdle(g)
      BY DEF PumpStep, ReadFails, PumpTake, OpenCycle, LoseCycle, CycleLost,
             Apply, FinishDelivery, CommitCycle, SignalCycleRuntime,
             DropCycleRuntime, ClaimCycle, ClearCycle, DrainRuntime,
             EndForeground, RetireRuntime, Release, RuntimeEnded, Routed, PumpAt
    <3> QED BY <3>1, Publishes DEF PublishCycleIdle, PumpAt
  <2>4. ASSUME cycle = c, cycle' # c
        PROVE  \/ Ended(c)'
               \/ held'[g] = c /\ pump'[g] = "endJoin"
    <3>1. CASE ClearCycle(g)
      BY <1>1, <2>1, <2>4, <3>1 DEF ClearCycle
    <3>2. CASE DrainRuntime(g) \/ ReadFails(g)
      <4>1. RuntimeEnded(g) /\ turn = None
        BY <2>4, <3>2 DEF DrainRuntime, ReadFails, OneForeground
      <4> QED BY <2>4, <4>1 DEF RuntimeEnded, CycleAfterEnd, Foreground
    <3> QED
      BY <1>4, <2>4, <3>1, <3>2
         DEF PumpStep, PumpTake, OpenCycle, LoseCycle, Apply, FinishDelivery,
             CommitCycle, SignalCycleRuntime, DropCycleRuntime, ClaimCycle,
             PublishCycleIdle, EndForeground, RetireRuntime, Release,
             sessionVars
  <2>5. \A h \in Gens : held'[h] = c /\ pump'[h] = "clearing" => Ended(c)'
    BY <1>1, <1>2, <2>1, <2>3
  <2>6. \/ Ended(c)'
        \/ cycle' = c
        \/ \E h \in Gens : held'[h] = c /\ pump'[h] = "endJoin"
    BY <1>1, <1>2, <2>1, <2>2, <2>4
  <2> QED BY <2>5, <2>6
<1> QED BY <1>3, <1>4

\* A cycle is owed its idle until it is out, or its incarnation is over.
LEMMA CycleOwedStep ==
  ASSUME TypeOK, PumpHolds, ProcessInv, SettlesCycle, OneForeground, FreshStream,
         AcceptedFresh, CycleNames, CycleOwed, [Next]_vars
  PROVE  CycleOwed'
<1> USE DEF TypeOK, RuntimeTypes, StreamTypes
<1>1. CASE stream' = NoGen
  BY <1>1 DEF CycleOwed
<1>2. CASE stream' # NoGen /\ stream' # stream
  <2>1. \A c \in Cycles : acceptedIn'[c] # stream'
    <3> SUFFICES ASSUME NEW c \in Foregrounds PROVE acceptedIn'[c] # stream'
      BY DEF Foregrounds
    <3>1. acceptedIn[c] # stream'
      <4>1. CASE OpensFirst
        BY <4>1 DEF OpensFirst, AcceptedFresh
      <4>2. ASSUME NEW o \in Prompts \cup Reads, Opens(o)
            PROVE  acceptedIn[c] # stream'
        BY <4>2 DEF Opens, AcceptedFresh, Unopened, Ops
      <4> QED BY <1>2, <4>1, <4>2, StreamMoves DEF StreamKeptOrFenced
    <3> QED BY <1>2, <3>1, AcceptMoves
  <2> QED BY <2>1 DEF CycleOwed
<1>3. CASE stream' = stream /\ stream # NoGen
  <2>1. CASE OffPump
    <3>1. \A c \in Cycles : Ended(c) => Ended(c)'
      BY TerminalsGrow DEF Ended
    <3>2. /\ UNCHANGED <<held, cycle>>
          /\ \A c \in Cycles : acceptedIn'[c] = acceptedIn[c]
      BY <1>3, <2>1 DEF OffPump
    <3>3. \A g \in Gens :
            /\ pump[g] = "endJoin" => pump'[g] = "endJoin"
            /\ pump'[g] = "clearing" => pump[g] = "clearing"
      BY <2>1 DEF OffPump
    <3> QED BY <1>3, <3>1, <3>2, <3>3 DEF CycleOwed
  <2>2. ASSUME NEW g \in Gens, PumpStep(g) \/ ReadFails(g) PROVE CycleOwed'
    BY <1>3, <2>2, PumpOwes
  <2> QED BY <2>1, <2>2, OffPumpMoves
<1> QED BY <1>1, <1>2, <1>3

\* The announcements, the names of the cycles and what is owed to them.
AnnouncedInv == AcceptedPast /\ AcceptedFresh /\ CycleNames /\ CycleOwed

\* In every behaviour.
LEMMA AnnouncedHolds == Spec => []AnnouncedInv
<1>1. Init => AnnouncedInv
  <2> SUFFICES ASSUME Init PROVE AnnouncedInv
    OBVIOUS
  <2> USE DEF Init
  <2>1. MaxGen \in Nat \ {0}
    BY BoundsAssumption
  <2>2. AcceptedPast
    BY DEF AcceptedPast
  <2>3. AcceptedFresh
    <3>1. \A o \in Ops : pc[o] \notin Unopened
      BY DEF Unopened
    <3> QED BY <2>1, <3>1 DEF AcceptedFresh, NotYet
  <2>4. CycleNames
    BY CyclesApart DEF CycleNames, Foregrounds
  <2>5. CycleOwed
    BY DEF CycleOwed
  <2> QED BY <2>2, <2>3, <2>4, <2>5 DEF AnnouncedInv
<1>2. TypeOK /\ PumpHolds /\ ProcessInv /\ SettlesCycle /\ OneForeground
        /\ FreshStream /\ AnnouncedInv /\ [Next]_vars => AnnouncedInv'
  BY AcceptedStep, CycleNamesStep, CycleOwedStep DEF AnnouncedInv
<1> QED
  BY <1>1, <1>2, TypeInvariant, FreshHolds, VerdictsHold, ForegroundIsOne, PTL
     DEF Spec

\* An open incarnation owes a terminal idle to every cycle it announced until the
\* idle is out: whichever of the settling pump, the end of the runtime and the
\* ladder takes the cycle away, it publishes the idle or fences the incarnation.
THEOREM CyclesAreOwed == Spec => []CycleTerminalOwed
<1>1. AnnouncedInv => CycleTerminalOwed
  BY DEF AnnouncedInv, CycleOwed, Ended, CycleTerminalOwed
<1> QED BY <1>1, AnnouncedHolds, PTL
=============================================================================
