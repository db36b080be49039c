----------------------------- MODULE EndingProofs -----------------------------
(***************************************************************************)
(* How the foregrounds of one session end on its stream: each once, on     *)
(* the incarnation that announced it, and a settled turn always.           *)
(*                                                                         *)
(* The idle of a cycle may come from the pump that settled it, from the    *)
(* end of its runtime and from the ladder.  Two of them never meet at the  *)
(* same cycle, because a cycle is worked on by one pump, that pump is of   *)
(* the bound runtime until it gives the runtime up, and the ladder ends a  *)
(* cycle only after it joined that pump or after its stream was fenced.    *)
(* With a read that relaunches the runtime under a cycle that still        *)
(* settles, or with a join of the pump that expires, they do meet: the     *)
(* theorems exclude both.                                                  *)
(*                                                                         *)
(* A turn ends where it was announced because the incarnation it found     *)
(* stays open until its settlement fences it: the end of its runtime waits *)
(* for it (runtimeEnded joins t.finished), and it launches nothing once it *)
(* is accepted.  A join of the turn that expires breaks the first.         *)
(*                                                                         *)
(* A closed session leaves no process running, because whoever gives up a  *)
(* runtime has signalled it or saw its stream end.  A join of the turn or  *)
(* of the child that expires gives it up on neither ground.                *)
(*                                                                         *)
(* Together this makes the session an implementation of HostStream: what   *)
(* is left to show is that whatever is announced finds nothing owed.       *)
(***************************************************************************)
EXTENDS StreamProofs

-----------------------------------------------------------------------------
(* What is known of a session so far.                                      *)

SessionInv ==
  /\ TypeOK /\ PumpHolds /\ GateExclusive /\ ProcessInv /\ SettlesCycle
  /\ OneForeground /\ AddressedOpen /\ FreshStream /\ OpeningInv /\ ClosedInv
  /\ CycleInv /\ AnnouncedInv

LEMMA SessionHolds ==
  ASSUME EarlyWork = FALSE
  PROVE  Spec => []SessionInv
BY TypeInvariant, GateIsExclusive, FreshHolds, VerdictsHold, ForegroundIsOne,
   OpeningHolds, ClosedHolds, CyclesHold, AnnouncedHolds, PTL DEF SessionInv

\* A pump that was not started, or is over, makes no step.
LEMMA PumpWorks ==
  ASSUME NEW g \in Gens, PumpStep(g) \/ ReadFails(g)
  PROVE  pump[g] \notin {"none", "done"}
BY DEF PumpStep, ReadFails, PumpTake, OpenCycle, LoseCycle, CycleLost, Apply,
       FinishDelivery, CommitCycle, SignalCycleRuntime, DropCycleRuntime,
       ClaimCycle, PublishCycleIdle, ClearCycle, DrainRuntime, EndForeground,
       RetireRuntime, Release, PumpAt

-----------------------------------------------------------------------------
(* What the ladder knows of the runtime it found.                          *)

\* A pump is over once its rt.done is closed.
DoneIsOver == \A g \in Gens : done[g] => pump[g] \in {"none", "done"}

\* The incarnation that is open while the session closes is that of the runtime
\* the ladder found.
CloseKnows == closing => stream \in {closeRt, NoGen}

\* The ladder goes on when the pump of that runtime is over.
CloseJoined == closePc \in Emptied /\ closeRt # NoGen => done[closeRt]

\* rt.done is closed by the pump at its end, or by a launch that never started one.
LEMMA DoneMoves ==
  ASSUME TypeOK, [Next]_vars, NEW g \in Gens
  PROVE  /\ done[g] => done'[g]
         /\ \/ done'[g] = done[g]
            \/ Release(g)
            \/ UNCHANGED pump /\ \E o \in Ops : pc[o] = "binding" /\ bound[o] = g
<1> USE DEF TypeOK, RuntimeTypes
<1>1. CASE UNCHANGED done
  BY <1>1
<1>2. CASE UNCHANGED vars
  BY <1>1, <1>2 DEF vars, pumpVars
<1>3. CASE EstablishCommit \/ EstablishOpen
  BY <1>1, <1>3 DEF EstablishCommit, EstablishOpen, pumpVars
<1>4. ASSUME NEW o \in Prompts \cup Reads, AcquireGate(o) \/ RequestStep(o)
      PROVE  /\ done[g] => done'[g]
             /\ \/ done'[g] = done[g]
                \/ UNCHANGED pump /\ pc[o] = "binding" /\ bound[o] = g
  <2>1. CASE Bind(o)
    BY <2>1 DEF Bind
  <2> QED
    BY <1>1, <1>4, <2>1
       DEF AcquireGate, RequestStep, CheckBusy, EnsureRuntime, JoinEnding,
           Launch, OpenStream, StopSignal, StopJoin, UseRuntime, ReleaseGate,
           pumpVars
<1>5. ASSUME NEW p \in Prompts, TurnStep(p) PROVE UNCHANGED done
  BY <1>5
     DEF TurnStep, InstallTurn, Dispatch, AcceptTurn, AbortExpires,
         BeginSettlement, CommitTurn, SignalTurnRuntime, DropTurnRuntime,
         FenceLostTransport, ClaimTurn, PublishTurnIdle, Unwind, pumpVars
<1>6. ASSUME NEW h \in Gens, PumpStep(h) \/ ReadFails(h) \/ Emit(h) \/ Exit(h)
      PROVE  /\ done[g] => done'[g]
             /\ done'[g] = done[g] \/ Release(g)
  <2>1. CASE Release(h)
    BY <2>1 DEF Release
  <2> QED
    BY <1>1, <1>6, <2>1
       DEF PumpStep, ReadFails, Emit, Exit, PumpTake, OpenCycle, LoseCycle,
           Apply, FinishDelivery, CommitCycle, SignalCycleRuntime,
           DropCycleRuntime, ClaimCycle, PublishCycleIdle, ClearCycle,
           DrainRuntime, EndForeground, RetireRuntime, RuntimeEnded, pumpVars
<1>7. CASE Cancel \/ (\E i \in callbacks : Abort(i)) \/ BeginClose \/ CloseStep
  BY <1>1, <1>7
     DEF Cancel, Abort, BeginClose, CloseStep, CloseAbort, CloseStop,
         CloseJoinPump, CloseCommit, CloseFence, pumpVars
<1>8. \A o \in Prompts \cup Reads : o \in Ops
  BY DEF Ops
<1> QED
  BY <1>1, <1>2, <1>3, <1>4, <1>5, <1>6, <1>7, <1>8 DEF Next

LEMMA DoneIsOverStep ==
  ASSUME SessionInv, SessionInv', DoneIsOver, [Next]_vars
  PROVE  DoneIsOver'
<1> USE DEF SessionInv, TypeOK, RuntimeTypes
<1> SUFFICES ASSUME NEW g \in Gens, done'[g] PROVE pump'[g] \in {"none", "done"}
  BY DEF DoneIsOver
<1>1. CASE done[g]
  <2>1. pump[g] \in {"none", "done"}
    BY <1>1 DEF DoneIsOver
  <2>2. CASE OffPump
    <3>1. runtime' # g
      BY DEF ProcessInv, GoneIsUnbound
    <3> QED BY <2>1, <2>2, <3>1 DEF OffPump
  <2>3. ASSUME NEW h \in Gens, PumpStep(h) \/ ReadFails(h)
        PROVE  pump'[g] = pump[g]
    BY <2>1, <2>3, PumpWorks, PumpMoves
  <2> QED BY <2>1, <2>2, <2>3, OffPumpMoves
<1>2. CASE Release(g)
  BY <1>2 DEF Release, PumpAt
<1>3. ASSUME NEW o \in Ops, UNCHANGED pump, pc[o] = "binding", bound[o] = g
      PROVE  pump'[g] = "none"
  BY <1>3 DEF ProcessInv, LaunchesAlone
<1> QED BY <1>1, <1>2, <1>3, DoneMoves

\* The ladder finds the runtime whose incarnation is open.
LEMMA CloseKnowsStep ==
  ASSUME SessionInv, SessionInv', CloseKnows, [Next]_vars
  PROVE  CloseKnows'
<1> USE DEF SessionInv
<1>1. CASE closing
  <2>1. stream' \in {stream, NoGen}
    BY <1>1, StreamMoves DEF StreamKeptOrFenced, Opens, OpensFirst, Openable
  <2>2. closeRt' = closeRt
    <3>1. ~BeginClose
      BY <1>1 DEF AddressedOpen, BeginClose, CloseAt
    <3> QED
      BY <3>1, LadderMoves
         DEF closeVars, CloseStep, CloseAbort, CloseStop, CloseJoinPump,
             CloseCommit, CloseFence
  <2> QED BY <1>1, <2>1, <2>2 DEF CloseKnows
<1>2. CASE ~closing /\ closing'
  <2>1. BeginClose
    BY <1>2, LadderMoves
       DEF AddressedOpen, closeVars, CloseStep, CloseAbort, CloseStop,
           CloseJoinPump, CloseCommit, CloseFence, CloseAt
  <2> QED
    BY <1>2, <2>1 DEF BeginClose, pubVars, OpeningInv, StreamOfRuntime, CloseKnows
<1> QED BY <1>1, <1>2 DEF CloseKnows

LEMMA CloseJoinedStep ==
  ASSUME "pump" \notin Expiring, SessionInv, CloseJoined, [Next]_vars
  PROVE  CloseJoined'
<1> USE DEF SessionInv, CloseJoined, Emptied, TypeOK, CloseTypes
<1>1. closeRt # NoGen /\ done[closeRt] => done'[closeRt]
  BY DoneMoves
<1>2. CASE UNCHANGED closeVars
  BY <1>1, <1>2 DEF closeVars
<1>3. CASE BeginClose
  BY <1>3 DEF BeginClose, CloseAt
<1>4. CASE CloseAbort
  BY <1>4 DEF CloseAbort, CloseAt
<1>5. CASE CloseStop
  BY <1>5 DEF CloseStop
<1>6. CASE CloseJoinPump
  BY <1>1, <1>6 DEF CloseJoinPump, CloseAt, Expires
<1>7. CASE CloseCommit \/ CloseFence
  BY <1>1, <1>7 DEF CloseCommit, CloseFence
<1> QED BY <1>2, <1>3, <1>4, <1>5, <1>6, <1>7, LadderMoves DEF CloseStep

\* The pump of an incarnation that is still open is over when the ladder comes to
\* the cycle.
LEMMA LadderEndsAlone ==
  ASSUME SessionInv, DoneIsOver, CloseKnows, CloseJoined, closePc \in Emptied,
         stream # NoGen
  PROVE  stream \in Gens /\ pump[stream] \in {"none", "done"}
<1> USE DEF SessionInv
<1>1. closing
  BY DEF AddressedOpen, Emptied
<1>2. stream = closeRt /\ done[closeRt]
  BY <1>1 DEF CloseKnows, CloseJoined
<1>3. stream \in Gens
  BY DEF TypeOK, StreamTypes
<1> QED BY <1>2, <1>3 DEF DoneIsOver

-----------------------------------------------------------------------------
(* Who works on a cycle.                                                   *)

\* The pump works for a cycle, or ends it with its runtime.
HoldsCycle(g) == pump[g] \in Holders /\ held[g] \in Cycles
EndsCycle(g)  == pump[g] = "endJoin" /\ held[g] \in Cycles

\* No cycle begins before the opening.
QuietFirst == pc[Establish] \in {"commit", "open"} => cycles = 0

\* One pump works for a cycle, that of the session, and the session has no other
\* runtime and no other open incarnation as long as it does.
CycleAlone ==
  \A g \in Gens : HoldsCycle(g) =>
    /\ cycle = held[g] \/ closePc = "closed"
    /\ runtime \in {g, NoGen}
    /\ stream \in {g, NoGen}
    /\ \A h \in Gens : HoldsCycle(h) => h = g

\* A cycle that ends with its runtime has left the session, and ends once.
CycleLeaves ==
  \A g \in Gens : EndsCycle(g) =>
    /\ cycle # held[g]
    /\ \A h \in Gens : EndsCycle(h) /\ held[h] = held[g] => h = g

\* A pump comes to a cycle from the session that is bound to its runtime.
LEMMA CycleTaken ==
  ASSUME SessionInv, [Next]_vars, NEW g \in Gens, HoldsCycle(g)'
  PROVE  \/ HoldsCycle(g) /\ held'[g] = held[g]
         \/ /\ PumpTake(g) /\ runtime = g /\ cycle \in Cycles /\ held'[g] = cycle
            /\ UNCHANGED <<cycle, runtime, stream>>
         \/ /\ OpenCycle(g) /\ MayOpenCycle(g) /\ held'[g] = cycle'
            /\ UNCHANGED <<runtime, stream>>
<1> USE CyclesApart DEF SessionInv, TypeOK, RequestTypes, RuntimeTypes, HoldsCycle
<1>1. CASE OffPump
  BY <1>1 DEF OffPump, Holders
<1>2. CASE \E h \in Gens \ {g} : PumpStep(h) \/ ReadFails(h)
  BY <1>2, PumpMoves
<1>3. CASE PumpTake(g) /\ held'[g] = Foreground
  <2>1. runtime = g /\ UNCHANGED <<cycle, runtime, stream>>
    BY <1>3 DEF PumpTake, Routed, Holders, pubVars
  <2> QED BY <1>3, <2>1 DEF Foreground
<1>4. CASE OpenCycle(g) /\ MayOpenCycle(g) /\ held'[g] = cycle'
  BY <1>4 DEF OpenCycle
<1>5. CASE (PumpStep(g) \/ ReadFails(g)) /\ pump[g] \in Holders /\ held'[g] = held[g]
  BY <1>5
<1> QED BY <1>1, <1>2, <1>3, <1>4, <1>5, OffPumpMoves, PumpMoves

\* And to its end from the end of that runtime.
LEMMA EndTaken ==
  ASSUME SessionInv, [Next]_vars, NEW g \in Gens, EndsCycle(g)'
  PROVE  \/ EndsCycle(g) /\ held'[g] = held[g]
         \/ /\ RuntimeEnded(g) /\ pump[g] = "ready" /\ runtime = g
            /\ UNCHANGED runtime
            /\ held'[g] = cycle /\ cycle' = None /\ ~closing
<1> USE CyclesApart DEF SessionInv, TypeOK, RequestTypes, RuntimeTypes, EndsCycle
<1>1. CASE OffPump
  BY <1>1 DEF OffPump
<1>2. CASE \E h \in Gens \ {g} : PumpStep(h) \/ ReadFails(h)
  BY <1>2, PumpMoves
<1>3. CASE DrainRuntime(g) \/ ReadFails(g)
  <2>1. RuntimeEnded(g) /\ pump[g] = "ready"
    BY <1>3 DEF DrainRuntime, ReadFails
  <2>2. runtime = g /\ UNCHANGED runtime
    BY <2>1 DEF RuntimeEnded
  <2>3. ~closing /\ turn = None /\ held'[g] = cycle
    BY <2>1, <2>2 DEF RuntimeEnded, Foreground
  <2> QED BY <2>1, <2>2, <2>3 DEF RuntimeEnded, CycleAfterEnd
<1>4. CASE PumpStep(g) /\ ~DrainRuntime(g)
  BY <1>4
     DEF PumpStep, PumpTake, OpenCycle, LoseCycle, Apply, FinishDelivery,
         CommitCycle, SignalCycleRuntime, DropCycleRuntime, ClaimCycle,
         PublishCycleIdle, ClearCycle, EndForeground, RetireRuntime, Release,
         Routed, PumpAt
<1> QED BY <1>1, <1>2, <1>3, <1>4, OffPumpMoves

\* A cycle is taken from the session by the pump that settled it, by the end of the
\* runtime, or by the ladder.
LEMMA CycleCleared ==
  ASSUME SessionInv, [Next]_vars, cycle' # cycle
  PROVE  \/ \E g \in Gens : OpenCycle(g) /\ MayOpenCycle(g)
         \/ \E g \in Gens : ClearCycle(g) /\ cycle = held[g] /\ pump[g] = "clearing"
         \/ \E g \in Gens : RuntimeEnded(g) /\ runtime = g /\ pump[g] = "ready"
         \/ CloseFence
<1> USE DEF SessionInv
<1>1. CASE UNCHANGED vars
  BY <1>1 DEF vars, sessionVars
<1>2. CASE EstablishCommit \/ EstablishOpen
  BY <1>2 DEF EstablishCommit, EstablishOpen, sessionVars
<1>3. ASSUME NEW o \in Prompts \cup Reads, AcquireGate(o) \/ RequestStep(o)
      PROVE  UNCHANGED cycle
  BY <1>3
     DEF AcquireGate, RequestStep, CheckBusy, EnsureRuntime, JoinEnding, Launch,
         Bind, OpenStream, StopSignal, StopJoin, UseRuntime, ReleaseGate,
         sessionVars
<1>4. ASSUME NEW p \in Prompts, TurnStep(p) PROVE UNCHANGED cycle
  BY <1>4
     DEF TurnStep, InstallTurn, Dispatch, AcceptTurn, AbortExpires,
         BeginSettlement, CommitTurn, SignalTurnRuntime, DropTurnRuntime,
         FenceLostTransport, ClaimTurn, PublishTurnIdle, Unwind, sessionVars
<1>5. ASSUME NEW g \in Gens, PumpStep(g) \/ ReadFails(g) \/ Emit(g) \/ Exit(g)
      PROVE  \/ UNCHANGED cycle
             \/ OpenCycle(g) /\ MayOpenCycle(g)
             \/ ClearCycle(g) /\ cycle = held[g] /\ pump[g] = "clearing"
             \/ RuntimeEnded(g) /\ runtime = g /\ pump[g] = "ready"
  <2>1. CASE OpenCycle(g)
    BY <2>1 DEF OpenCycle
  <2>2. CASE ClearCycle(g)
    BY <2>2 DEF ClearCycle
  <2>3. CASE DrainRuntime(g) \/ ReadFails(g)
    BY <2>3 DEF DrainRuntime, ReadFails, RuntimeEnded
  <2> QED
    BY <1>5, <2>1, <2>2, <2>3
       DEF PumpStep, Emit, Exit, PumpTake, LoseCycle, Apply, FinishDelivery,
           CommitCycle, SignalCycleRuntime, DropCycleRuntime, ClaimCycle,
           PublishCycleIdle, EndForeground, RetireRuntime, Release, sessionVars
<1>6. CASE Cancel \/ (\E i \in callbacks : Abort(i)) \/ BeginClose \/ CloseStep
  BY <1>6
     DEF Cancel, Abort, BeginClose, CloseStep, CloseAbort, CloseStop,
         CloseJoinPump, CloseCommit, sessionVars
<1> QED BY <1>1, <1>2, <1>3, <1>4, <1>5, <1>6 DEF Next

\* A session is bound to a runtime by the request that launched it, and not while it
\* closes.
LEMMA RuntimeBinds ==
  ASSUME SessionInv, [Next]_vars, runtime' \notin {runtime, NoGen}
  PROVE  ~closing /\ \E o \in Prompts \cup Reads : Bind(o)
<1> USE DEF SessionInv, TypeOK, RequestTypes
<1>1. ~closing
  BY RuntimeMoves
<1>2. CASE UNCHANGED vars
  BY <1>2 DEF vars, sessionVars
<1>3. CASE EstablishCommit \/ EstablishOpen
  BY <1>3 DEF EstablishCommit, EstablishOpen, sessionVars
<1>4. ASSUME NEW o \in Prompts \cup Reads, AcquireGate(o) \/ RequestStep(o)
      PROVE  Bind(o)
  <2>1. CASE StopJoin(o)
    BY <2>1 DEF StopJoin, DropRuntime
  <2> QED
    BY <1>4, <2>1
       DEF AcquireGate, RequestStep, CheckBusy, EnsureRuntime, JoinEnding,
           Launch, OpenStream, StopSignal, UseRuntime, ReleaseGate, sessionVars
<1>5. ASSUME NEW p \in Prompts, TurnStep(p) PROVE FALSE
  BY <1>5
     DEF TurnStep, InstallTurn, Dispatch, AcceptTurn, AbortExpires,
         BeginSettlement, CommitTurn, SignalTurnRuntime, DropTurnRuntime,
         FenceLostTransport, ClaimTurn, PublishTurnIdle, Unwind, DropRuntime,
         sessionVars
<1>6. ASSUME NEW g \in Gens, PumpStep(g) \/ ReadFails(g) \/ Emit(g) \/ Exit(g)
      PROVE  FALSE
  <2>1. CASE Emit(g) \/ Exit(g)
    BY <2>1 DEF Emit, Exit, sessionVars
  <2>2. CASE PumpStep(g) \/ ReadFails(g)
    <3>1. UNCHANGED runtime \/ DropRuntime(g)
      BY <2>2, PumpMoves
    <3> QED BY <3>1 DEF DropRuntime
  <2> QED BY <1>6, <2>1, <2>2
<1>7. CASE Cancel \/ (\E i \in callbacks : Abort(i)) \/ BeginClose \/ CloseStep
  BY <1>7
     DEF Cancel, Abort, BeginClose, CloseStep, CloseAbort, CloseStop,
         CloseJoinPump, CloseCommit, CloseFence, DropRuntime, sessionVars
<1> QED
  BY <1>1, <1>2, <1>3, <1>4, <1>5, <1>6, <1>7 DEF Next

\* Without reads, only a turn has a runtime launched.
LEMMA BindsForTurn ==
  ASSUME Reads = {}, SessionInv, [Next]_vars, runtime' \notin {runtime, NoGen}
  PROVE  turn # None /\ ~closing
<1>1. PICK o \in Prompts : pc[o] = "binding"
  BY RuntimeBinds DEF Bind
<1> QED
  BY <1>1, RuntimeBinds, NamesAssumption
     DEF SessionInv, CycleInv, TurnNamed, InTurn, Ops

\* Nothing is read before the opening, so no cycle begins.
LEMMA QuietFirstStep ==
  ASSUME SessionInv, QuietFirst, [Next]_vars
  PROVE  QuietFirst'
<1> USE DEF SessionInv
<1> SUFFICES ASSUME pc'[Establish] \in {"commit", "open"} PROVE cycles' = 0
  BY DEF QuietFirst
<1>1. pc[Establish] \in {"commit", "open"}
  BY EstablishMoves
<1>2. cycles = 0
  BY <1>1 DEF QuietFirst
<1>3. ASSUME NEW g \in Gens, PumpStep(g) \/ ReadFails(g) PROVE UNCHANGED cycles
  <2>1. ~OpenCycle(g)
    BY <1>1 DEF OpenCycle, PumpHolds, OpeningInv, SilentUnstored, Silent
  <2> QED BY <1>3, <2>1, CyclesKept
<1> QED BY <1>2, <1>3, OffPumpMoves DEF OffPump

\* What CycleAlone says of one pump.
Alone(g) ==
  /\ cycle = held[g] \/ closePc = "closed"
  /\ runtime \in {g, NoGen}
  /\ stream \in {g, NoGen}

\* A pump goes on working for its cycle alone.
LEMMA StaysAlone ==
  ASSUME Reads = {}, SessionInv, QuietFirst, CycleAlone, [Next]_vars,
         NEW g \in Gens, HoldsCycle(g), HoldsCycle(g)', held'[g] = held[g]
  PROVE  Alone(g)'
<1> USE DEF SessionInv, HoldsCycle
<1>1. /\ Alone(g) /\ g # NoGen /\ held[g] # None
      /\ \A h \in Gens : HoldsCycle(h) => h = g
  BY CyclesApart DEF CycleAlone, Alone, NoGen, Gens
<1>2. closePc = "closed" => closing /\ closePc' = "closed"
  BY LadderMoves
     DEF AddressedOpen, closeVars, BeginClose, CloseStep, CloseAbort, CloseStop,
         CloseJoinPump, CloseCommit, CloseFence, CloseAt
<1>3. turn # None => closing
  BY <1>1, <1>2 DEF Alone, OneForeground
<1>4. cycle' = held'[g] \/ closePc' = "closed"
  <2>1. CASE closePc = "closed" \/ cycle' = cycle
    BY <1>1, <1>2, <2>1 DEF Alone
  <2>2. CASE closePc # "closed" /\ cycle' # cycle
    <3>1. cycle = held[g]
      BY <1>1, <2>2 DEF Alone
    <3>2. ASSUME NEW h \in Gens PROVE ~(OpenCycle(h) /\ MayOpenCycle(h))
      BY <1>1, <3>1 DEF MayOpenCycle
    <3>3. ASSUME NEW h \in Gens, ClearCycle(h), cycle = held[h], pump[h] = "clearing"
          PROVE  FALSE
      <4>1. h = g
        BY <1>1, <3>1, <3>3 DEF Holders
      <4> QED BY <3>3, <4>1 DEF ClearCycle, Routed, Holders, TypeOK, RuntimeTypes
    <3>4. ASSUME NEW h \in Gens, RuntimeEnded(h), runtime = h, pump[h] = "ready"
          PROVE  FALSE
      <4>1. h = g
        BY <1>1, <3>4 DEF Alone, NoGen, Gens
      <4> QED BY <3>4, <4>1 DEF Holders
    <3>5. CASE CloseFence
      BY <3>5 DEF CloseFence
    <3> QED BY <2>2, <3>2, <3>3, <3>4, <3>5, CycleCleared
  <2> QED BY <2>1, <2>2
<1>5. runtime' \in {g, NoGen}
  BY <1>1, <1>3, BindsForTurn DEF Alone
<1>6. stream' \in {g, NoGen}
  <2>1. ASSUME NEW o \in Prompts \cup Reads, Opens(o) PROVE FALSE
    <3>1. o \in Prompts /\ turn = o /\ ~closing
      BY <2>1 DEF Opens, Openable, CycleInv, TurnNamed, InTurn
    <3> QED BY <1>3, <3>1, NamesAssumption DEF Ops
  <2>2. ~OpensFirst
    <3>1. held[g] \in Nat \ {0} /\ held[g] <= cycles
      BY BoundsAssumption DEF AnnouncedInv, CycleNames, Cycles
    <3> QED BY <3>1 DEF OpensFirst, QuietFirst
  <2> QED BY <1>1, <2>1, <2>2, StreamMoves DEF StreamKeptOrFenced, Alone
<1> QED BY <1>4, <1>5, <1>6 DEF Alone

\* A pump that takes a frame of the open cycle on a closing session is the one the
\* ladder is going to join.
LEMMA CycleAloneStep ==
  ASSUME Reads = {}, SessionInv, QuietFirst, CloseKnows, CycleAlone, [Next]_vars
  PROVE  CycleAlone'
<1> USE DEF SessionInv
<1>1. ASSUME NEW g \in Gens, HoldsCycle(g)',
             ~(HoldsCycle(g) /\ held'[g] = held[g])
      PROVE  Alone(g)' /\ runtime = g
  <2>1. /\ runtime = g /\ cycle' = held'[g] /\ UNCHANGED <<runtime, stream>>
    BY <1>1, CycleTaken DEF MayOpenCycle
  <2>2. stream \in {g, NoGen}
    <3>1. CASE closing
      <4>1. closePc \in Winds
        BY <2>1, <3>1
           DEF AddressedOpen, ClosedInv, Winds, Emptied, TypeOK, CloseTypes,
               ClosePc, NoGen, Gens
      <4>2. closeRt = g
        BY <2>1, <4>1 DEF ClosedInv, NoGen, Gens
      <4> QED BY <3>1, <4>2 DEF CloseKnows
    <3>2. CASE ~closing
      BY <2>1, <3>2 DEF OpeningInv, StreamOfRuntime
    <3> QED BY <3>1, <3>2
  <2> QED BY <2>1, <2>2 DEF Alone
<1>2. ASSUME NEW g \in Gens, HoldsCycle(g)' PROVE Alone(g)'
  BY <1>1, <1>2, StaysAlone
<1>3. ASSUME NEW g \in Gens, HoldsCycle(g)', NEW h \in Gens, HoldsCycle(h)'
      PROVE  h = g
  <2>1. CASE HoldsCycle(g) /\ HoldsCycle(h)
    BY <2>1 DEF CycleAlone
  <2>2. CASE HoldsCycle(g) /\ ~HoldsCycle(h)
    BY <1>1, <1>3, <2>2 DEF CycleAlone, NoGen, Gens
  <2>3. CASE ~HoldsCycle(g) /\ HoldsCycle(h)
    BY <1>1, <1>3, <2>3 DEF CycleAlone, NoGen, Gens
  <2>4. CASE ~HoldsCycle(g) /\ ~HoldsCycle(h)
    BY <1>1, <1>3, <2>4
  <2> QED BY <2>1, <2>2, <2>3, <2>4
<1> QED BY <1>2, <1>3 DEF CycleAlone, Alone

LEMMA CycleLeavesStep ==
  ASSUME SessionInv, CycleLeaves, [Next]_vars
  PROVE  CycleLeaves'
<1> USE DEF SessionInv
<1>1. ASSUME NEW g \in Gens, EndsCycle(g)' PROVE cycle' # held'[g]
  <2>1. CASE EndsCycle(g) /\ held'[g] = held[g]
    <3>1. cycle # held[g] /\ held[g] # None
      BY <2>1, CyclesApart DEF CycleLeaves, EndsCycle
    <3>2. ASSUME NEW h \in Gens, OpenCycle(h), MayOpenCycle(h)
          PROVE  cycle' # held[g]
      <4>1. cycle' = cycles + 1 /\ cycles \in Nat
        BY <3>2, BoundsAssumption DEF OpenCycle, TypeOK, BoundTypes
      <4>2. held[g] \in Nat /\ held[g] <= cycles
        BY <2>1, BoundsAssumption
           DEF EndsCycle, AnnouncedInv, CycleNames, Cycles
      <4> QED BY <4>1, <4>2
    <3> QED BY <2>1, <3>1, <3>2, CycleMoves
  <2>2. CASE held'[g] = cycle /\ cycle' = None
    BY <1>1, <2>2, CyclesApart DEF EndsCycle
  <2> QED BY <1>1, <2>1, <2>2, EndTaken
<1>2. ASSUME NEW g \in Gens, EndsCycle(g)', NEW h \in Gens, EndsCycle(h)',
             held'[h] = held'[g]
      PROVE  h = g
  <2>1. CASE EndsCycle(g) /\ held'[g] = held[g] /\ EndsCycle(h) /\ held'[h] = held[h]
    BY <1>2, <2>1 DEF CycleLeaves
  <2>2. CASE EndsCycle(g) /\ held'[g] = held[g] /\ held'[h] = cycle
    BY <1>2, <2>2 DEF CycleLeaves
  <2>3. CASE held'[g] = cycle /\ EndsCycle(h) /\ held'[h] = held[h]
    BY <1>2, <2>3 DEF CycleLeaves
  <2>4. CASE runtime = g /\ runtime = h
    BY <2>4
  <2> QED BY <1>2, <2>1, <2>2, <2>3, <2>4, EndTaken
<1> QED BY <1>1, <1>2 DEF CycleLeaves

\* The pumps and the cycles, in every behaviour without a read that relaunches.
AloneInv == DoneIsOver /\ CloseKnows /\ QuietFirst /\ CycleAlone /\ CycleLeaves

LEMMA AloneHolds ==
  ASSUME EarlyWork = FALSE, Reads = {}
  PROVE  Spec => []AloneInv
<1>1. Init => AloneInv
  <2> SUFFICES ASSUME Init PROVE AloneInv
    OBVIOUS
  <2> USE DEF Init
  <2>1. DoneIsOver /\ CloseKnows /\ QuietFirst
    BY DEF DoneIsOver, CloseKnows, QuietFirst
  <2>2. CycleAlone /\ CycleLeaves
    BY CyclesApart DEF CycleAlone, CycleLeaves, HoldsCycle, EndsCycle, Holders
  <2> QED BY <2>1, <2>2 DEF AloneInv
<1>2. ASSUME SessionInv, SessionInv', AloneInv, [Next]_vars PROVE AloneInv'
  BY <1>2, DoneIsOverStep, CloseKnowsStep, QuietFirstStep, CycleAloneStep,
     CycleLeavesStep DEF AloneInv
<1> QED BY <1>1, <1>2, SessionHolds, PTL DEF Spec

-----------------------------------------------------------------------------
(* Each foreground ends once.                                              *)

\* Only a cycle that began, and a prompt that is on its way out, have an idle.
EndedNamed == \A c \in Cycles : Ended(c) => c <= cycles

TurnEnded ==
  \A p \in Prompts : Ended(p) => pc[p] \in {"unwinding", "leaving", "answered"}

\* Whoever still works for a cycle that has its idle is about to clear it.
CycleEnded ==
  \A c \in Cycles : Ended(c) =>
    /\ \A g \in Gens :
         HoldsCycle(g) \/ EndsCycle(g) => held[g] # c \/ pump[g] = "clearing"
    /\ cycle = c => \E g \in Gens : held[g] = c /\ pump[g] = "clearing"

\* The idle of a prompt that was not seen before is its own publication.
LEMMA TurnEnds ==
  ASSUME SessionInv, [Next]_vars, NEW p \in Prompts, Ended(p)', ~Ended(p)
  PROVE  PublishTurnIdle(p)
<1>1. PICK t \in terminals' : t.fg = p
  BY DEF Ended
<1>2. t \notin terminals
  BY <1>1 DEF Ended
<1> QED
  BY <1>1, <1>2, NewTerminals, CyclesApart DEF SessionInv

\* That of a cycle ends it, on an open stream.
LEMMA CycleEndsNow ==
  ASSUME SessionInv, [Next]_vars, NEW c \in Cycles, Ended(c)', ~Ended(c)
  PROVE  CycleEnds(c) /\ stream # NoGen
<1>1. PICK t \in terminals' : t.fg = c
  BY DEF Ended
<1>2. t \notin terminals
  BY <1>1 DEF Ended
<1> QED
  BY <1>1, <1>2, NewTerminals, CyclesApart DEF SessionInv

LEMMA TurnEndedStep ==
  ASSUME SessionInv, TurnEnded, [Next]_vars
  PROVE  TurnEnded'
<1> DEFINE Out == {"unwinding", "leaving", "answered"}
<1> USE NamesAssumption DEF SessionInv, TypeOK, RequestTypes, Ops
<1> SUFFICES ASSUME NEW p \in Prompts, Ended(p)' PROVE pc'[p] \in Out
  BY DEF TurnEnded
<1>1. CASE ~Ended(p)
  BY <1>1, TurnEnds DEF PublishTurnIdle, At
<1>2. CASE Ended(p)
  <2>1. pc[p] \in Out
    BY <1>2 DEF TurnEnded
  <2>2. CASE UNCHANGED vars
    BY <2>1, <2>2 DEF vars, opVars
  <2>3. CASE EstablishCommit \/ EstablishOpen
    BY <2>1, <2>3 DEF EstablishCommit, EstablishOpen
  <2>4. ASSUME NEW o \in Prompts \cup Reads, AcquireGate(o) \/ RequestStep(o)
        PROVE  pc'[p] \in Out
    BY <2>1, <2>4
       DEF AcquireGate, RequestStep, CheckBusy, EnsureRuntime, JoinEnding,
           Launch, Bind, OpenStream, StopSignal, StopJoin, UseRuntime,
           ReleaseGate, Fail, Leave, At
  <2>5. ASSUME NEW q \in Prompts, TurnStep(q) PROVE pc'[p] \in Out
    BY <2>1, <2>5
       DEF TurnStep, InstallTurn, Dispatch, AcceptTurn, AbortExpires,
           BeginSettlement, CommitTurn, SignalTurnRuntime, DropTurnRuntime,
           FenceLostTransport, ClaimTurn, PublishTurnIdle, Unwind, Leave, At,
           opVars
  <2>6. CASE Cancel \/ (\E i \in callbacks : Abort(i)) \/ BeginClose \/ CloseStep
    BY <2>1, <2>6
       DEF Cancel, Abort, BeginClose, CloseStep, CloseAbort, CloseStop,
           CloseJoinPump, CloseCommit, CloseFence, opVars
  <2> QED
    BY <2>1, <2>2, <2>3, <2>4, <2>5, <2>6, PumpFootprint DEF Next
<1> QED BY <1>1, <1>2

\* Nobody ends a cycle that has its idle: the pump that published it is the only
\* one that works for it, and the ladder comes after that pump.
LEMMA EndsNotAgain ==
  ASSUME SessionInv, DoneIsOver, CloseKnows, CloseJoined, CycleAlone, CycleEnded,
         NEW c \in Cycles, CycleEnds(c), stream # NoGen
  PROVE  ~Ended(c)
<1> USE DEF SessionInv
<1> SUFFICES ASSUME Ended(c) PROVE FALSE
  OBVIOUS
<1>1. ASSUME NEW g \in Gens, PublishCycleIdle(g), held[g] = c PROVE FALSE
  BY <1>1 DEF PublishCycleIdle, PumpAt, CycleEnded, HoldsCycle, Holders
<1>2. ASSUME NEW g \in Gens, EndForeground(g), held[g] = c PROVE FALSE
  BY <1>2 DEF EndForeground, PumpAt, CycleEnded, EndsCycle
<1>3. CASE closePc = "cycle" /\ cycle = c
  <2>1. PICK g \in Gens : held[g] = c /\ pump[g] = "clearing"
    BY <1>3 DEF CycleEnded
  <2>2. stream = g
    BY <2>1 DEF CycleAlone, HoldsCycle, Holders
  <2>3. pump[stream] \in {"none", "done"}
    BY <1>3, LadderEndsAlone DEF Emptied
  <2> QED BY <2>1, <2>2, <2>3
<1> QED BY <1>1, <1>2, <1>3 DEF CycleEnds

LEMMA EndedNamedStep ==
  ASSUME SessionInv, SessionInv', EndedNamed, [Next]_vars
  PROVE  EndedNamed'
<1> USE DEF SessionInv
<1> SUFFICES ASSUME NEW c \in Cycles, Ended(c)' PROVE c <= cycles'
  BY DEF EndedNamed
<1>1. c \in Nat /\ cycles \in Nat /\ cycles' \in {cycles, cycles + 1}
  <2>1. cycles' \in {cycles, cycles + 1}
    <3>1. ASSUME NEW g \in Gens, OpenCycle(g), MayOpenCycle(g)
          PROVE  cycles' = cycles + 1
      BY <3>1 DEF OpenCycle
    <3> QED BY <3>1, OffPumpMoves, CyclesKept DEF OffPump
  <2> QED
    BY <2>1, BoundsAssumption DEF Cycles, TypeOK, BoundTypes
<1>2. c <= cycles
  <2>1. CASE Ended(c)
    BY <2>1 DEF EndedNamed
  <2>2. CASE ~Ended(c)
    <3>1. CycleEnds(c)
      BY <2>2, CycleEndsNow
    <3> QED BY <3>1 DEF CycleEnds, AnnouncedInv, CycleNames
  <2> QED BY <2>1, <2>2
<1> QED BY <1>1, <1>2

\* A pump that published the idle of a cycle clears it next.
LEMMA Clears ==
  ASSUME SessionInv, [Next]_vars, NEW g \in Gens, pump[g] = "clearing"
  PROVE  \/ pump'[g] = "clearing" /\ held'[g] = held[g]
         \/ /\ ClearCycle(g) /\ pump'[g] = "ready" /\ held'[g] = None
            /\ cycle' = (IF cycle = held[g] THEN None ELSE cycle)
<1> USE DEF SessionInv, TypeOK, RuntimeTypes
<1>1. CASE OffPump
  BY <1>1 DEF OffPump
<1>2. CASE \E h \in Gens \ {g} : PumpStep(h) \/ ReadFails(h)
  BY <1>2, PumpMoves
<1>3. CASE PumpStep(g) \/ ReadFails(g)
  <2>1. ClearCycle(g)
    BY <1>3
       DEF PumpStep, ReadFails, PumpTake, OpenCycle, LoseCycle, CycleLost, Apply,
           FinishDelivery, CommitCycle, SignalCycleRuntime, DropCycleRuntime,
           ClaimCycle, PublishCycleIdle, DrainRuntime, EndForeground,
           RetireRuntime, Release, PumpAt
  <2> QED BY <2>1 DEF ClearCycle, Routed
<1> QED BY <1>1, <1>2, <1>3, OffPumpMoves

\* Nobody comes to work for a cycle that has its idle.
LEMMA EndedStays ==
  ASSUME SessionInv, EndedNamed, CycleAlone, CycleEnded, [Next]_vars,
         NEW c \in Cycles, Ended(c)
  PROVE  /\ \A g \in Gens :
              (HoldsCycle(g) \/ EndsCycle(g))' => held'[g] # c \/ pump'[g] = "clearing"
         /\ cycle' = c => \E g \in Gens : held'[g] = c /\ pump'[g] = "clearing"
<1> USE DEF SessionInv
<1>1. c <= cycles /\ c \in Nat /\ cycles \in Nat /\ c # None /\ c # cycles + 1
  BY BoundsAssumption, CyclesApart DEF EndedNamed, Cycles, TypeOK, BoundTypes
<1>2. ASSUME NEW g \in Gens, OpenCycle(g), MayOpenCycle(g)
      PROVE  cycle' # c
  BY <1>1, <1>2 DEF OpenCycle
<1>3. ASSUME NEW g \in Gens, runtime = g, pump[g] = "ready" PROVE cycle # c
  <2> SUFFICES ASSUME cycle = c PROVE FALSE
    OBVIOUS
  <2>1. PICK h \in Gens : held[h] = c /\ pump[h] = "clearing"
    BY DEF CycleEnded
  <2>2. h = g
    BY <1>3, <2>1 DEF CycleAlone, HoldsCycle, Holders, NoGen, Gens
  <2> QED BY <1>3, <2>1, <2>2
<1>4. ASSUME NEW g \in Gens, HoldsCycle(g)', held'[g] = c
      PROVE  pump'[g] = "clearing"
  <2>1. CASE HoldsCycle(g) /\ held'[g] = held[g]
    <3>1. pump[g] = "clearing"
      BY <1>4, <2>1 DEF CycleEnded
    <3> QED BY <1>1, <1>4, <3>1, Clears
  <2>2. CASE PumpTake(g) /\ runtime = g /\ held'[g] = cycle
    BY <1>3, <1>4, <2>2 DEF PumpTake
  <2>3. CASE OpenCycle(g) /\ MayOpenCycle(g) /\ held'[g] = cycle'
    BY <1>2, <1>4, <2>3
  <2> QED BY <1>4, <2>1, <2>2, <2>3, CycleTaken
<1>5. ASSUME NEW g \in Gens, EndsCycle(g)' PROVE held'[g] # c
  <2>1. CASE EndsCycle(g) /\ held'[g] = held[g]
    BY <2>1 DEF CycleEnded, EndsCycle
  <2>2. CASE pump[g] = "ready" /\ runtime = g /\ held'[g] = cycle
    BY <1>3, <2>2
  <2> QED BY <1>5, <2>1, <2>2, EndTaken
<1>6. ASSUME cycle' = c
      PROVE  \E g \in Gens : held'[g] = c /\ pump'[g] = "clearing"
  <2>1. cycle = c
    BY <1>1, <1>2, <1>6, CycleMoves
  <2>2. PICK g \in Gens : held[g] = c /\ pump[g] = "clearing"
    BY <2>1 DEF CycleEnded
  <2> QED BY <1>1, <1>6, <2>1, <2>2, Clears
<1> QED BY <1>4, <1>5, <1>6

\* Whoever ends a cycle is the only one that worked for it.
LEMMA EndedAlone ==
  ASSUME SessionInv, DoneIsOver, CloseKnows, CloseJoined, CycleAlone, CycleLeaves,
         [Next]_vars, NEW c \in Cycles, CycleEnds(c), stream # NoGen
  PROVE  /\ \A g \in Gens :
              (HoldsCycle(g) \/ EndsCycle(g))' => held'[g] # c \/ pump'[g] = "clearing"
         /\ cycle' = c => \E g \in Gens : held'[g] = c /\ pump'[g] = "clearing"
<1> USE DEF SessionInv
<1>1. closePc # "closed" /\ c # None
  BY CyclesApart DEF ClosedInv
<1>2. ASSUME NEW g \in Gens, PublishCycleIdle(g), held[g] = c
      PROVE  /\ \A h \in Gens :
                  (HoldsCycle(h) \/ EndsCycle(h))' => held'[h] # c \/ pump'[h] = "clearing"
             /\ held'[g] = c /\ pump'[g] = "clearing"
  <2>1. held' = held /\ pump[g] = "publishing" /\ pump' = [pump EXCEPT ![g] = "clearing"]
    BY <1>2 DEF PublishCycleIdle, PumpAt
  <2>2. HoldsCycle(g) /\ pump'[g] = "clearing"
    BY <1>2, <2>1 DEF HoldsCycle, Holders, TypeOK, RuntimeTypes
  <2>3. cycle = c
    BY <1>1, <1>2, <2>2 DEF CycleAlone
  <2>4. ASSUME NEW h \in Gens \ {g} PROVE ~(held[h] = c /\ (HoldsCycle(h) \/ EndsCycle(h)))
    BY <2>2, <2>3 DEF CycleAlone, CycleLeaves
  <2>5. \A h \in Gens \ {g} : pump'[h] = pump[h]
    BY <2>1
  <2> QED BY <1>2, <2>1, <2>2, <2>4, <2>5 DEF HoldsCycle, EndsCycle
<1>3. ASSUME NEW g \in Gens, EndForeground(g), held[g] = c
      PROVE  /\ \A h \in Gens :
                  (HoldsCycle(h) \/ EndsCycle(h))' => held'[h] # c \/ pump'[h] = "clearing"
             /\ cycle' # c
  <2>1. /\ held' = held /\ pump[g] = "endJoin"
        /\ pump' = [pump EXCEPT ![g] = "endWait"] /\ cycle' = cycle
    BY <1>3 DEF EndForeground, PumpAt, sessionVars
  <2>2. EndsCycle(g) /\ pump'[g] = "endWait"
    BY <1>3, <2>1 DEF EndsCycle, TypeOK, RuntimeTypes
  <2>3. cycle # c
    BY <1>3, <2>2 DEF CycleLeaves
  <2>4. ASSUME NEW h \in Gens \ {g} PROVE ~(held[h] = c /\ (HoldsCycle(h) \/ EndsCycle(h)))
    BY <1>1, <1>3, <2>2, <2>3 DEF CycleAlone, CycleLeaves
  <2>5. \A h \in Gens \ {g} : pump'[h] = pump[h]
    BY <2>1
  <2> QED
    BY <1>3, <2>1, <2>2, <2>3, <2>4, <2>5 DEF HoldsCycle, EndsCycle, Holders
<1>4. ASSUME CloseFence, closePc = "cycle", cycle = c
      PROVE  /\ \A h \in Gens :
                  (HoldsCycle(h) \/ EndsCycle(h))' => held'[h] # c \/ pump'[h] = "clearing"
             /\ cycle' # c
  <2>1. UNCHANGED <<held, pump>> /\ cycle' = None
    BY <1>4 DEF CloseFence, pumpVars
  <2>2. stream \in Gens /\ pump[stream] \in {"none", "done"}
    BY <1>4, LadderEndsAlone DEF Emptied
  <2>3. ASSUME NEW h \in Gens PROVE ~HoldsCycle(h)
    BY <2>2 DEF CycleAlone, HoldsCycle, Holders
  <2>4. ASSUME NEW h \in Gens, EndsCycle(h) PROVE held[h] # c
    BY <1>4, <2>4 DEF CycleLeaves
  <2> QED BY <1>1, <2>1, <2>3, <2>4 DEF HoldsCycle, EndsCycle
<1> QED BY <1>2, <1>3, <1>4 DEF CycleEnds

LEMMA CycleEndedStep ==
  ASSUME SessionInv, DoneIsOver, CloseKnows, CloseJoined, CycleAlone, CycleLeaves,
         EndedNamed, CycleEnded, [Next]_vars
  PROVE  CycleEnded'
<1> SUFFICES ASSUME NEW c \in Cycles, Ended(c)'
             PROVE  /\ \A g \in Gens :
                         (HoldsCycle(g) \/ EndsCycle(g))'
                            => held'[g] # c \/ pump'[g] = "clearing"
                    /\ cycle' = c =>
                         \E g \in Gens : held'[g] = c /\ pump'[g] = "clearing"
  BY DEF CycleEnded
<1>1. CASE Ended(c)
  BY <1>1, EndedStays
<1>2. CASE ~Ended(c)
  BY <1>2, CycleEndsNow, EndedAlone
<1> QED BY <1>1, <1>2

\* A step makes one idle visible at most.
LEMMA OneTerminal ==
  ASSUME [Next]_vars
  PROVE  \E t : terminals' \subseteq terminals \cup {t}
<1> USE DEF PublishIdle
<1>1. CASE UNCHANGED terminals
  BY <1>1
<1>2. CASE UNCHANGED vars
  BY <1>2 DEF vars, pubVars
<1>3. CASE EstablishCommit \/ EstablishOpen
  BY <1>3 DEF EstablishCommit, EstablishOpen
<1>4. ASSUME NEW o \in Prompts \cup Reads, AcquireGate(o) \/ RequestStep(o)
      PROVE  UNCHANGED terminals
  BY <1>4
     DEF AcquireGate, RequestStep, CheckBusy, EnsureRuntime, JoinEnding, Launch,
         Bind, OpenStream, StopSignal, StopJoin, UseRuntime, ReleaseGate,
         pubVars
<1>5. ASSUME NEW p \in Prompts, TurnStep(p)
      PROVE  \E t : terminals' \subseteq terminals \cup {t}
  <2>1. CASE PublishTurnIdle(p)
    BY <2>1 DEF PublishTurnIdle
  <2>2. CASE ~PublishTurnIdle(p)
    <3>1. UNCHANGED terminals
      BY <1>5, <2>2
         DEF TurnStep, InstallTurn, Dispatch, AcceptTurn, AbortExpires,
             BeginSettlement, CommitTurn, SignalTurnRuntime, DropTurnRuntime,
             FenceLostTransport, ClaimTurn, Unwind, pubVars
    <3> QED BY <3>1
  <2> QED BY <2>1, <2>2
<1>6. ASSUME NEW g \in Gens, PumpStep(g) \/ ReadFails(g) \/ Emit(g) \/ Exit(g)
      PROVE  \E t : terminals' \subseteq terminals \cup {t}
  <2>1. CASE PublishCycleIdle(g)
    BY <2>1 DEF PublishCycleIdle
  <2>2. CASE EndForeground(g)
    BY <2>2 DEF EndForeground
  <2>3. CASE ~PublishCycleIdle(g) /\ ~EndForeground(g)
    <3>1. UNCHANGED terminals
      BY <1>6, <2>3
         DEF PumpStep, ReadFails, Emit, Exit, PumpTake, OpenCycle, LoseCycle,
             Apply, FinishDelivery, CommitCycle, SignalCycleRuntime,
             DropCycleRuntime, ClaimCycle, ClearCycle, DrainRuntime,
             RetireRuntime, Release, RuntimeEnded, pubVars
    <3> QED BY <3>1
  <2> QED BY <2>1, <2>2, <2>3
<1>7. CASE Cancel \/ (\E i \in callbacks : Abort(i)) \/ BeginClose \/ CloseStep
  <2>1. CASE CloseFence
    BY <2>1 DEF CloseFence
  <2>2. CASE ~CloseFence
    <3>1. UNCHANGED terminals
      BY <1>7, <2>2
         DEF Cancel, Abort, BeginClose, CloseStep, CloseAbort, CloseStop,
             CloseJoinPump, CloseCommit, pubVars
    <3> QED BY <3>1
  <2> QED BY <2>1, <2>2
<1> QED
  BY <1>1, <1>2, <1>3, <1>4, <1>5, <1>6, <1>7 DEF Next

\* How foregrounds end, in every behaviour in which the pump is joined for as long as
\* it takes.
EndingInv == CloseJoined /\ EndedNamed /\ TurnEnded /\ CycleEnded

LEMMA EndingHolds ==
  ASSUME EarlyWork = FALSE, Reads = {}, "pump" \notin Expiring
  PROVE  Spec => []EndingInv
<1>1. Init => EndingInv
  <2> SUFFICES ASSUME Init PROVE EndingInv
    OBVIOUS
  <2>1. CloseJoined
    BY DEF Init, CloseJoined, Emptied
  <2>2. \A f : ~Ended(f)
    BY DEF Init, Ended
  <2> QED
    BY <2>1, <2>2 DEF EndedNamed, TurnEnded, CycleEnded, EndingInv
<1>2. ASSUME SessionInv, SessionInv', AloneInv, EndingInv, [Next]_vars
      PROVE  EndingInv'
  BY <1>2, CloseJoinedStep, EndedNamedStep, TurnEndedStep, CycleEndedStep
     DEF AloneInv, EndingInv
<1> QED BY <1>1, <1>2, SessionHolds, AloneHolds, PTL DEF Spec

\* Whoever makes an idle visible is the first to end its foreground.
LEMMA EndsFirst ==
  ASSUME SessionInv, AloneInv, EndingInv, [Next]_vars, NEW t \in terminals',
         t \notin terminals
  PROVE  ~Ended(t.fg)
<1>1. ASSUME NEW p \in Prompts, PublishTurnIdle(p), t.fg = p PROVE ~Ended(t.fg)
  BY <1>1 DEF PublishTurnIdle, At, EndingInv, TurnEnded
<1>2. CASE t.fg \in Cycles /\ CycleEnds(t.fg) /\ stream # NoGen
  BY <1>2, EndsNotAgain DEF AloneInv, EndingInv
<1> QED BY <1>1, <1>2, NewTerminals DEF SessionInv

\* A foreground ends at most once on the stream, although the prompt, the pump that
\* settled a cycle, the end of a runtime and the ladder may each publish the idle.
\* The three assumptions are needed: the failed commit of an early cycle fences
\* before the opening that names its generation, a read relaunches the runtime of
\* a cycle that is still settling, and a join of the pump that expires lets the
\* ladder end a cycle its pump has ended.
THEOREM EndsOnce ==
  ASSUME EarlyWork = FALSE, Reads = {}, "pump" \notin Expiring
  PROVE  Spec => []TerminalOnce
<1>1. Init => TerminalOnce
  BY DEF Init, TerminalOnce
<1>2. ASSUME SessionInv, AloneInv, EndingInv, TerminalOnce, [Next]_vars
      PROVE  TerminalOnce'
  <2> SUFFICES ASSUME NEW s \in terminals', NEW t \in terminals', s.fg = t.fg
               PROVE  s = t
    BY DEF TerminalOnce
  <2>1. CASE s \in terminals /\ t \in terminals
    BY <1>2, <2>1 DEF TerminalOnce
  <2>2. CASE s \in terminals /\ t \notin terminals
    BY <1>2, <2>2, EndsFirst DEF Ended
  <2>3. CASE s \notin terminals /\ t \in terminals
    BY <1>2, <2>3, EndsFirst DEF Ended
  <2>4. CASE s \notin terminals /\ t \notin terminals
    <3>1. PICK x : terminals' \subseteq terminals \cup {x}
      BY <1>2, OneTerminal
    <3> QED BY <2>4, <3>1
  <2> QED BY <2>1, <2>2, <2>3, <2>4
<1> QED BY <1>1, <1>2, SessionHolds, AloneHolds, EndingHolds, PTL DEF Spec

-----------------------------------------------------------------------------
(* Which incarnation a cycle ends on.                                      *)

\* Where a request has the process it works with, up to its terminal idle.
OnBound == (OnRuntime \ {"joining"}) \cup {"claiming", "claimFailed", "publishing"}

\* A runtime whose end the pump is working on is marked as ending, and ends the
\* turn of whoever is still on it.
EndingSeen == \A g \in Gens : pump[g] \in {"endJoin", "endWait"} => ending[g]

TurnServed ==
  \A p \in Prompts, g \in Gens :
    pump[g] \in {"endJoin", "endWait"} /\ pc[p] \in OnBound /\ bound[p] = g =>
      held[g] = p

\* A cycle that ends with its runtime has it still bound.
EndsBound == \A g \in Gens : EndsCycle(g) => runtime = g \/ closing

\* Somebody works on the cycle.
Working(c) ==
  cycle = c \/ \E g \in Gens : held[g] = c /\ (HoldsCycle(g) \/ EndsCycle(g))

\* The stream of a cycle somebody works on is still the one that announced it.
CycleAccepted ==
  \A c \in Cycles : Working(c) =>
    acceptedIn[c] # NotYet /\ stream \in {acceptedIn[c], NoGen}

\* A pump comes to the end of a runtime when its frames are exhausted.
LEMMA EndMoves ==
  ASSUME SessionInv, [Next]_vars, NEW g \in Gens, pump'[g] \in {"endJoin", "endWait"}
  PROVE  \/ pump[g] \in {"endJoin", "endWait"} /\ held'[g] = held[g]
         \/ RuntimeEnded(g) /\ pump[g] = "ready" /\ runtime = g /\ UNCHANGED runtime
<1> USE DEF SessionInv, TypeOK, RuntimeTypes
<1>1. CASE OffPump
  BY <1>1 DEF OffPump
<1>2. CASE \E h \in Gens \ {g} : PumpStep(h) \/ ReadFails(h)
  BY <1>2, PumpMoves
<1>3. CASE DrainRuntime(g) \/ ReadFails(g)
  BY <1>3 DEF DrainRuntime, ReadFails, RuntimeEnded
<1>4. CASE PumpStep(g) /\ ~DrainRuntime(g)
  BY <1>4
     DEF PumpStep, PumpTake, OpenCycle, LoseCycle, Apply, FinishDelivery,
         CommitCycle, SignalCycleRuntime, DropCycleRuntime, ClaimCycle,
         PublishCycleIdle, ClearCycle, EndForeground, RetireRuntime, Release,
         Routed, PumpAt
<1> QED BY <1>1, <1>2, <1>3, <1>4, OffPumpMoves

\* A runtime that is ending stays so.
LEMMA EndingStays ==
  ASSUME TypeOK, [Next]_vars, NEW g \in Gens, ending[g]
  PROVE  ending'[g]
<1> USE DEF TypeOK, RuntimeTypes
<1>1. CASE UNCHANGED vars
  BY <1>1 DEF vars, pumpVars
<1>2. CASE EstablishCommit \/ EstablishOpen
  BY <1>2 DEF EstablishCommit, EstablishOpen, pumpVars
<1>3. ASSUME NEW o \in Prompts \cup Reads, AcquireGate(o) \/ RequestStep(o)
      PROVE  UNCHANGED ending
  BY <1>3
     DEF AcquireGate, RequestStep, CheckBusy, EnsureRuntime, JoinEnding, Launch,
         Bind, OpenStream, StopSignal, StopJoin, UseRuntime, ReleaseGate,
         pumpVars
<1>4. ASSUME NEW p \in Prompts, TurnStep(p) PROVE UNCHANGED ending
  BY <1>4
     DEF TurnStep, InstallTurn, Dispatch, AcceptTurn, AbortExpires,
         BeginSettlement, CommitTurn, SignalTurnRuntime, DropTurnRuntime,
         FenceLostTransport, ClaimTurn, PublishTurnIdle, Unwind, pumpVars
<1>5. ASSUME NEW h \in Gens, PumpStep(h) \/ ReadFails(h) \/ Emit(h) \/ Exit(h)
      PROVE  ending'[g]
  BY <1>5
     DEF PumpStep, ReadFails, Emit, Exit, PumpTake, OpenCycle, LoseCycle, Apply,
         FinishDelivery, CommitCycle, SignalCycleRuntime, DropCycleRuntime,
         ClaimCycle, PublishCycleIdle, ClearCycle, DrainRuntime, EndForeground,
         RetireRuntime, Release, RuntimeEnded, pumpVars
<1>6. CASE Cancel \/ (\E i \in callbacks : Abort(i)) \/ BeginClose \/ CloseStep
  BY <1>6
     DEF Cancel, Abort, BeginClose, CloseStep, CloseAbort, CloseStop,
         CloseJoinPump, CloseCommit, CloseFence, pumpVars
<1> QED BY <1>1, <1>2, <1>3, <1>4, <1>5, <1>6 DEF Next

LEMMA EndingSeenStep ==
  ASSUME SessionInv, EndingSeen, [Next]_vars
  PROVE  EndingSeen'
<1> USE DEF SessionInv
<1> SUFFICES ASSUME NEW g \in Gens, pump'[g] \in {"endJoin", "endWait"}
             PROVE  ending'[g]
  BY DEF EndingSeen
<1>1. CASE pump[g] \in {"endJoin", "endWait"}
  BY <1>1, EndingStays DEF EndingSeen
<1>2. CASE RuntimeEnded(g) /\ runtime = g
  BY <1>2 DEF RuntimeEnded, TypeOK, RuntimeTypes
<1> QED BY <1>1, <1>2, EndMoves

\* A request gets the process of a live runtime, or launches one.
LEMMA BoundMoves ==
  ASSUME SessionInv, [Next]_vars, NEW p \in Prompts, pc'[p] \in OnBound
  PROVE  \/ pc[p] \in OnBound /\ bound'[p] = bound[p]
         \/ /\ pc[p] = "ensuring" /\ bound'[p] = runtime /\ runtime # NoGen
            /\ ~ending[runtime] /\ UNCHANGED pump
         \/ pc[p] = "launching" /\ bound'[p] = gens + 1 /\ UNCHANGED pump
<1> USE DEF SessionInv, TypeOK, RequestTypes, OnBound, OnRuntime, Ops
<1>1. CASE pc'[p] = pc[p] /\ bound'[p] = bound[p]
  BY <1>1
<1>2. CASE UNCHANGED vars
  BY <1>1, <1>2 DEF vars, opVars
<1>3. CASE EstablishCommit \/ EstablishOpen
  BY <1>1, <1>3, NamesAssumption DEF EstablishCommit, EstablishOpen
<1>4. ASSUME NEW o \in Prompts \cup Reads, AcquireGate(o) \/ RequestStep(o)
      PROVE  \/ pc[p] \in OnBound /\ bound'[p] = bound[p]
             \/ /\ pc[p] = "ensuring" /\ bound'[p] = runtime /\ runtime # NoGen
                /\ ~ending[runtime] /\ UNCHANGED pump
             \/ pc[p] = "launching" /\ bound'[p] = gens + 1 /\ UNCHANGED pump
  <2>1. CASE o # p
    <3>1. o \in Ops /\ pc'[p] = pc[p] /\ bound'[p] = bound[p]
      BY <1>4, <2>1
         DEF AcquireGate, RequestStep, CheckBusy, EnsureRuntime, JoinEnding,
             Launch, Bind, OpenStream, StopSignal, StopJoin, UseRuntime,
             ReleaseGate, Fail, Leave, At
    <3> QED BY <1>1, <3>1
  <2>2. CASE o = p /\ EnsureRuntime(o)
    BY <2>2 DEF EnsureRuntime, Fail, Leave, pumpVars
  <2>3. CASE o = p /\ Launch(o)
    BY <2>3 DEF Launch, Fail, Leave, pumpVars
  <2>4. CASE o = p /\ ~EnsureRuntime(o) /\ ~Launch(o)
    BY <1>4, <2>4
       DEF AcquireGate, RequestStep, CheckBusy, JoinEnding, Bind, OpenStream,
           StopSignal, StopJoin, UseRuntime, ReleaseGate, Fail, Leave, At
  <2> QED BY <2>1, <2>2, <2>3, <2>4
<1>5. ASSUME NEW q \in Prompts, TurnStep(q)
      PROVE  pc[p] \in OnBound /\ bound'[p] = bound[p]
  BY <1>5
     DEF TurnStep, InstallTurn, Dispatch, AcceptTurn, AbortExpires,
         BeginSettlement, CommitTurn, SignalTurnRuntime, DropTurnRuntime,
         FenceLostTransport, ClaimTurn, PublishTurnIdle, Unwind, Leave, At,
         opVars
<1>6. CASE Cancel \/ (\E i \in callbacks : Abort(i)) \/ BeginClose \/ CloseStep
  BY <1>1, <1>6
     DEF Cancel, Abort, BeginClose, CloseStep, CloseAbort, CloseStop,
         CloseJoinPump, CloseCommit, CloseFence, opVars
<1> QED
  BY <1>1, <1>2, <1>3, <1>4, <1>5, <1>6, PumpFootprint DEF Next

LEMMA TurnServedStep ==
  ASSUME SessionInv, EndingSeen, TurnServed, [Next]_vars
  PROVE  TurnServed'
<1> USE DEF SessionInv, TypeOK, RuntimeTypes
<1> SUFFICES ASSUME NEW p \in Prompts, NEW g \in Gens,
                    pump'[g] \in {"endJoin", "endWait"}, pc'[p] \in OnBound,
                    bound'[p] = g
             PROVE  held'[g] = p
  BY DEF TurnServed
<1>1. CASE pump[g] \in {"endJoin", "endWait"} /\ held'[g] = held[g]
  <2>1. CASE pc[p] \in OnBound /\ bound'[p] = bound[p]
    BY <1>1, <2>1 DEF TurnServed
  <2>2. CASE bound'[p] = runtime /\ ~ending[runtime]
    BY <1>1, <2>2 DEF EndingSeen
  <2>3. CASE bound'[p] = gens + 1
    BY <1>1, <2>3 DEF ProcessInv, GoneIsUnbound, Gens
  <2> QED BY <2>1, <2>2, <2>3, BoundMoves
<1>2. CASE RuntimeEnded(g) /\ pump[g] = "ready" /\ runtime = g
  <2>1. pc[p] \in OnBound /\ bound'[p] = bound[p]
    BY <1>2, BoundMoves DEF RuntimeEnded
  <2>2. turn = p /\ p # None
    BY <2>1, NamesAssumption DEF CycleInv, TurnNamed, InTurn, OnBound, OnRuntime, Ops
  <2> QED BY <1>2, <2>2 DEF RuntimeEnded, Foreground
<1> QED BY <1>1, <1>2, EndMoves

\* Who unbinds the runtime of a session that is not closing.
LEMMA Unbinds ==
  ASSUME SessionInv, [Next]_vars, ~closing, runtime # NoGen, runtime' # runtime
  PROVE  \/ \E o \in Prompts \cup Reads : StopJoin(o) /\ bound[o] = runtime
         \/ \E p \in Prompts : /\ DropTurnRuntime(p) \/ FenceLostTransport(p)
                               /\ bound[p] = runtime
         \/ \E g \in Gens : DropCycleRuntime(g) /\ runtime = g
         \/ \E g \in Gens : RetireRuntime(g) /\ runtime = g
<1> USE DEF SessionInv
<1>1. CASE UNCHANGED vars
  BY <1>1 DEF vars, sessionVars
<1>2. CASE EstablishCommit \/ EstablishOpen
  BY <1>2 DEF EstablishCommit, EstablishOpen, sessionVars
<1>3. ASSUME NEW o \in Prompts \cup Reads, AcquireGate(o) \/ RequestStep(o)
      PROVE  StopJoin(o) /\ bound[o] = runtime
  <2>1. ~Bind(o)
    BY DEF Bind, ProcessInv, LaunchesAlone, Ops
  <2>2. StopJoin(o)
    BY <1>3, <2>1
       DEF AcquireGate, RequestStep, CheckBusy, EnsureRuntime, JoinEnding,
           Launch, OpenStream, StopSignal, UseRuntime, ReleaseGate, sessionVars
  <2> QED BY <2>2 DEF StopJoin, DropRuntime
<1>4. ASSUME NEW p \in Prompts, TurnStep(p)
      PROVE  /\ DropTurnRuntime(p) \/ FenceLostTransport(p)
             /\ bound[p] = runtime
  <2>1. DropTurnRuntime(p) \/ FenceLostTransport(p)
    BY <1>4
       DEF TurnStep, InstallTurn, Dispatch, AcceptTurn, AbortExpires,
           BeginSettlement, CommitTurn, SignalTurnRuntime, ClaimTurn,
           PublishTurnIdle, Unwind, sessionVars
  <2> QED
    BY <2>1 DEF DropTurnRuntime, FenceLostTransport, DropRuntime
<1>5. ASSUME NEW g \in Gens, PumpStep(g) \/ ReadFails(g) \/ Emit(g) \/ Exit(g)
      PROVE  (DropCycleRuntime(g) \/ RetireRuntime(g)) /\ runtime = g
  <2>1. DropCycleRuntime(g) \/ RetireRuntime(g)
    BY <1>5
       DEF PumpStep, ReadFails, Emit, Exit, PumpTake, OpenCycle, LoseCycle,
           Apply, FinishDelivery, CommitCycle, SignalCycleRuntime, ClaimCycle,
           PublishCycleIdle, ClearCycle, DrainRuntime, EndForeground, Release,
           RuntimeEnded, sessionVars
  <2> QED BY <2>1 DEF DropCycleRuntime, RetireRuntime, DropRuntime
<1>6. CASE Cancel \/ (\E i \in callbacks : Abort(i)) \/ BeginClose \/ CloseStep
  <2>1. ~CloseJoinPump
    BY DEF CloseJoinPump, CloseAt, AddressedOpen
  <2> QED
    BY <1>6, <2>1
       DEF Cancel, Abort, BeginClose, CloseStep, CloseAbort, CloseStop,
           CloseCommit, CloseFence, sessionVars
<1> QED BY <1>1, <1>2, <1>3, <1>4, <1>5, <1>6 DEF Next

\* A turn on that runtime would have been the one it ends, and the pump itself
\* unbinds it after the idle.
LEMMA EndsBoundStep ==
  ASSUME Reads = {}, SessionInv, SessionInv', TurnServed, EndsBound, [Next]_vars
  PROVE  EndsBound'
<1> USE CyclesApart DEF SessionInv
<1> SUFFICES ASSUME NEW g \in Gens, EndsCycle(g)', ~closing'
             PROVE  runtime' = g
  BY DEF EndsBound
<1>1. ~closing /\ g # NoGen
  BY ClosingStays DEF NoGen, Gens
<1>2. CASE EndsCycle(g) /\ held'[g] = held[g]
  <2>1. runtime = g /\ pump[g] = "endJoin" /\ held[g] \in Cycles
    BY <1>1, <1>2 DEF EndsBound, EndsCycle
  <2>2. ASSUME NEW p \in Prompts, pc[p] \in OnBound PROVE bound[p] # g
    BY <2>1, <2>2 DEF TurnServed
  <2>3. ASSUME NEW p \in Prompts, StopJoin(p), bound[p] = g PROVE FALSE
    BY <2>2, <2>3 DEF StopJoin, OnBound, OnRuntime
  <2>4. ASSUME NEW p \in Prompts, DropTurnRuntime(p) \/ FenceLostTransport(p),
               bound[p] = g
        PROVE  FALSE
    BY <2>2, <2>4 DEF DropTurnRuntime, FenceLostTransport, At, OnBound, OnRuntime
  <2>5. ~DropCycleRuntime(g) /\ ~RetireRuntime(g)
    BY <2>1 DEF DropCycleRuntime, RetireRuntime, PumpAt
  <2> QED BY <1>1, <2>1, <2>3, <2>4, <2>5, Unbinds
<1>3. CASE runtime = g /\ UNCHANGED runtime
  BY <1>3
<1> QED BY <1>2, <1>3, EndTaken

\* Nobody works on a cycle while a stream opens: a turn is installed, or nothing has
\* begun yet.
LEMMA OpensIdle ==
  ASSUME Reads = {}, SessionInv, AloneInv, EndingSeen, EndsBound, [Next]_vars,
         ~StreamKeptOrFenced, NEW c \in Cycles
  PROVE  ~Working(c)
<1> USE CyclesApart DEF SessionInv, AloneInv
<1> SUFFICES ASSUME Working(c) PROVE FALSE
  OBVIOUS
<1>1. ASSUME NEW o \in Prompts \cup Reads, Opens(o) PROVE FALSE
  <2>1. o \in Prompts /\ turn = o /\ o # None
    BY <1>1, NamesAssumption DEF Opens, CycleInv, TurnNamed, InTurn, Ops
  <2>2. cycle = None /\ ~closing /\ closePc # "closed"
    BY <1>1, <2>1 DEF Opens, Openable, OneForeground, AddressedOpen
  <2>3. PICK g \in Gens : held[g] = c /\ (HoldsCycle(g) \/ EndsCycle(g))
    BY <2>2 DEF Working
  <2>4. EndsCycle(g)
    BY <2>2, <2>3 DEF CycleAlone
  <2>5. runtime = g /\ ending[g]
    BY <2>2, <2>4 DEF EndsBound, EndingSeen, EndsCycle
  <2> QED BY <1>1, <2>5 DEF Opens, Openable
<1>2. CASE OpensFirst
  <2>1. cycles = 0
    BY <1>2 DEF OpensFirst, QuietFirst
  <2>2. c \in Nat \ {0} /\ c <= cycles
    BY BoundsAssumption DEF Working, AnnouncedInv, CycleNames, Cycles
  <2> QED BY <2>1, <2>2
<1> QED BY <1>1, <1>2, StreamMoves

LEMMA CycleAcceptedStep ==
  ASSUME Reads = {}, SessionInv, AloneInv, EndingSeen, EndsBound, CycleAccepted,
         [Next]_vars
  PROVE  CycleAccepted'
<1> USE CyclesApart DEF SessionInv
<1> SUFFICES ASSUME NEW c \in Cycles, Working(c)'
             PROVE  acceptedIn'[c] # NotYet /\ stream' \in {acceptedIn'[c], NoGen}
  BY DEF CycleAccepted
<1>1. c \in Foregrounds /\ c # None
  BY DEF Foregrounds
<1>2. CASE Working(c)
  <2>1. acceptedIn[c] # NotYet /\ stream \in {acceptedIn[c], NoGen}
    BY <1>2 DEF CycleAccepted
  <2>2. acceptedIn'[c] = acceptedIn[c]
    BY <1>1, <2>1, AcceptMoves
  <2>3. stream' \in {stream, NoGen}
    BY <1>2, OpensIdle DEF StreamKeptOrFenced
  <2> QED BY <2>1, <2>2, <2>3
<1>3. ASSUME NEW g \in Gens, OpenCycle(g), MayOpenCycle(g), cycle' = c
      PROVE  acceptedIn'[c] # NotYet /\ stream' \in {acceptedIn'[c], NoGen}
  <2>1. c = cycles + 1 /\ cycles \in Nat /\ stream' = stream /\ Accept(c)
    BY <1>3, BoundsAssumption DEF OpenCycle, TypeOK, BoundTypes
  <2>2. acceptedIn[c] = NotYet
    BY <2>1 DEF AnnouncedInv, CycleNames
  <2>3. acceptedIn'[c] = stream
    BY <1>1, <2>1, <2>2 DEF Accept, TypeOK, StreamTypes
  <2>4. stream # NotYet
    BY BoundsAssumption DEF TypeOK, StreamTypes, NotYet, NoGen, Gens
  <2> QED BY <2>1, <2>3, <2>4
<1>4. CASE cycle' = c
  BY <1>2, <1>3, <1>4, CycleMoves DEF Working
<1>5. ASSUME NEW g \in Gens, held'[g] = c, HoldsCycle(g)'
      PROVE  Working(c) \/ cycle' = c
  BY <1>5, CycleTaken DEF Working
<1>6. ASSUME NEW g \in Gens, held'[g] = c, EndsCycle(g)'
      PROVE  Working(c)
  BY <1>6, EndTaken DEF Working
<1> QED BY <1>2, <1>4, <1>5, <1>6 DEF Working

-----------------------------------------------------------------------------
(* Which incarnation a turn ends on.                                       *)

\* The turn was announced, or a pump is about to apply a frame to it.
Reached(p) ==
  \/ acceptedIn[p] # NotYet
  \/ \E g \in Gens : held[g] = p /\ pump[g] \in {"apply", "delivering"}

\* The turn that is installed is worked on.
TurnHeld == \A p \in Prompts : turn = p => pc[p] \in InTurn

\* Whoever joins t.finished joins the end of the turn.
FinishedOut == \A p \in Prompts : finished[p] => pc[p] \in {"leaving", "answered"}

\* Nothing reached the turn of a prompt that has not come to a runtime yet.
TurnFresh ==
  \A p \in Prompts :
    \/ pc[p] \in {"idle", "gated"}
    \/ pc[p] \in {"launching"} \cup Unopened /\ ~closing
    => ~Reached(p)

\* A turn that a frame reached before its prompt looked for a runtime has that
\* runtime until it is over: the end of it joins the turn.
TurnAwaits ==
  \A p \in Prompts : pc[p] \in {"ensuring", "joining"} /\ ~closing /\ Reached(p) =>
    /\ runtime # NoGen
    /\ \/ pump[runtime] \in {"ready", "opening", "apply", "delivering"}
       \/ pump[runtime] \in {"endJoin", "endWait"} /\ held[runtime] = p

\* The stream of a turn is still the one that announced it, as long as it is open.
TurnAccepted ==
  \A p \in Prompts : pc[p] \in InTurn /\ acceptedIn[p] # NotYet =>
    stream \in {acceptedIn[p], NoGen}

\* A prompt that was dispatched was announced.
Submitted == {"running", "settling", "signalling", "dropping", "claiming",
              "claimFailed", "publishing"}

TurnSubmitted == \A p \in Prompts : pc[p] \in Submitted => acceptedIn[p] # NotYet

LEMMA TurnHeldStep ==
  ASSUME SessionInv, TurnHeld, [Next]_vars
  PROVE  TurnHeld'
<1> USE NamesAssumption
    DEF SessionInv, TypeOK, RequestTypes, TurnHeld, InTurn, Ops
<1>1. CASE UNCHANGED <<pc, turn>>
  BY <1>1
<1>2. CASE UNCHANGED vars
  BY <1>1, <1>2 DEF vars, opVars, sessionVars
<1>3. CASE EstablishCommit \/ EstablishOpen
  BY <1>3 DEF EstablishCommit, EstablishOpen, sessionVars
<1>4. ASSUME NEW o \in Prompts \cup Reads, AcquireGate(o) \/ RequestStep(o)
      PROVE  TurnHeld'
  <2>1. UNCHANGED turn /\ \A q \in Ops \ {o} : pc'[q] = pc[q]
    BY <1>4
       DEF AcquireGate, RequestStep, CheckBusy, EnsureRuntime, JoinEnding,
           Launch, Bind, OpenStream, StopSignal, StopJoin, UseRuntime,
           ReleaseGate, Fail, Leave, At, sessionVars
  <2>2. o \in Prompts /\ pc[o] \in InTurn => pc'[o] \in InTurn
    BY <1>4
       DEF AcquireGate, RequestStep, CheckBusy, EnsureRuntime, JoinEnding,
           Launch, Bind, OpenStream, StopSignal, StopJoin, UseRuntime,
           ReleaseGate, Fail, Leave, At, Served
  <2> QED BY <2>1, <2>2
<1>5. ASSUME NEW p \in Prompts, TurnStep(p) PROVE TurnHeld'
  <2>1. \A q \in Ops \ {p} : pc'[q] = pc[q]
    BY <1>5, TurnFootprint
  <2>2. CASE InstallTurn(p)
    BY <2>1, <2>2 DEF InstallTurn
  <2>3. CASE Unwind(p)
    BY <2>1, <2>3 DEF Unwind, At
  <2>4. CASE ~InstallTurn(p) /\ ~Unwind(p)
    <3>1. UNCHANGED turn /\ pc'[p] \in InTurn
      BY <1>5, <2>4
         DEF TurnStep, Dispatch, AcceptTurn, AbortExpires, BeginSettlement,
             CommitTurn, SignalTurnRuntime, DropTurnRuntime,
             FenceLostTransport, ClaimTurn, PublishTurnIdle, Leave, At, opVars,
             sessionVars
    <3> QED BY <2>1, <3>1
  <2> QED BY <2>2, <2>3, <2>4
<1>6. CASE Cancel \/ (\E i \in callbacks : Abort(i)) \/ BeginClose \/ CloseStep
  BY <1>1, <1>6
     DEF Cancel, Abort, BeginClose, CloseStep, CloseAbort, CloseStop,
         CloseJoinPump, CloseCommit, CloseFence, opVars, sessionVars
<1> QED
  BY <1>1, <1>2, <1>3, <1>4, <1>5, <1>6, PumpFootprint DEF Next

LEMMA FinishedOutStep ==
  ASSUME SessionInv, FinishedOut, [Next]_vars
  PROVE  FinishedOut'
<1> USE NamesAssumption
    DEF SessionInv, TypeOK, RequestTypes, ForegroundTypes, FinishedOut, Ops
<1>1. CASE UNCHANGED <<pc, finished>>
  BY <1>1
<1>2. CASE UNCHANGED vars
  BY <1>1, <1>2 DEF vars, opVars, fgVars
<1>3. CASE EstablishCommit \/ EstablishOpen
  BY <1>3 DEF EstablishCommit, EstablishOpen, fgVars
<1>4. ASSUME NEW o \in Prompts \cup Reads, AcquireGate(o) \/ RequestStep(o)
      PROVE  FinishedOut'
  <2>1. UNCHANGED finished /\ \A q \in Ops \ {o} : pc'[q] = pc[q]
    BY <1>4
       DEF AcquireGate, RequestStep, CheckBusy, EnsureRuntime, JoinEnding,
           Launch, Bind, OpenStream, StopSignal, StopJoin, UseRuntime,
           ReleaseGate, Fail, Leave, At, fgVars
  <2>2. pc[o] \in {"leaving", "answered"} => pc'[o] \in {"leaving", "answered"}
    BY <1>4
       DEF AcquireGate, RequestStep, CheckBusy, EnsureRuntime, JoinEnding,
           Launch, Bind, OpenStream, StopSignal, StopJoin, UseRuntime,
           ReleaseGate, At
  <2> QED BY <2>1, <2>2
<1>5. ASSUME NEW p \in Prompts, TurnStep(p) PROVE FinishedOut'
  <2>1. /\ \A q \in Ops \ {p} : pc'[q] = pc[q]
        /\ pc[p] \notin {"leaving", "answered"}
    BY <1>5, TurnFootprint
       DEF TurnStep, InstallTurn, Dispatch, AcceptTurn, AbortExpires,
           BeginSettlement, CommitTurn, SignalTurnRuntime, DropTurnRuntime,
           FenceLostTransport, ClaimTurn, PublishTurnIdle, Unwind, At
  <2>2. CASE Unwind(p)
    BY <2>1, <2>2 DEF Unwind, At
  <2>3. CASE ~Unwind(p)
    <3>1. UNCHANGED finished
      BY <1>5, <2>3
         DEF TurnStep, InstallTurn, Dispatch, AcceptTurn, AbortExpires,
             BeginSettlement, CommitTurn, SignalTurnRuntime, DropTurnRuntime,
             FenceLostTransport, ClaimTurn, PublishTurnIdle, fgVars
    <3> QED BY <2>1, <3>1
  <2> QED BY <2>2, <2>3
<1>6. CASE Cancel \/ (\E i \in callbacks : Abort(i)) \/ BeginClose \/ CloseStep
  BY <1>1, <1>6
     DEF Cancel, Abort, BeginClose, CloseStep, CloseAbort, CloseStop,
         CloseJoinPump, CloseCommit, CloseFence, opVars, fgVars
<1>7. ASSUME NEW g \in Gens, PumpStep(g) \/ ReadFails(g) \/ Emit(g) \/ Exit(g)
      PROVE  UNCHANGED finished
  BY <1>7
     DEF PumpStep, ReadFails, Emit, Exit, PumpTake, OpenCycle, LoseCycle, Apply,
         FinishDelivery, CommitCycle, SignalCycleRuntime, DropCycleRuntime,
         ClaimCycle, PublishCycleIdle, ClearCycle, DrainRuntime, EndForeground,
         RetireRuntime, Release, RuntimeEnded, fgVars
<1> QED
  BY <1>1, <1>2, <1>3, <1>4, <1>5, <1>6, <1>7, PumpFootprint DEF Next

\* A turn is announced by its prompt, or by the pump that applies a frame to it.
LEMMA AcceptsTurn ==
  ASSUME SessionInv, [Next]_vars, NEW p \in Prompts, acceptedIn'[p] # acceptedIn[p]
  PROVE  /\ UNCHANGED stream
         /\ AcceptTurn(p) \/ \E g \in Gens : held[g] = p /\ pump[g] = "apply"
<1> USE CyclesApart DEF SessionInv, TypeOK, StreamTypes, RuntimeTypes, Foregrounds
<1>1. CASE UNCHANGED vars
  BY <1>1 DEF vars, pubVars
<1>2. CASE EstablishCommit \/ EstablishOpen
  BY <1>2 DEF EstablishCommit, EstablishOpen
<1>3. ASSUME NEW o \in Prompts \cup Reads, AcquireGate(o) \/ RequestStep(o)
      PROVE  UNCHANGED acceptedIn
  BY <1>3
     DEF AcquireGate, RequestStep, CheckBusy, EnsureRuntime, JoinEnding, Launch,
         Bind, OpenStream, StopSignal, StopJoin, UseRuntime, ReleaseGate,
         pubVars
<1>4. ASSUME NEW q \in Prompts, TurnStep(q) PROVE AcceptTurn(p) /\ UNCHANGED stream
  <2>1. AcceptTurn(q)
    BY <1>4
       DEF TurnStep, InstallTurn, Dispatch, AbortExpires, BeginSettlement,
           CommitTurn, SignalTurnRuntime, DropTurnRuntime, FenceLostTransport,
           ClaimTurn, PublishTurnIdle, Unwind, pubVars
  <2>2. q = p
    BY <2>1 DEF AcceptTurn, Accept
  <2> QED BY <2>1, <2>2 DEF AcceptTurn
<1>5. ASSUME NEW g \in Gens, PumpStep(g) \/ ReadFails(g) \/ Emit(g) \/ Exit(g)
      PROVE  held[g] = p /\ pump[g] = "apply" /\ UNCHANGED stream
  <2>1. CASE OpenCycle(g)
    <3>1. cycles \in Nat /\ cycles < MaxEvents
      BY <2>1, BoundsAssumption DEF OpenCycle, BoundTypes
    <3>2. MaxEvents \in Nat
      BY BoundsAssumption
    <3>3. cycles + 1 \in Cycles
      BY <3>1, <3>2 DEF Cycles
    <3>4. p # cycles + 1
      BY <3>3
    <3> QED BY <2>1, <3>4 DEF OpenCycle, Accept
  <2>2. CASE Apply(g)
    <3>1. held[g] = p /\ pump[g] \in {"apply", "opened"}
      BY <2>2 DEF Apply, Accept
    <3>2. pump[g] # "opened"
      BY <3>1 DEF SettlesCycle, CycleStages
    <3> QED BY <2>2, <3>1, <3>2 DEF Apply
  <2> QED
    BY <1>5, <2>1, <2>2
       DEF PumpStep, ReadFails, Emit, Exit, PumpTake, LoseCycle, FinishDelivery,
           CommitCycle, SignalCycleRuntime, DropCycleRuntime, ClaimCycle,
           PublishCycleIdle, ClearCycle, DrainRuntime, EndForeground,
           RetireRuntime, Release, RuntimeEnded, pubVars
<1>6. CASE Cancel \/ (\E i \in callbacks : Abort(i)) \/ BeginClose \/ CloseStep
  BY <1>6
     DEF Cancel, Abort, BeginClose, CloseStep, CloseAbort, CloseStop,
         CloseJoinPump, CloseCommit, CloseFence, pubVars
<1> QED BY <1>1, <1>2, <1>3, <1>4, <1>5, <1>6 DEF Next

\* A pump reaches a turn with the first frame it takes for it.
LEMMA ReachMoves ==
  ASSUME SessionInv, [Next]_vars, NEW p \in Prompts, Reached(p)'
  PROVE  \/ Reached(p)
         \/ AcceptTurn(p)
         \/ \E g \in Gens : /\ PumpTake(g) /\ runtime = g /\ turn = p
                            /\ out[g] # <<>> /\ pump'[g] = "apply"
                            /\ UNCHANGED runtime
<1> USE CyclesApart DEF SessionInv, TypeOK, RequestTypes, RuntimeTypes
<1>1. CASE acceptedIn'[p] # acceptedIn[p]
  BY <1>1, AcceptsTurn DEF Reached
<1>2. ASSUME NEW g \in Gens, held'[g] = p, pump'[g] \in {"apply", "delivering"}
      PROVE  \/ Reached(p)
             \/ /\ PumpTake(g) /\ runtime = g /\ turn = p
                /\ out[g] # <<>> /\ pump'[g] = "apply" /\ UNCHANGED runtime
  <2>1. CASE OffPump
    BY <1>2, <2>1 DEF OffPump, Reached
  <2>2. CASE \E h \in Gens \ {g} : PumpStep(h) \/ ReadFails(h)
    BY <1>2, <2>2, PumpMoves DEF Reached
  <2>3. CASE PumpTake(g)
    BY <1>2, <2>3 DEF PumpTake, Routed, Foreground
  <2>4. CASE (PumpStep(g) \/ ReadFails(g)) /\ ~PumpTake(g)
    <3>1. held[g] = p /\ pump[g] \in {"apply", "opened", "delivering"}
      BY <1>2, <2>4
         DEF PumpStep, ReadFails, OpenCycle, LoseCycle, Apply, FinishDelivery,
             CommitCycle, SignalCycleRuntime, DropCycleRuntime, ClaimCycle,
             PublishCycleIdle, ClearCycle, DrainRuntime, EndForeground,
             RetireRuntime, Release, RuntimeEnded, Routed, PumpAt
    <3> QED BY <3>1 DEF Reached, SettlesCycle, CycleStages
  <2> QED BY <2>1, <2>2, <2>3, <2>4, OffPumpMoves
<1> QED BY <1>1, <1>2 DEF Reached

LEMMA TurnSubmittedStep ==
  ASSUME SessionInv, TurnSubmitted, [Next]_vars
  PROVE  TurnSubmitted'
<1> USE NamesAssumption
    DEF SessionInv, TypeOK, RequestTypes, Submitted, Foregrounds, Ops
<1> SUFFICES ASSUME NEW p \in Prompts, pc'[p] \in Submitted
             PROVE  acceptedIn'[p] # NotYet
  BY DEF TurnSubmitted
<1>1. CASE pc[p] \in Submitted
  BY <1>1, AcceptMoves DEF TurnSubmitted
<1>2. CASE pc[p] \notin Submitted
  <2>1. CASE UNCHANGED vars
    BY <1>2, <2>1 DEF vars, opVars
  <2>2. CASE EstablishCommit \/ EstablishOpen
    BY <1>2, <2>2 DEF EstablishCommit, EstablishOpen
  <2>3. ASSUME NEW o \in Prompts \cup Reads, AcquireGate(o) \/ RequestStep(o)
        PROVE  pc'[p] \notin Submitted
    BY <1>2, <2>3
       DEF AcquireGate, RequestStep, CheckBusy, EnsureRuntime, JoinEnding,
           Launch, Bind, OpenStream, StopSignal, StopJoin, UseRuntime,
           ReleaseGate, Fail, Leave, At, Served
  <2>4. ASSUME NEW q \in Prompts, TurnStep(q) PROVE AcceptTurn(p)
    <3>1. q = p
      BY <1>2, <2>4, TurnFootprint
    <3> QED
      BY <1>2, <2>4, <3>1
         DEF TurnStep, InstallTurn, Dispatch, AbortExpires, BeginSettlement,
             CommitTurn, SignalTurnRuntime, DropTurnRuntime,
             FenceLostTransport, ClaimTurn, PublishTurnIdle, Unwind, Leave, At,
             opVars
  <2>5. CASE AcceptTurn(p)
    <3>1. stream # NotYet
      BY BoundsAssumption DEF StreamTypes, NotYet, NoGen, Gens
    <3> QED BY <2>5, <3>1 DEF AcceptTurn, Accept, StreamTypes
  <2>6. CASE Cancel \/ (\E i \in callbacks : Abort(i)) \/ BeginClose \/ CloseStep
    BY <1>2, <2>6
       DEF Cancel, Abort, BeginClose, CloseStep, CloseAbort, CloseStop,
           CloseJoinPump, CloseCommit, CloseFence, opVars
  <2> QED
    BY <1>2, <2>1, <2>2, <2>3, <2>4, <2>5, <2>6, PumpFootprint DEF Next
<1> QED BY <1>1, <1>2

\* A request comes to a launch from a session that is bound to nothing, or whose
\* runtime is over.
LEMMA FreshMoves ==
  ASSUME SessionInv, [Next]_vars, NEW p \in Prompts,
         \/ pc'[p] \in {"idle", "gated"}
         \/ pc'[p] \in {"launching"} \cup Unopened /\ ~closing'
  PROVE  \/ pc[p] \in {"idle", "gated"}
         \/ pc[p] \in {"launching"} \cup Unopened /\ ~closing
         \/ pc[p] = "ensuring" /\ runtime = NoGen /\ ~closing
         \/ pc[p] = "joining" /\ done[bound[p]] /\ ~closing
<1> USE NamesAssumption DEF SessionInv, TypeOK, RequestTypes, Unopened, Ops
<1>1. closing => closing'
  BY ClosingStays
<1>2. CASE pc'[p] = pc[p]
  BY <1>1, <1>2
<1>3. CASE UNCHANGED vars
  BY <1>2, <1>3 DEF vars, opVars
<1>4. CASE EstablishCommit \/ EstablishOpen
  BY <1>2, <1>4 DEF EstablishCommit, EstablishOpen
<1>5. ASSUME NEW o \in Prompts \cup Reads, AcquireGate(o) \/ RequestStep(o)
      PROVE  \/ pc[p] \in {"idle", "gated"}
             \/ pc[p] \in {"launching"} \cup Unopened /\ ~closing
             \/ pc[p] = "ensuring" /\ runtime = NoGen /\ ~closing
             \/ pc[p] = "joining" /\ done[bound[p]] /\ ~closing
  <2>1. CASE o # p
    <3>1. pc'[p] = pc[p]
      BY <1>5, <2>1
         DEF AcquireGate, RequestStep, CheckBusy, EnsureRuntime, JoinEnding,
             Launch, Bind, OpenStream, StopSignal, StopJoin, UseRuntime,
             ReleaseGate, Fail, Leave, At
    <3> QED BY <1>2, <3>1
  <2>2. CASE o = p /\ EnsureRuntime(o)
    BY <1>1, <2>2 DEF EnsureRuntime, Fail, Leave, Served
  <2>3. CASE o = p /\ JoinEnding(o)
    BY <1>1, <2>3 DEF JoinEnding, Fail, Leave
  <2>4. CASE AcquireGate(p)
    BY <2>4 DEF AcquireGate
  <2>5. CASE Launch(p) \/ Bind(p) \/ OpenStream(p)
    <3>1. pc[p] \in {"launching"} \cup Unopened
      BY <2>5 DEF Launch, Bind, OpenStream
    <3>2. pc'[p] \notin {"idle", "gated"}
      BY <2>5 DEF Launch, Bind, OpenStream, Fail, Leave, Served
    <3> QED BY <1>1, <3>1, <3>2
  <2>6. CASE StopSignal(p) \/ StopJoin(p) \/ ReleaseGate(p)
    BY <1>1, <2>6 DEF StopSignal, StopJoin, ReleaseGate, Fail, Leave, At
  <2>7. ~CheckBusy(p) /\ ~UseRuntime(p)
    BY DEF CheckBusy, UseRuntime
  <2> QED
    BY <1>5, <2>1, <2>2, <2>3, <2>4, <2>5, <2>6, <2>7 DEF RequestStep
<1>6. ASSUME NEW q \in Prompts, TurnStep(q)
      PROVE  pc'[p] = pc[p] \/ pc[p] = "gated"
  <2>1. CASE q # p
    BY <1>6, <2>1, TurnFootprint
  <2>2. CASE q = p
    BY <1>6, <2>2
       DEF TurnStep, InstallTurn, Dispatch, AcceptTurn, AbortExpires,
           BeginSettlement, CommitTurn, SignalTurnRuntime, DropTurnRuntime,
           FenceLostTransport, ClaimTurn, PublishTurnIdle, Unwind, Leave, At,
           opVars
  <2> QED BY <2>1, <2>2
<1>7. CASE Cancel \/ (\E i \in callbacks : Abort(i)) \/ BeginClose \/ CloseStep
  BY <1>2, <1>7
     DEF Cancel, Abort, BeginClose, CloseStep, CloseAbort, CloseStop,
         CloseJoinPump, CloseCommit, CloseFence, opVars
<1> QED
  BY <1>2, <1>3, <1>4, <1>5, <1>6, <1>7, PumpFootprint DEF Next

LEMMA TurnFreshStep ==
  ASSUME SessionInv, AloneInv, TurnHeld, TurnFresh, TurnAwaits, [Next]_vars
  PROVE  TurnFresh'
<1> USE NamesAssumption DEF SessionInv, AloneInv, Ops
<1> SUFFICES ASSUME NEW p \in Prompts, Reached(p)',
                    \/ pc'[p] \in {"idle", "gated"}
                    \/ pc'[p] \in {"launching"} \cup Unopened /\ ~closing'
             PROVE  FALSE
  BY DEF TurnFresh
<1>1. ~Reached(p)
  <2>1. CASE pc[p] = "ensuring" /\ runtime = NoGen /\ ~closing
    BY <2>1 DEF TurnAwaits
  <2>2. CASE pc[p] = "joining" /\ done[bound[p]] /\ ~closing
    <3> SUFFICES ASSUME Reached(p) PROVE FALSE
      OBVIOUS
    <3>1. runtime # NoGen /\ pump[runtime] \notin {"none", "done"}
      BY <2>2 DEF TurnAwaits
    <3>2. runtime = bound[p] /\ bound[p] \in Gens
      BY <2>2, <3>1 DEF ProcessInv, LaunchesAlone, BoundToOne, OnRuntime
    <3> QED BY <2>2, <3>1, <3>2 DEF DoneIsOver
  <2> QED BY <2>1, <2>2, FreshMoves DEF TurnFresh
<1>2. ~AcceptTurn(p)
  BY DEF AcceptTurn, At, Unopened, TypeOK, RequestTypes
<1>3. ASSUME NEW g \in Gens, PumpTake(g), runtime = g, turn = p, out[g] # <<>>
      PROVE  FALSE
  <2>1. UNCHANGED <<pc, bound, closing>>
    BY <1>3 DEF PumpTake, opVars
  <2>2. pc[p] \in {"launching"} \cup Unopened /\ ~closing
    BY <1>3, <2>1 DEF TurnHeld, InTurn
  <2>3. g # NoGen
    BY DEF NoGen, Gens
  <2>4. pc[p] \in {"configuring", "stopping", "stopJoin"} /\ bound[p] \in {g, retired}
    BY <1>3, <2>2, <2>3 DEF ProcessInv, LaunchesAlone, Unopened
  <2>5. bound[p] = g
    BY <1>3, <2>3, <2>4
       DEF ProcessInv, OneGeneration, BoundToOne, OnRuntime, NoGen, Gens
  <2>6. Silent(g)
    BY <2>2, <2>4, <2>5 DEF OpeningInv, SilentFirst, Unopened
  <2> QED BY <1>3, <2>6 DEF Silent
<1> QED BY <1>1, <1>2, <1>3, ReachMoves

\* A prompt looks for a runtime with its turn installed.
LEMMA AwaitMoves ==
  ASSUME SessionInv, [Next]_vars, NEW p \in Prompts, pc'[p] \in {"ensuring", "joining"}
  PROVE  pc[p] \in {"ensuring", "joining"} \/ InstallTurn(p)
<1> USE NamesAssumption DEF SessionInv, TypeOK, RequestTypes, Ops
<1>1. CASE pc'[p] = pc[p]
  BY <1>1
<1>2. CASE UNCHANGED vars
  BY <1>1, <1>2 DEF vars, opVars
<1>3. CASE EstablishCommit \/ EstablishOpen
  BY <1>1, <1>3 DEF EstablishCommit, EstablishOpen
<1>4. ASSUME NEW o \in Prompts \cup Reads, AcquireGate(o) \/ RequestStep(o)
      PROVE  pc'[p] = pc[p] \/ pc[p] = "ensuring"
  <2>1. CASE o # p
    BY <1>4, <2>1
       DEF AcquireGate, RequestStep, CheckBusy, EnsureRuntime, JoinEnding,
           Launch, Bind, OpenStream, StopSignal, StopJoin, UseRuntime,
           ReleaseGate, Fail, Leave, At
  <2>2. CASE AcquireGate(p) \/ Launch(p) \/ Bind(p) \/ OpenStream(p)
    BY <2>2 DEF AcquireGate, Launch, Bind, OpenStream, Fail, Leave, Served
  <2>3. CASE StopSignal(p) \/ StopJoin(p) \/ ReleaseGate(p) \/ JoinEnding(p)
    BY <2>3 DEF StopSignal, StopJoin, ReleaseGate, JoinEnding, Fail, Leave, At
  <2>4. CASE EnsureRuntime(p)
    BY <2>4 DEF EnsureRuntime
  <2>5. ~CheckBusy(p) /\ ~UseRuntime(p)
    BY DEF CheckBusy, UseRuntime
  <2> QED BY <1>4, <2>1, <2>2, <2>3, <2>4, <2>5 DEF RequestStep
<1>5. ASSUME NEW q \in Prompts, TurnStep(q)
      PROVE  pc'[p] = pc[p] \/ InstallTurn(p)
  <2>1. CASE q # p
    BY <1>5, <2>1, TurnFootprint
  <2>2. CASE q = p /\ ~InstallTurn(p)
    BY <1>5, <2>2
       DEF TurnStep, Dispatch, AcceptTurn, AbortExpires, BeginSettlement,
           CommitTurn, SignalTurnRuntime, DropTurnRuntime, FenceLostTransport,
           ClaimTurn, PublishTurnIdle, Unwind, Leave, At, opVars
  <2> QED BY <2>1, <2>2
<1>6. CASE Cancel \/ (\E i \in callbacks : Abort(i)) \/ BeginClose \/ CloseStep
  BY <1>1, <1>6
     DEF Cancel, Abort, BeginClose, CloseStep, CloseAbort, CloseStop,
         CloseJoinPump, CloseCommit, CloseFence, opVars
<1> QED
  BY <1>1, <1>2, <1>3, <1>4, <1>5, <1>6, PumpFootprint DEF Next

\* What the pump of a runtime is at that has a turn to serve, or ends it.
Awaits(p) ==
  /\ runtime # NoGen
  /\ \/ pump[runtime] \in {"ready", "opening", "apply", "delivering"}
     \/ pump[runtime] \in {"endJoin", "endWait"} /\ held[runtime] = p

\* The pump keeps the runtime, or ends it, as long as the turn is not finished.
LEMMA AwaitsStays ==
  ASSUME Reads = {}, "turn" \notin Expiring, SessionInv, AloneInv, FinishedOut,
         [Next]_vars, NEW p \in Prompts, pc[p] \in {"ensuring", "joining"},
         ~closing, Awaits(p)
  PROVE  Awaits(p)'
<1> USE CyclesApart
    DEF SessionInv, TypeOK, RequestTypes, RuntimeTypes, ForegroundTypes, Awaits
<1>1. turn = p /\ p # None /\ cycle = None /\ closePc # "closed"
  BY NamesAssumption
     DEF CycleInv, TurnNamed, InTurn, OneForeground, Ops, AddressedOpen,
         Foregrounds
<1>2. ASSUME NEW g \in Gens, RetireRuntime(g) PROVE runtime # g
  BY <1>2 DEF RetireRuntime, PumpAt, TurnJoined, Expires, FinishedOut
<1>3. UNCHANGED runtime
  <2>1. ASSUME NEW o \in Prompts, pc[o] \in {"stopJoin", "dropping", "settling"}
        PROVE  FALSE
    BY <2>1 DEF GateExclusive, Holding, Ops
  <2>2. ASSUME NEW g \in Gens, DropCycleRuntime(g) PROVE runtime # g
    BY <2>2 DEF DropCycleRuntime, PumpAt
  <2> QED
    BY <1>2, <2>1, <2>2, Unbinds
       DEF StopJoin, DropTurnRuntime, FenceLostTransport, At
<1>4. CASE OffPump
  BY <1>3, <1>4 DEF OffPump
<1>5. CASE \E h \in Gens \ {runtime} : PumpStep(h) \/ ReadFails(h)
  BY <1>3, <1>5, PumpMoves DEF NoGen
<1>6. CASE PumpStep(runtime) \/ ReadFails(runtime)
  <2> DEFINE g == runtime
  <2>1. g \in Gens
    OBVIOUS
  <2>2. pump[g] \in {"apply", "delivering"} => held[g] \in Prompts
    BY <1>1 DEF PumpHolds, Holders, HoldsCycle, AloneInv, CycleAlone, Foregrounds
  <2>3. CASE PumpTake(g)
    BY <1>1, <1>3, <2>3 DEF PumpTake, Routed
  <2>4. CASE DrainRuntime(g) \/ ReadFails(g)
    BY <1>1, <1>3, <2>4 DEF DrainRuntime, ReadFails, RuntimeEnded, Foreground
  <2>5. CASE OpenCycle(g)
    BY <1>1, <1>3, <2>5 DEF OpenCycle, MayOpenCycle, Routed
  <2>6. CASE Apply(g)
    <3>1. pump[g] = "apply"
      BY <2>6 DEF Apply, NoGen
    <3> QED BY <1>3, <2>2, <2>6, <3>1 DEF Apply, Routed
  <2>7. CASE FinishDelivery(g)
    BY <1>3, <2>7 DEF FinishDelivery, Routed
  <2>8. CASE EndForeground(g)
    BY <1>3, <2>8 DEF EndForeground, PumpAt
  <2>9. ~RetireRuntime(g)
    BY <1>2, <2>1
  <2>10. /\ ~LoseCycle(g) /\ ~CommitCycle(g) /\ ~SignalCycleRuntime(g)
         /\ ~DropCycleRuntime(g) /\ ~ClaimCycle(g) /\ ~PublishCycleIdle(g)
         /\ ~ClearCycle(g) /\ ~Release(g)
    BY DEF LoseCycle, CycleLost, CommitCycle, SignalCycleRuntime,
           DropCycleRuntime, ClaimCycle, PublishCycleIdle, ClearCycle, Release,
           PumpAt
  <2> QED
    BY <1>6, <2>3, <2>4, <2>5, <2>6, <2>7, <2>8, <2>9, <2>10 DEF PumpStep
<1> QED BY <1>4, <1>5, <1>6, OffPumpMoves

LEMMA TurnAwaitsStep ==
  ASSUME Reads = {}, "turn" \notin Expiring, SessionInv, AloneInv, FinishedOut,
         TurnFresh, TurnAwaits, [Next]_vars
  PROVE  TurnAwaits'
<1> USE DEF SessionInv, TypeOK, RequestTypes, RuntimeTypes
<1> SUFFICES ASSUME NEW p \in Prompts, pc'[p] \in {"ensuring", "joining"}, ~closing',
                    Reached(p)'
             PROVE  Awaits(p)'
  BY DEF TurnAwaits, Awaits
<1>1. ~closing /\ ~AcceptTurn(p)
  <2>1. pc[p] \in {"ensuring", "joining", "gated"}
    BY AwaitMoves DEF InstallTurn
  <2> QED BY <2>1, ClosingStays DEF AcceptTurn, At
<1>2. CASE Reached(p)
  <2>1. pc[p] \in {"ensuring", "joining"}
    BY <1>2, AwaitMoves DEF TurnFresh, InstallTurn
  <2>2. Awaits(p)
    BY <1>1, <1>2, <2>1 DEF TurnAwaits, Awaits
  <2> QED BY <1>1, <2>1, <2>2, AwaitsStays
<1>3. ASSUME NEW g \in Gens, runtime = g, pump'[g] = "apply", UNCHANGED runtime
      PROVE  Awaits(p)'
  BY <1>3 DEF Awaits, NoGen, Gens
<1> QED BY <1>1, <1>2, <1>3, ReachMoves

\* A prompt comes to its turn by installing it.
LEMMA TurnInstalled ==
  ASSUME SessionInv, [Next]_vars, NEW p \in Prompts, pc'[p] \in InTurn
  PROVE  pc[p] \in InTurn \/ InstallTurn(p)
<1> USE NamesAssumption DEF SessionInv, TypeOK, RequestTypes, Ops, InTurn
<1>1. CASE pc'[p] = pc[p]
  BY <1>1
<1>2. CASE UNCHANGED vars
  BY <1>1, <1>2 DEF vars, opVars
<1>3. CASE EstablishCommit \/ EstablishOpen
  BY <1>1, <1>3 DEF EstablishCommit, EstablishOpen
<1>4. ASSUME NEW o \in Prompts \cup Reads, AcquireGate(o) \/ RequestStep(o)
      PROVE  pc'[p] = pc[p] \/ pc[p] \in InTurn
  <2>1. CASE o # p
    BY <1>4, <2>1
       DEF AcquireGate, RequestStep, CheckBusy, EnsureRuntime, JoinEnding,
           Launch, Bind, OpenStream, StopSignal, StopJoin, UseRuntime,
           ReleaseGate, Fail, Leave, At
  <2>2. CASE EnsureRuntime(p) \/ JoinEnding(p) \/ Launch(p) \/ Bind(p) \/ OpenStream(p)
    BY <2>2 DEF EnsureRuntime, JoinEnding, Launch, Bind, OpenStream
  <2>3. CASE StopSignal(p) \/ StopJoin(p)
    BY <2>3 DEF StopSignal, StopJoin, At
  <2>4. ~AcquireGate(p) /\ ~ReleaseGate(p)
    BY DEF AcquireGate, ReleaseGate, At
  <2>5. ~CheckBusy(p) /\ ~UseRuntime(p)
    BY DEF CheckBusy, UseRuntime
  <2> QED BY <1>4, <2>1, <2>2, <2>3, <2>4, <2>5 DEF RequestStep
<1>5. ASSUME NEW q \in Prompts, TurnStep(q)
      PROVE  pc'[p] = pc[p] \/ pc[p] \in InTurn \/ InstallTurn(p)
  <2>1. CASE q # p
    BY <1>5, <2>1, TurnFootprint
  <2>2. CASE q = p /\ ~InstallTurn(p)
    BY <1>5, <2>2
       DEF TurnStep, Dispatch, AcceptTurn, AbortExpires, BeginSettlement,
           CommitTurn, SignalTurnRuntime, DropTurnRuntime, FenceLostTransport,
           ClaimTurn, PublishTurnIdle, Unwind, At
  <2> QED BY <2>1, <2>2
<1>6. CASE Cancel \/ (\E i \in callbacks : Abort(i)) \/ BeginClose \/ CloseStep
  BY <1>1, <1>6
     DEF Cancel, Abort, BeginClose, CloseStep, CloseAbort, CloseStop,
         CloseJoinPump, CloseCommit, CloseFence, opVars
<1> QED
  BY <1>1, <1>2, <1>3, <1>4, <1>5, <1>6, PumpFootprint DEF Next

\* A turn that was announced is past the opening of its runtime: no stream opens
\* until it is over.
LEMMA OpensForFresh ==
  ASSUME Reads = {}, SessionInv, TurnFresh, [Next]_vars, NEW p \in Prompts,
         pc[p] \in InTurn, acceptedIn[p] # NotYet
  PROVE  StreamKeptOrFenced
<1> USE DEF SessionInv
<1>1. ASSUME NEW o \in Prompts \cup Reads, Opens(o) PROVE FALSE
  <2>1. o = p
    BY <1>1, NamesAssumption DEF Opens, CycleInv, TurnNamed, InTurn, Ops
  <2>2. pc[p] = "configuring" /\ ~closing
    BY <1>1, <2>1 DEF Opens, Openable
  <2> QED BY <2>2 DEF TurnFresh, Unopened, Reached
<1>2. ~OpensFirst
  BY DEF OpensFirst, AddressedOpen, Opened, InTurn
<1> QED BY <1>1, <1>2, StreamMoves

LEMMA TurnAcceptedStep ==
  ASSUME Reads = {}, SessionInv, TurnFresh, TurnAccepted, [Next]_vars
  PROVE  TurnAccepted'
<1> USE DEF SessionInv
<1> SUFFICES ASSUME NEW p \in Prompts, pc'[p] \in InTurn, acceptedIn'[p] # NotYet
             PROVE  stream' \in {acceptedIn'[p], NoGen}
  BY DEF TurnAccepted
<1>1. p \in Foregrounds /\ p \in Ops
  BY DEF Foregrounds, Ops
<1>2. CASE acceptedIn[p] = NotYet
  BY <1>1, <1>2, AcceptMoves, AcceptsTurn
<1>3. CASE acceptedIn[p] # NotYet
  <2>1. acceptedIn'[p] = acceptedIn[p]
    BY <1>1, <1>3, AcceptMoves
  <2>2. pc[p] \in InTurn
    BY <1>3, TurnInstalled DEF InstallTurn, TurnFresh, Reached
  <2>3. stream \in {acceptedIn[p], NoGen}
    BY <1>3, <2>2 DEF TurnAccepted
  <2> QED BY <1>3, <2>1, <2>2, <2>3, OpensForFresh DEF StreamKeptOrFenced
<1> QED BY <1>2, <1>3

\* What is known of the incarnations, in every behaviour in which the end of a runtime
\* waits for its turn as long as it takes.
AcceptedInv ==
  /\ EndingSeen /\ TurnServed /\ EndsBound /\ CycleAccepted /\ TurnHeld
  /\ FinishedOut /\ TurnFresh /\ TurnAwaits /\ TurnAccepted /\ TurnSubmitted

LEMMA AcceptedHolds ==
  ASSUME EarlyWork = FALSE, Reads = {}, "turn" \notin Expiring
  PROVE  Spec => []AcceptedInv
<1>1. Init => AcceptedInv
  <2> SUFFICES ASSUME Init PROVE AcceptedInv
    OBVIOUS
  <2>1. \A p \in Prompts : pc[p] = "idle"
    BY NamesAssumption DEF Init, Ops
  <2>2. \A g \in Gens : pump[g] \in {"none", "ready"} /\ held[g] = None
    BY DEF Init
  <2>3. /\ turn = None /\ cycle = None /\ \A p \in Prompts : ~finished[p]
        /\ \A f \in Foregrounds : acceptedIn[f] = NotYet
    BY DEF Init
  <2>4. None \notin Prompts
    BY NamesAssumption DEF Foregrounds
  <2>5. EndingSeen /\ TurnServed /\ EndsBound
    BY <2>2 DEF EndingSeen, TurnServed, EndsBound, EndsCycle
  <2>6. CycleAccepted
    BY <2>2, <2>3, CyclesApart DEF CycleAccepted, Working
  <2>7. TurnHeld /\ FinishedOut
    BY <2>3, <2>4 DEF TurnHeld, FinishedOut
  <2>8. TurnFresh
    BY <2>2, <2>3 DEF TurnFresh, Reached, Foregrounds
  <2>9. TurnAwaits /\ TurnAccepted /\ TurnSubmitted
    BY <2>1 DEF TurnAwaits, TurnAccepted, TurnSubmitted, InTurn, Submitted
  <2> QED BY <2>5, <2>6, <2>7, <2>8, <2>9 DEF AcceptedInv
<1>2. ASSUME SessionInv, SessionInv', AloneInv, AcceptedInv, [Next]_vars
      PROVE  AcceptedInv'
  BY <1>2, EndingSeenStep, TurnServedStep, EndsBoundStep, CycleAcceptedStep,
     TurnHeldStep, FinishedOutStep, TurnFreshStep, TurnAwaitsStep,
     TurnAcceptedStep, TurnSubmittedStep DEF AcceptedInv
<1> QED BY <1>1, <1>2, SessionHolds, AloneHolds, PTL DEF Spec

\* A foreground ends on the incarnation that announced it, whatever relaunch, fence
\* or shutdown came in between.  The assumptions are needed here too: a prompt that
\* the end of its runtime did not wait for is relaunched, and publishes the result
\* a frame of the old process brought on the incarnation of the new one.
THEOREM EndsWhereAccepted ==
  ASSUME EarlyWork = FALSE, Reads = {}, "turn" \notin Expiring
  PROVE  Spec => []TerminalWhereAccepted
<1>1. Init => TerminalWhereAccepted
  BY DEF Init, TerminalWhereAccepted
<1>2. ASSUME SessionInv, AcceptedInv, TerminalWhereAccepted, [Next]_vars
      PROVE  TerminalWhereAccepted'
  <2> USE <1>2 DEF SessionInv, TypeOK, StreamTypes
  <2> SUFFICES ASSUME NEW t \in terminals' PROVE t.inc = acceptedIn'[t.fg]
    BY DEF TerminalWhereAccepted
  <2>1. NotYet \notin Gens /\ NoGen \notin Gens
    BY BoundsAssumption DEF NotYet, NoGen, Gens
  <2>2. CASE t \in terminals
    <3>1. t.fg \in Foregrounds /\ t.inc \in Gens /\ t.inc = acceptedIn[t.fg]
      BY <2>2 DEF TerminalWhereAccepted
    <3> QED BY <2>1, <3>1, AcceptMoves
  <2>3. CASE t \notin terminals
    <3>1. stream # NoGen /\ t.inc = stream
      BY <2>3, NewTerminals
    <3>2. ASSUME NEW p \in Prompts, PublishTurnIdle(p), t.fg = p
          PROVE  t.fg \in Foregrounds /\ acceptedIn[t.fg] = stream
      <4>1. pc[p] = "publishing"
        BY <3>2 DEF PublishTurnIdle, At
      <4>2. acceptedIn[p] # NotYet
        BY <4>1 DEF AcceptedInv, TurnSubmitted, Submitted
      <4> QED
        BY <3>1, <3>2, <4>1, <4>2
           DEF AcceptedInv, TurnAccepted, InTurn, Foregrounds
    <3>3. ASSUME t.fg \in Cycles, CycleEnds(t.fg)
          PROVE  t.fg \in Foregrounds /\ acceptedIn[t.fg] = stream
      <4>1. Working(t.fg)
        BY <3>3
           DEF CycleEnds, PublishCycleIdle, EndForeground, PumpAt, Working,
               HoldsCycle, EndsCycle, Holders
      <4> QED BY <3>1, <3>3, <4>1 DEF AcceptedInv, CycleAccepted, Foregrounds
    <3>4. t.fg \in Foregrounds /\ acceptedIn[t.fg] = stream
      BY <2>3, <3>2, <3>3, NewTerminals
    <3> QED BY <2>1, <3>1, <3>4, AcceptMoves
  <2> QED BY <2>2, <2>3
<1> QED BY <1>1, <1>2, SessionHolds, AcceptedHolds, PTL DEF Spec

-----------------------------------------------------------------------------
(* What an open incarnation is owed of a turn.                             *)

\* The request of a prompt is the only one that moves it.
LEMMA PromptMoves ==
  ASSUME SessionInv, [Next]_vars, NEW p \in Prompts
  PROVE  \/ AcquireGate(p) \/ RequestStep(p) \/ TurnStep(p)
         \/ /\ pc'[p] = pc[p] /\ answer'[p] = answer[p]
            /\ terminal'[p] = terminal[p]
<1> USE CyclesApart
    DEF SessionInv, TypeOK, RequestTypes, ForegroundTypes, Foregrounds, Ops
<1>1. CASE UNCHANGED <<pc, answer, terminal>>
  BY <1>1
<1>2. CASE UNCHANGED vars
  BY <1>1, <1>2 DEF vars, opVars, fgVars
<1>3. CASE EstablishCommit \/ EstablishOpen
  BY <1>3, NamesAssumption DEF EstablishCommit, EstablishOpen, fgVars
<1>4. ASSUME NEW o \in Prompts \cup Reads, AcquireGate(o) \/ RequestStep(o), o # p
      PROVE  pc'[p] = pc[p] /\ answer'[p] = answer[p] /\ terminal'[p] = terminal[p]
  BY <1>4
     DEF AcquireGate, RequestStep, CheckBusy, EnsureRuntime, JoinEnding, Launch,
         Bind, OpenStream, StopSignal, StopJoin, UseRuntime, ReleaseGate, Fail,
         Leave, At, fgVars
<1>5. ASSUME NEW q \in Prompts, TurnStep(q), q # p
      PROVE  pc'[p] = pc[p] /\ answer'[p] = answer[p] /\ terminal'[p] = terminal[p]
  <2>1. pc'[p] = pc[p]
    BY <1>5, TurnFootprint
  <2>2. answer'[p] = answer[p]
    BY <1>5
       DEF TurnStep, InstallTurn, Dispatch, AcceptTurn, AbortExpires,
           BeginSettlement, CommitTurn, SignalTurnRuntime, DropTurnRuntime,
           FenceLostTransport, ClaimTurn, PublishTurnIdle, Unwind, Leave, opVars
  <2>3. terminal'[p] = terminal[p]
    BY <1>5
       DEF TurnStep, InstallTurn, Dispatch, AcceptTurn, AbortExpires,
           BeginSettlement, CommitTurn, SignalTurnRuntime, DropTurnRuntime,
           FenceLostTransport, ClaimTurn, PublishTurnIdle, Unwind, fgVars
  <2> QED BY <2>1, <2>2, <2>3
<1>6. CASE Cancel \/ (\E i \in callbacks : Abort(i)) \/ BeginClose \/ CloseStep
  BY <1>1, <1>6
     DEF Cancel, Abort, BeginClose, CloseStep, CloseAbort, CloseStop,
         CloseJoinPump, CloseCommit, CloseFence, opVars, fgVars
<1>7. ASSUME NEW g \in Gens, PumpStep(g) \/ ReadFails(g) \/ Emit(g) \/ Exit(g)
      PROVE  terminal'[p] = terminal[p]
  <2>1. CASE ClaimCycle(g)
    <3>1. held[g] \in Cycles
      BY <2>1 DEF ClaimCycle, PumpAt, SettlesCycle, CycleStages, Settlement
    <3> QED BY <2>1, <3>1 DEF ClaimCycle
  <2> QED
    BY <1>7, <2>1
       DEF PumpStep, ReadFails, Emit, Exit, PumpTake, OpenCycle, LoseCycle,
           Apply, FinishDelivery, CommitCycle, SignalCycleRuntime,
           DropCycleRuntime, PublishCycleIdle, ClearCycle, DrainRuntime,
           EndForeground, RetireRuntime, Release, RuntimeEnded, fgVars
<1> QED
  BY <1>1, <1>2, <1>3, <1>4, <1>5, <1>6, <1>7, PumpFootprint DEF Next

\* A run settles once.
LEMMA RunEnds ==
  ASSUME TypeOK, [Next]_vars, NEW p \in Prompts, ended[p] # "running"
  PROVE  ended'[p] = ended[p]
<1> USE DEF TypeOK, ForegroundTypes, Settle
<1>1. CASE UNCHANGED vars
  BY <1>1 DEF vars, fgVars
<1>2. CASE EstablishCommit \/ EstablishOpen
  BY <1>2 DEF EstablishCommit, EstablishOpen, fgVars
<1>3. ASSUME NEW o \in Prompts \cup Reads, AcquireGate(o) \/ RequestStep(o)
      PROVE  UNCHANGED ended
  BY <1>3
     DEF AcquireGate, RequestStep, CheckBusy, EnsureRuntime, JoinEnding, Launch,
         Bind, OpenStream, StopSignal, StopJoin, UseRuntime, ReleaseGate, fgVars
<1>4. ASSUME NEW q \in Prompts, TurnStep(q) PROVE ended'[p] = ended[p]
  BY <1>4
     DEF TurnStep, InstallTurn, Dispatch, AcceptTurn, AbortExpires,
         BeginSettlement, CommitTurn, SignalTurnRuntime, DropTurnRuntime,
         FenceLostTransport, ClaimTurn, PublishTurnIdle, Unwind, fgVars
<1>5. ASSUME NEW g \in Gens, PumpStep(g) \/ ReadFails(g) \/ Emit(g) \/ Exit(g)
      PROVE  ended'[p] = ended[p]
  <2>1. CASE Apply(g) \/ EndForeground(g)
    BY <2>1 DEF Apply, EndForeground
  <2> QED
    BY <1>5, <2>1
       DEF PumpStep, ReadFails, Emit, Exit, PumpTake, OpenCycle, LoseCycle,
           FinishDelivery, CommitCycle, SignalCycleRuntime, DropCycleRuntime,
           ClaimCycle, PublishCycleIdle, ClearCycle, DrainRuntime,
           RetireRuntime, Release, RuntimeEnded, fgVars
<1>6. CASE Cancel \/ (\E i \in callbacks : Abort(i)) \/ BeginClose \/ CloseStep
  BY <1>6
     DEF Cancel, Abort, BeginClose, CloseStep, CloseAbort, CloseStop,
         CloseJoinPump, CloseCommit, CloseFence, fgVars
<1> QED BY <1>1, <1>2, <1>3, <1>4, <1>5, <1>6 DEF Next

\* A turn that is settled has a run that ended, and a verdict an announcement.
Settled == {"settling", "signalling", "dropping", "claiming", "claimFailed",
            "publishing"}

TurnJudged ==
  \A p \in Prompts :
    /\ pc[p] \in Settled \/ terminal[p] => ended[p] # "running"
    /\ terminal[p] => acceptedIn[p] # NotYet

LEMMA TurnJudgedStep ==
  ASSUME SessionInv, TurnSubmitted, TurnJudged, [Next]_vars
  PROVE  TurnJudged'
<1> USE NamesAssumption
    DEF SessionInv, TypeOK, RequestTypes, ForegroundTypes, Settled, Foregrounds,
        Ops
<1> SUFFICES ASSUME NEW p \in Prompts
             PROVE  /\ pc'[p] \in Settled \/ terminal'[p] => ended'[p] # "running"
                    /\ terminal'[p] => acceptedIn'[p] # NotYet
  BY DEF TurnJudged
<1>1. CASE (pc'[p] \in Settled => pc[p] \in Settled) /\ terminal'[p] = terminal[p]
  BY <1>1, RunEnds, AcceptMoves DEF TurnJudged
<1>2. CASE AcquireGate(p) \/ RequestStep(p)
  <2>1. terminal'[p] = terminal[p]
    BY <1>2
       DEF AcquireGate, RequestStep, CheckBusy, EnsureRuntime, JoinEnding,
           Launch, Bind, OpenStream, StopSignal, StopJoin, UseRuntime,
           ReleaseGate, fgVars
  <2>2. pc'[p] \notin Settled
    BY <1>2
       DEF AcquireGate, RequestStep, CheckBusy, EnsureRuntime, JoinEnding,
           Launch, Bind, OpenStream, StopSignal, StopJoin, UseRuntime,
           ReleaseGate, Fail, Leave, At, Served
  <2> QED BY <1>1, <2>1, <2>2
<1>3. CASE BeginSettlement(p)
  <2>1. ended[p] # "running" /\ terminal'[p] = terminal[p]
    BY <1>3 DEF BeginSettlement
  <2> QED BY <2>1, RunEnds, AcceptMoves DEF TurnJudged
<1>4. CASE ClaimTurn(p)
  <2>1. ended[p] # "running" /\ acceptedIn[p] # NotYet
    BY <1>4 DEF ClaimTurn, TurnJudged, TurnSubmitted, Submitted
  <2> QED BY <2>1, RunEnds, AcceptMoves
<1>5. CASE TurnStep(p) /\ ~BeginSettlement(p) /\ ~ClaimTurn(p)
  <2>1. terminal'[p] = terminal[p]
    BY <1>5
       DEF TurnStep, InstallTurn, Dispatch, AcceptTurn, AbortExpires, CommitTurn,
           SignalTurnRuntime, DropTurnRuntime, FenceLostTransport,
           PublishTurnIdle, Unwind, fgVars
  <2>2. pc'[p] \in Settled => pc[p] \in Settled
    BY <1>5
       DEF TurnStep, InstallTurn, Dispatch, AcceptTurn, AbortExpires, CommitTurn,
           SignalTurnRuntime, DropTurnRuntime, FenceLostTransport,
           PublishTurnIdle, Unwind, Leave, At, opVars
  <2> QED BY <1>1, <2>1, <2>2
<1> QED BY <1>1, <1>2, <1>3, <1>4, <1>5, PromptMoves

\* The session has the runtime a prompt works with, or none.
BoundIsRuntime ==
  \A p \in Prompts : pc[p] \in OnBound => runtime \in {bound[p], NoGen}

LEMMA BoundIsRuntimeStep ==
  ASSUME SessionInv, BoundIsRuntime, [Next]_vars
  PROVE  BoundIsRuntime'
<1> USE NamesAssumption DEF SessionInv, TypeOK, RequestTypes, Ops
<1> SUFFICES ASSUME NEW p \in Prompts, pc'[p] \in OnBound
             PROVE  runtime' \in {bound'[p], NoGen}
  BY DEF BoundIsRuntime
<1>1. CASE runtime' \in {runtime, NoGen}
  BY <1>1, BoundMoves DEF BoundIsRuntime, ProcessInv, LaunchesAlone
<1>2. CASE runtime' \notin {runtime, NoGen}
  <2>1. PICK o \in Prompts \cup Reads : Bind(o)
    BY <1>2, RuntimeBinds
  <2>2. pc[o] = "binding" /\ bound' = bound /\ \A q \in Ops \ {o} : pc'[q] = pc[q]
    BY <2>1 DEF Bind
  <2>3. o = p
    BY <2>2 DEF GateExclusive, Holding, OnBound, OnRuntime
  <2>4. runtime' = bound[p]
    BY <1>2, <2>1, <2>3 DEF Bind
  <2> QED BY <2>2, <2>4
<1> QED BY <1>1, <1>2

\* Where the incarnation that announced a turn must still be open for its idle.
Owing == {"ensuring", "joining", "launching", "binding", "configuring", "stopping",
          "stopJoin", "dispatching", "accepting", "running", "settling"}

Owed(p) ==
  \/ pc[p] \in Owing
  \/ pc[p] = "claiming" /\ ended[p] = "settled"
  \/ pc[p] = "publishing" /\ ended[p] = "settled" /\ answer[p] # "failed"

TurnOpen ==
  \A p \in Prompts : ~closing /\ acceptedIn[p] \in Gens /\ Owed(p) =>
    stream = acceptedIn[p]

\* And the incarnation has it once the verdict is out.
Told == {"unwinding", "leaving", "answered"}

TurnTold ==
  \A p \in Prompts :
    /\ pc[p] \in Told /\ terminal[p] /\ ended[p] = "settled" /\ ~closing
    /\ acceptedIn[p] \in Gens /\ answer[p] # "failed"
    => \E t \in terminals : t.fg = p /\ t.outcome = answer[p]

\* A turn is owed its idle from its installation on.
LEMMA OwedMoves ==
  ASSUME SessionInv, VerdictInv, TurnJudged, [Next]_vars, NEW p \in Prompts,
         pc[p] \in InTurn, Owed(p)'
  PROVE  Owed(p)
<1> USE NamesAssumption
    DEF SessionInv, TypeOK, RequestTypes, ForegroundTypes, Ops
<1> SUFFICES ASSUME pc[p] \notin Owing PROVE Owed(p)
  BY DEF Owed
<1>1. pc[p] \in {"signalling", "dropping", "claiming", "claimFailed", "publishing",
                 "unwinding"}
  BY DEF InTurn, Owing
<1>2. CASE pc'[p] = pc[p] /\ answer'[p] = answer[p]
  <2>1. pc[p] \in {"claiming", "publishing"} /\ ended'[p] = "settled"
    BY <1>1, <1>2 DEF Owed, Owing
  <2>2. ended[p] = "settled"
    BY <2>1, RunEnds DEF TurnJudged, Settled
  <2> QED BY <1>2, <2>1, <2>2 DEF Owed
<1>3. ~AcquireGate(p) /\ ~RequestStep(p)
  BY <1>1
     DEF AcquireGate, RequestStep, CheckBusy, EnsureRuntime, JoinEnding, Launch,
         Bind, OpenStream, StopSignal, StopJoin, UseRuntime, ReleaseGate, At
<1>4. CASE ClaimTurn(p)
  <2>1. pc[p] = "claimFailed" => ended[p] = "settled" /\ answer[p] = "failed"
    BY DEF VerdictInv, Verdict, Failing, NotStored
  <2>2. ended'[p] = ended[p] /\ pc'[p] = "publishing"
    BY <1>4 DEF ClaimTurn
  <2>3. pc[p] = "claimFailed" => answer'[p] = "failed"
    BY <1>4, <2>1 DEF ClaimTurn
  <2> QED BY <1>4, <2>2, <2>3 DEF Owed, Owing, ClaimTurn
<1>5. CASE TurnStep(p) /\ ~ClaimTurn(p)
  <2>1. pc'[p] \in {"dropping", "claimFailed", "unwinding", "leaving"}
    BY <1>1, <1>5
       DEF TurnStep, InstallTurn, Dispatch, AcceptTurn, AbortExpires,
           BeginSettlement, CommitTurn, SignalTurnRuntime, DropTurnRuntime,
           FenceLostTransport, PublishTurnIdle, Unwind, At
  <2> QED BY <2>1 DEF Owed, Owing
<1> QED BY <1>2, <1>3, <1>4, <1>5, PromptMoves

\* Who fences the stream of a session that is not closing.
LEMMA Fences ==
  ASSUME SessionInv, [Next]_vars, ~closing, stream # NoGen, stream' = NoGen
  PROVE  \/ \E q \in Prompts :
              /\ pc[q] = "settling"
              /\ pc'[q] = "signalling" \/ FenceLostTransport(q)
         \/ \E g \in Gens : CommitCycle(g)
         \/ \E g \in Gens : RetireRuntime(g) /\ runtime = g
<1> USE DEF SessionInv
<1>1. CASE UNCHANGED vars
  BY <1>1 DEF vars, pubVars
<1>2. CASE EstablishCommit \/ EstablishOpen
  BY <1>2 DEF EstablishCommit, EstablishOpen, NoGen
<1>3. ASSUME NEW o \in Prompts \cup Reads, AcquireGate(o) \/ RequestStep(o)
      PROVE  FALSE
  <2>1. o \in Ops
    BY DEF Ops
  <2>2. pc[o] = "configuring" /\ stream' = bound[o]
    BY <1>3, <2>1, RequestStream
  <2>3. bound[o] \in Gens
    BY <2>1, <2>2 DEF ProcessInv, BoundToOne, OnRuntime
  <2> QED BY <2>2, <2>3 DEF NoGen, Gens
<1>4. ASSUME NEW q \in Prompts, TurnStep(q)
      PROVE  /\ pc[q] = "settling"
             /\ pc'[q] = "signalling" \/ FenceLostTransport(q)
  <2>1. CASE CommitTurn(q)
    BY <2>1 DEF CommitTurn, TypeOK, RequestTypes, Ops
  <2>2. CASE FenceLostTransport(q)
    BY <2>2 DEF FenceLostTransport, At
  <2> QED
    BY <1>4, <2>1, <2>2
       DEF TurnStep, InstallTurn, Dispatch, AcceptTurn, AbortExpires,
           BeginSettlement, SignalTurnRuntime, DropTurnRuntime, ClaimTurn,
           PublishTurnIdle, Unwind, pubVars
<1>5. ASSUME NEW g \in Gens, PumpStep(g) \/ ReadFails(g) \/ Emit(g) \/ Exit(g)
      PROVE  CommitCycle(g) \/ (RetireRuntime(g) /\ runtime = g)
  <2>1. CASE RetireRuntime(g)
    BY <2>1 DEF RetireRuntime, StreamAfterEnd
  <2> QED
    BY <1>5, <2>1
       DEF PumpStep, ReadFails, Emit, Exit, PumpTake, OpenCycle, LoseCycle,
           Apply, FinishDelivery, SignalCycleRuntime, DropCycleRuntime,
           ClaimCycle, PublishCycleIdle, ClearCycle, DrainRuntime,
           EndForeground, Release, RuntimeEnded, pubVars
<1>6. CASE Cancel \/ (\E i \in callbacks : Abort(i)) \/ BeginClose \/ CloseStep
  <2>1. ~CloseFence
    BY DEF CloseFence, AddressedOpen
  <2> QED
    BY <1>6, <2>1
       DEF Cancel, Abort, BeginClose, CloseStep, CloseAbort, CloseStop,
           CloseJoinPump, CloseCommit, pubVars
<1> QED BY <1>1, <1>2, <1>3, <1>4, <1>5, <1>6 DEF Next

\* The end of a runtime waits for the turn that came to it, or was on it.
LEMMA EndWaitsForTurn ==
  ASSUME "turn" \notin Expiring, SessionInv, AcceptedInv, BoundIsRuntime,
         NEW p \in Prompts, pc[p] \in Owing \cup {"claiming", "publishing"},
         acceptedIn[p] # NotYet, ~closing, NEW g \in Gens, runtime = g,
         RetireRuntime(g)
  PROVE  FALSE
<1> USE DEF AcceptedInv
<1>1. pump[g] = "endWait" /\ g # NoGen
  BY DEF RetireRuntime, PumpAt, NoGen, Gens
<1>2. CASE pc[p] \in OnBound
  <2>1. bound[p] = g
    BY <1>1, <1>2 DEF BoundIsRuntime
  <2> QED
    BY <1>1, <1>2, <2>1
       DEF TurnServed, RetireRuntime, TurnJoined, Expires, FinishedOut, OnBound,
           OnRuntime
<1>3. CASE pc[p] \in {"ensuring", "joining"}
  <2>1. held[g] = p
    BY <1>1, <1>3 DEF TurnAwaits, Reached
  <2> QED
    BY <1>3, <2>1 DEF RetireRuntime, TurnJoined, Expires, FinishedOut
<1>4. pc[p] # "launching"
  BY DEF TurnFresh, Reached
<1> QED BY <1>2, <1>3, <1>4 DEF Owing, OnBound, OnRuntime

LEMMA TurnOpenStep ==
  ASSUME Reads = {}, "turn" \notin Expiring, SessionInv, VerdictInv, AloneInv,
         AcceptedInv, TurnJudged, BoundIsRuntime, TurnOpen, [Next]_vars
  PROVE  TurnOpen'
<1> USE DEF SessionInv
<1> SUFFICES ASSUME NEW p \in Prompts, ~closing', acceptedIn'[p] \in Gens, Owed(p)'
             PROVE  stream' = acceptedIn'[p]
  BY DEF TurnOpen
<1>1. ~closing /\ p \in Foregrounds /\ NotYet \notin Gens /\ NoGen \notin Gens
  BY ClosingStays, BoundsAssumption DEF Foregrounds, NotYet, NoGen, Gens
<1>2. CASE acceptedIn[p] = NotYet
  BY <1>1, <1>2, AcceptMoves, AcceptsTurn
<1>3. CASE acceptedIn[p] # NotYet
  <2>1. acceptedIn'[p] = acceptedIn[p]
    BY <1>1, <1>3, AcceptMoves
  <2>2. pc[p] \in InTurn
    <3>1. pc'[p] \in InTurn
      BY DEF Owed, Owing, InTurn
    <3> QED
      BY <1>3, <3>1, TurnInstalled DEF InstallTurn, AcceptedInv, TurnFresh, Reached
  <2>3. Owed(p)
    BY <2>2, OwedMoves
  <2>4. stream = acceptedIn[p] /\ stream \in Gens
    BY <1>1, <2>1, <2>3 DEF TurnOpen
  <2>5. ASSUME NEW q \in Prompts, pc[q] = "settling",
               pc'[q] = "signalling" \/ FenceLostTransport(q)
        PROVE  FALSE
    <3>1. q = p
      BY <2>2, <2>5 DEF GateExclusive, Holding, Ops, InTurn
    <3>2. CASE pc'[p] = "signalling"
      BY <3>2 DEF Owed, Owing
    <3>3. CASE FenceLostTransport(p)
      <4>1. pc'[p] = "claiming" /\ ended'[p] = "transport"
        BY <3>3 DEF FenceLostTransport, At, fgVars, TypeOK, RequestTypes, Ops
      <4> QED BY <4>1 DEF Owed, Owing
    <3> QED BY <2>5, <3>1, <3>2, <3>3
  <2>6. ASSUME NEW g \in Gens, CommitCycle(g) PROVE FALSE
    <3>1. HoldsCycle(g)
      BY <2>6
         DEF CommitCycle, HoldsCycle, Holders, SettlesCycle, CycleStages
    <3>2. turn = p /\ p # None
      BY <2>2, NamesAssumption DEF CycleInv, TurnNamed, Ops
    <3>3. cycle = None /\ closePc # "closed"
      BY <1>1, <3>2 DEF OneForeground, AddressedOpen
    <3> QED
      BY <3>1, <3>3, CyclesApart DEF AloneInv, CycleAlone, HoldsCycle
  <2>7. ASSUME NEW g \in Gens, RetireRuntime(g), runtime = g PROVE FALSE
    BY <1>1, <1>3, <2>3, <2>7, EndWaitsForTurn DEF Owed
  <2>8. stream' # NoGen
    BY <1>1, <2>4, <2>5, <2>6, <2>7, Fences
  <2>9. StreamKeptOrFenced
    BY <1>3, <2>2, OpensForFresh DEF AcceptedInv
  <2> QED BY <2>1, <2>4, <2>8, <2>9 DEF StreamKeptOrFenced
<1> QED BY <1>2, <1>3

LEMMA TurnToldStep ==
  ASSUME SessionInv, VerdictInv, TurnJudged, TurnOpen, TurnTold, [Next]_vars
  PROVE  TurnTold'
<1> USE NamesAssumption
    DEF SessionInv, TypeOK, RequestTypes, ForegroundTypes, Ops
<1> SUFFICES ASSUME NEW p \in Prompts,
                    /\ pc'[p] \in Told /\ terminal'[p] /\ ended'[p] = "settled"
                    /\ ~closing'
                    /\ acceptedIn'[p] \in Gens /\ answer'[p] # "failed"
             PROVE  \E t \in terminals' : t.fg = p /\ t.outcome = answer'[p]
  BY DEF TurnTold
<1>1. ~closing /\ p \in Foregrounds /\ NoGen \notin Gens
  BY ClosingStays, BoundsAssumption DEF Foregrounds, NoGen, Gens
<1>2. terminal[p]
  <2>1. ~ClaimTurn(p)
    BY DEF ClaimTurn, Told
  <2>2. CASE AcquireGate(p) \/ RequestStep(p)
    BY <2>2
       DEF AcquireGate, RequestStep, CheckBusy, EnsureRuntime, JoinEnding,
           Launch, Bind, OpenStream, StopSignal, StopJoin, UseRuntime,
           ReleaseGate, fgVars
  <2>3. CASE TurnStep(p)
    BY <2>1, <2>3
       DEF TurnStep, InstallTurn, Dispatch, AcceptTurn, AbortExpires,
           BeginSettlement, CommitTurn, SignalTurnRuntime, DropTurnRuntime,
           FenceLostTransport, PublishTurnIdle, Unwind, fgVars
  <2> QED BY <2>2, <2>3, PromptMoves
<1>3. ended[p] = "settled" /\ acceptedIn[p] \in Gens
  BY <1>1, <1>2, RunEnds, AcceptMoves DEF TurnJudged
<1>4. pc[p] \in {"publishing"} \cup Told
  BY <1>2 DEF VerdictInv, Verdict, Decided, Told
<1>5. CASE pc[p] \in Told /\ answer'[p] = answer[p]
  BY <1>1, <1>2, <1>3, <1>5, TerminalsGrow DEF TurnTold
<1>6. CASE PublishTurnIdle(p)
  <2>1. answer'[p] = answer[p] /\ pc[p] = "publishing"
    BY <1>6 DEF PublishTurnIdle, At
  <2>2. stream \in Gens
    BY <1>1, <1>3, <2>1 DEF TurnOpen, Owed
  <2>3. stream # NoGen
    BY <1>1, <2>2
  <2> DEFINE t == [fg |-> p, inc |-> stream, outcome |-> answer[p],
                   durable |-> p \notin dirty]
  <2>4. PublishIdle(p, answer[p])
    BY <1>6 DEF PublishTurnIdle
  <2>5. terminals' = terminals \cup {t}
    BY <2>3, <2>4 DEF PublishIdle
  <2>6. t.fg = p /\ t.outcome = answer[p]
    OBVIOUS
  <2> HIDE DEF t
  <2>7. t \in terminals'
    BY <2>5
  <2> QED BY <2>1, <2>6, <2>7
<1>7. CASE AcquireGate(p) \/ RequestStep(p)
  BY <1>4, <1>5, <1>7
     DEF AcquireGate, RequestStep, CheckBusy, EnsureRuntime, JoinEnding, Launch,
         Bind, OpenStream, StopSignal, StopJoin, UseRuntime, ReleaseGate, At,
         Told
<1>8. CASE TurnStep(p) /\ ~PublishTurnIdle(p)
  BY <1>4, <1>5, <1>8
     DEF TurnStep, InstallTurn, Dispatch, AcceptTurn, AbortExpires,
         BeginSettlement, CommitTurn, SignalTurnRuntime, DropTurnRuntime,
         FenceLostTransport, ClaimTurn, Unwind, At, Told
<1>9. CASE pc'[p] = pc[p] /\ answer'[p] = answer[p]
  BY <1>5, <1>9
<1> QED BY <1>6, <1>7, <1>8, <1>9, PromptMoves

\* What is known of the turns the open incarnation announced.
OwedInv == TurnJudged /\ BoundIsRuntime /\ TurnOpen /\ TurnTold

LEMMA OwedHolds ==
  ASSUME EarlyWork = FALSE, Reads = {}, "turn" \notin Expiring
  PROVE  Spec => []OwedInv
<1>1. Init => OwedInv
  <2> SUFFICES ASSUME Init PROVE OwedInv
    OBVIOUS
  <2>1. \A p \in Prompts : pc[p] = "idle" /\ ~terminal[p]
    BY NamesAssumption DEF Init, Ops, Foregrounds
  <2> QED
    BY <2>1 DEF OwedInv, TurnJudged, BoundIsRuntime, TurnOpen, TurnTold, Settled,
                OnBound, OnRuntime, Owed, Owing, Told
<1>2. ASSUME SessionInv, VerdictInv, AloneInv, AcceptedInv, OwedInv, [Next]_vars
      PROVE  OwedInv'
  BY <1>2, TurnJudgedStep, BoundIsRuntimeStep, TurnOpenStep, TurnToldStep
     DEF OwedInv, AcceptedInv
<1> QED
  BY <1>1, <1>2, SessionHolds, VerdictsHold, AloneHolds, AcceptedHolds, PTL
     DEF Spec

\* A prompt that is answered with the verdict of a settled run has its idle, with
\* that verdict, on the incarnation that announced it, unless the session closes or
\* the store refused the rows.
THEOREM TurnsAreOwed ==
  ASSUME EarlyWork = FALSE, Reads = {}, "turn" \notin Expiring
  PROVE  Spec => []TurnTerminalOwed
<1>1. OwedInv => TurnTerminalOwed
  BY DEF OwedInv, TurnTold, TurnTerminalOwed, Told
<1> QED BY <1>1, OwedHolds, PTL

-----------------------------------------------------------------------------
(* What a closed session leaves running.                                   *)

\* A request is moved by its own goroutine.
LEMMA OpMoves ==
  ASSUME SessionInv, [Next]_vars, NEW o \in Ops
  PROVE  \/ o \in Prompts \cup Reads /\ (AcquireGate(o) \/ RequestStep(o))
         \/ o \in Prompts /\ TurnStep(o)
         \/ o = Establish /\ (EstablishCommit \/ EstablishOpen)
         \/ pc'[o] = pc[o] /\ bound'[o] = bound[o]
<1> USE DEF SessionInv, TypeOK, RequestTypes, Ops
<1>1. CASE UNCHANGED <<pc, bound>>
  BY <1>1
<1>2. CASE UNCHANGED vars
  BY <1>1, <1>2 DEF vars, opVars
<1>3. CASE EstablishCommit \/ EstablishOpen
  BY <1>3 DEF EstablishCommit, EstablishOpen
<1>4. ASSUME NEW q \in Prompts \cup Reads, AcquireGate(q) \/ RequestStep(q), q # o
      PROVE  pc'[o] = pc[o] /\ bound'[o] = bound[o]
  BY <1>4
     DEF AcquireGate, RequestStep, CheckBusy, EnsureRuntime, JoinEnding, Launch,
         Bind, OpenStream, StopSignal, StopJoin, UseRuntime, ReleaseGate, Fail,
         Leave, At
<1>5. ASSUME NEW q \in Prompts, TurnStep(q), q # o
      PROVE  pc'[o] = pc[o] /\ bound'[o] = bound[o]
  <2>1. bound' = bound
    BY <1>5
       DEF TurnStep, InstallTurn, Dispatch, AcceptTurn, AbortExpires,
           BeginSettlement, CommitTurn, SignalTurnRuntime, DropTurnRuntime,
           FenceLostTransport, ClaimTurn, PublishTurnIdle, Unwind, opVars
  <2> QED BY <1>5, <2>1, TurnFootprint
<1>6. CASE Cancel \/ (\E i \in callbacks : Abort(i)) \/ BeginClose \/ CloseStep
  BY <1>1, <1>6
     DEF Cancel, Abort, BeginClose, CloseStep, CloseAbort, CloseStop,
         CloseJoinPump, CloseCommit, CloseFence, opVars
<1> QED
  BY <1>1, <1>2, <1>3, <1>4, <1>5, <1>6, PumpFootprint DEF Next

\* A process starts in a launch.
LEMMA Launched ==
  ASSUME SessionInv, [Next]_vars, NEW g \in Gens, proc[g] # "running",
         proc'[g] = "running"
  PROVE  \E o \in Ops : /\ pc[o] = "launching" /\ pc'[o] = "binding"
                        /\ g = gens + 1 /\ bound'[o] = g /\ UNCHANGED runtime
<1> USE DEF SessionInv, TypeOK, RequestTypes, RuntimeTypes, Signal
<1>1. CASE UNCHANGED vars
  BY <1>1 DEF vars, nativeVars
<1>2. CASE EstablishCommit \/ EstablishOpen
  BY <1>2 DEF EstablishCommit, EstablishOpen, nativeVars
<1>3. ASSUME NEW o \in Prompts \cup Reads, AcquireGate(o) \/ RequestStep(o)
      PROVE  /\ pc[o] = "launching" /\ pc'[o] = "binding"
             /\ g = gens + 1 /\ bound'[o] = g /\ UNCHANGED runtime /\ o \in Ops
  <2>1. o \in Ops
    BY DEF Ops
  <2>2. Launch(o)
    BY <1>3
       DEF AcquireGate, RequestStep, CheckBusy, EnsureRuntime, JoinEnding, Bind,
           OpenStream, StopSignal, StopJoin, UseRuntime, ReleaseGate, nativeVars
  <2> QED BY <2>1, <2>2 DEF Launch
<1>4. ASSUME NEW p \in Prompts, TurnStep(p) PROVE FALSE
  BY <1>4
     DEF TurnStep, InstallTurn, Dispatch, AcceptTurn, AbortExpires,
         BeginSettlement, CommitTurn, SignalTurnRuntime, DropTurnRuntime,
         FenceLostTransport, ClaimTurn, PublishTurnIdle, Unwind, nativeVars
<1>5. ASSUME NEW h \in Gens, PumpStep(h) \/ ReadFails(h) \/ Emit(h) \/ Exit(h)
      PROVE  FALSE
  <2>1. CASE Emit(h) \/ Exit(h)
    BY <2>1 DEF Emit, Exit
  <2> QED
    BY <1>5, <2>1
       DEF PumpStep, ReadFails, PumpTake, OpenCycle, LoseCycle, Apply,
           FinishDelivery, CommitCycle, SignalCycleRuntime, DropCycleRuntime,
           ClaimCycle, PublishCycleIdle, ClearCycle, DrainRuntime,
           EndForeground, RetireRuntime, Release, RuntimeEnded, nativeVars
<1>6. CASE Cancel \/ (\E i \in callbacks : Abort(i)) \/ BeginClose \/ CloseStep
  BY <1>6
     DEF Cancel, Abort, BeginClose, CloseStep, CloseAbort, CloseStop,
         CloseJoinPump, CloseCommit, CloseFence, nativeVars
<1> QED BY <1>1, <1>2, <1>3, <1>4, <1>5, <1>6 DEF Next

\* What signalRuntime returned for has exited: at the joins and the unbinding that
\* follow it.
Signalled ==
  /\ \A o \in Ops : pc[o] \in {"stopJoin", "dropping"} => proc[bound[o]] # "running"
  /\ \A g \in Gens : pump[g] = "dropping" => proc[g] # "running"
  /\ closePc = "pump" /\ runtime = closeRt => proc[closeRt] # "running"

LEMMA SignalledStep ==
  ASSUME "exit" \notin Expiring, SessionInv, Signalled, [Next]_vars
  PROVE  Signalled'
<1> USE DEF SessionInv, TypeOK, RequestTypes, RuntimeTypes, CloseTypes, Signal
<1>1. ASSUME NEW o \in Ops, pc'[o] \in {"stopJoin", "dropping"}
      PROVE  proc'[bound'[o]] # "running"
  <2>1. bound'[o] = bound[o] /\ bound[o] \in Gens /\ o \in Holding
        /\ pc[o] # "launching"
        /\ (pc[o] \in {"stopJoin", "dropping"} \/ proc'[bound[o]] = "exited")
    <3>1. CASE o \in Prompts \cup Reads /\ (AcquireGate(o) \/ RequestStep(o))
      <4>1. StopSignal(o)
        BY <1>1, <3>1
           DEF AcquireGate, RequestStep, CheckBusy, EnsureRuntime, JoinEnding,
               Launch, Bind, OpenStream, StopJoin, UseRuntime, ReleaseGate,
               Fail, Leave, At, Served
      <4>2. pc[o] = "stopping" /\ bound' = bound
        BY <4>1 DEF StopSignal, At
      <4>3. bound[o] \in Gens
        BY <4>2 DEF ProcessInv, BoundToOne, OnRuntime
      <4> QED BY <4>1, <4>2, <4>3 DEF StopSignal, Holding
    <3>2. CASE o \in Prompts /\ TurnStep(o)
      <4>1. SignalTurnRuntime(o)
        BY <1>1, <3>2
           DEF TurnStep, InstallTurn, Dispatch, AcceptTurn, AbortExpires,
               BeginSettlement, CommitTurn, DropTurnRuntime,
               FenceLostTransport, ClaimTurn, PublishTurnIdle, Unwind, Leave,
               At, opVars
      <4>2. pc[o] = "signalling" /\ bound' = bound
        BY <4>1 DEF SignalTurnRuntime, At
      <4>3. bound[o] \in Gens
        BY <4>2 DEF ProcessInv, BoundToOne, OnRuntime
      <4> QED BY <4>1, <4>2, <4>3 DEF SignalTurnRuntime, Holding
    <3>3. ~(o = Establish /\ (EstablishCommit \/ EstablishOpen))
      BY <1>1 DEF EstablishCommit, EstablishOpen
    <3>4. CASE pc'[o] = pc[o] /\ bound'[o] = bound[o]
      BY <1>1, <3>4 DEF ProcessInv, BoundToOne, OnRuntime, Holding
    <3> QED BY <3>1, <3>2, <3>3, <3>4, OpMoves
  <2>2. ASSUME proc[bound[o]] # "running", proc'[bound[o]] = "running"
        PROVE  FALSE
    <3>1. PICK q \in Ops : pc[q] = "launching"
      BY <2>1, <2>2, Launched
    <3> QED BY <2>1, <3>1 DEF GateExclusive, Holding
  <2> QED BY <2>1, <2>2 DEF Signalled
<1>2. ASSUME NEW g \in Gens, pump'[g] = "dropping"
      PROVE  proc'[g] # "running"
  <2>1. CASE pump[g] = "dropping"
    BY <2>1, Launched DEF Signalled, ProcessInv, GoneIsUnbound, Gens
  <2>2. CASE SignalCycleRuntime(g)
    BY <2>2 DEF SignalCycleRuntime
  <2>3. CASE OffPump
    BY <1>2, <2>1, <2>3 DEF OffPump
  <2>4. CASE \E h \in Gens \ {g} : PumpStep(h) \/ ReadFails(h)
    BY <1>2, <2>1, <2>4, PumpMoves
  <2>5. CASE (PumpStep(g) \/ ReadFails(g)) /\ ~SignalCycleRuntime(g)
    BY <1>2, <2>5
       DEF PumpStep, ReadFails, PumpTake, OpenCycle, LoseCycle, Apply,
           FinishDelivery, CommitCycle, DropCycleRuntime, ClaimCycle,
           PublishCycleIdle, ClearCycle, DrainRuntime, EndForeground,
           RetireRuntime, Release, RuntimeEnded, Routed, PumpAt
  <2> QED BY <2>1, <2>2, <2>3, <2>4, <2>5, OffPumpMoves
<1>3. ASSUME closePc' = "pump", runtime' = closeRt'
      PROVE  proc'[closeRt'] # "running"
  <2>1. CASE CloseStop
    BY <1>3, <2>1 DEF CloseStop, NoGen
  <2>2. CASE closePc = "pump" /\ UNCHANGED closeVars
    <3>1. closing /\ closeRt' = closeRt /\ closeRt \in Gens
      BY <2>2 DEF AddressedOpen, closeVars, ProcessInv, BoundToOne
    <3>2. runtime = closeRt
      BY <1>3, <3>1, RuntimeMoves DEF NoGen, Gens
    <3>3. proc[closeRt] # "running"
      BY <2>2, <3>2 DEF Signalled
    <3>4. ASSUME proc'[closeRt] = "running" PROVE FALSE
      <4>1. PICK q \in Ops : pc[q] = "launching"
        BY <3>1, <3>3, <3>4, Launched
      <4> QED BY <3>1, <3>2, <4>1 DEF ProcessInv, LaunchesAlone, NoGen, Gens
    <3> QED BY <3>1, <3>4
  <2>3. ~BeginClose /\ ~CloseAbort /\ ~CloseJoinPump /\ ~CloseCommit /\ ~CloseFence
    BY <1>3
       DEF BeginClose, CloseAbort, CloseJoinPump, CloseCommit, CloseFence,
           CloseAt
  <2>4. UNCHANGED closeVars => closePc = "pump"
    BY <1>3 DEF closeVars
  <2> QED BY <2>1, <2>2, <2>3, <2>4, LadderMoves DEF CloseStep
<1> QED BY <1>1, <1>2, <1>3 DEF Signalled

\* The steps of a prompt from its admission to the launch it may need.
Waiting == {"ensuring", "joining", "launching"}

\* Where it works with its turn installed.
AtWork == Waiting \cup OnBound

LEMMA WaitMoves ==
  ASSUME SessionInv, [Next]_vars, NEW p \in Prompts, pc'[p] \in Waiting
  PROVE  \/ pc'[p] = pc[p] /\ bound'[p] = bound[p]
         \/ pc[p] = "gated" /\ pc'[p] = "ensuring"
         \/ /\ pc[p] = "ensuring" /\ bound'[p] = runtime
            /\ pc'[p] = "launching" => runtime = NoGen
         \/ pc[p] = "joining" /\ done[bound[p]]
<1> USE NamesAssumption DEF SessionInv, TypeOK, RequestTypes, Waiting, Ops
<1>1. CASE AcquireGate(p) \/ RequestStep(p)
  <2>1. CASE EnsureRuntime(p)
    BY <2>1 DEF EnsureRuntime, Fail, Leave, Served
  <2>2. CASE JoinEnding(p)
    BY <2>2 DEF JoinEnding, Fail, Leave
  <2>3. ~EnsureRuntime(p) /\ ~JoinEnding(p) => FALSE
    BY <1>1
       DEF AcquireGate, RequestStep, CheckBusy, Launch, Bind, OpenStream,
           StopSignal, StopJoin, UseRuntime, ReleaseGate, Fail, Leave, At, Served
  <2> QED BY <2>1, <2>2, <2>3
<1>2. CASE TurnStep(p)
  <2>1. CASE InstallTurn(p)
    BY <2>1 DEF InstallTurn
  <2>2. InstallTurn(p)
    BY <1>2
       DEF TurnStep, Dispatch, AcceptTurn, AbortExpires, BeginSettlement,
           CommitTurn, SignalTurnRuntime, DropTurnRuntime, FenceLostTransport,
           ClaimTurn, PublishTurnIdle, Unwind, Leave, At, opVars
  <2> QED BY <2>1, <2>2
<1> QED BY <1>1, <1>2, OpMoves

\* A prompt is asked once.
LEMMA AskedOnce ==
  ASSUME SessionInv, [Next]_vars, NEW p \in Prompts, pc'[p] \in {"idle", "gated"}
  PROVE  pc[p] \in {"idle", "gated"}
<1> USE NamesAssumption DEF SessionInv, TypeOK, RequestTypes, Ops
<1>1. CASE AcquireGate(p) \/ RequestStep(p)
  BY <1>1
     DEF AcquireGate, RequestStep, CheckBusy, EnsureRuntime, JoinEnding, Launch,
         Bind, OpenStream, StopSignal, StopJoin, UseRuntime, ReleaseGate, Fail,
         Leave, At, Served
<1>2. ~TurnStep(p) \/ pc'[p] = pc[p]
  BY DEF TurnStep, InstallTurn, Dispatch, AcceptTurn, AbortExpires,
         BeginSettlement, CommitTurn, SignalTurnRuntime, DropTurnRuntime,
         FenceLostTransport, ClaimTurn, PublishTurnIdle, Unwind, Leave, At,
         opVars
<1> QED BY <1>1, <1>2, OpMoves

\* The turn a pump ends with its runtime is on that runtime, or just looks it up.
TurnEnding ==
  \A p \in Prompts, g \in Gens :
    pump[g] \in {"endJoin", "endWait"} /\ held[g] = p =>
      /\ pc[p] \notin {"idle", "gated"}
      /\ ~closing /\ pc[p] = "ensuring" => runtime = g
      /\ ~closing /\ pc[p] \in {"joining"} \cup OnBound => bound[p] = g
      /\ ~closing => pc[p] # "launching"

\* The pump keeps the turn until it is finished, and the runtime with it.
LEMMA EndWaits ==
  ASSUME "turn" \notin Expiring, SessionInv, FinishedOut, [Next]_vars,
         NEW p \in Prompts, NEW g \in Gens, pump[g] \in {"endJoin", "endWait"},
         held[g] = p, pc[p] \in AtWork
  PROVE  /\ ~RetireRuntime(g)
         /\ pump[g] = "endWait" => pump'[g] = "endWait" /\ held'[g] = p
<1> USE DEF SessionInv, TypeOK, RuntimeTypes
<1>1. ~RetireRuntime(g)
  BY DEF RetireRuntime, TurnJoined, Expires, FinishedOut, AtWork, Waiting,
         OnBound, OnRuntime
<1>2. ASSUME pump[g] = "endWait" PROVE pump'[g] = "endWait" /\ held'[g] = p
  <2>1. CASE OffPump
    BY <1>2, <2>1 DEF OffPump
  <2>2. CASE \E h \in Gens \ {g} : PumpStep(h) \/ ReadFails(h)
    BY <1>2, <2>2, PumpMoves
  <2>3. ~PumpStep(g) /\ ~ReadFails(g)
    BY <1>1, <1>2
       DEF PumpStep, ReadFails, PumpTake, OpenCycle, LoseCycle, CycleLost, Apply,
           FinishDelivery, CommitCycle, SignalCycleRuntime, DropCycleRuntime,
           ClaimCycle, PublishCycleIdle, ClearCycle, DrainRuntime,
           EndForeground, Release, PumpAt
  <2> QED BY <2>1, <2>2, <2>3, OffPumpMoves
<1> QED BY <1>1, <1>2

LEMMA TurnEndingStep ==
  ASSUME "turn" \notin Expiring, SessionInv, DoneIsOver, EndingSeen, TurnHeld,
         FinishedOut, BoundIsRuntime, TurnEnding, [Next]_vars
  PROVE  TurnEnding'
<1> USE NamesAssumption DEF SessionInv, TypeOK, RuntimeTypes, Ops
<1> SUFFICES ASSUME NEW p \in Prompts, NEW g \in Gens,
                    pump'[g] \in {"endJoin", "endWait"}, held'[g] = p
             PROVE  /\ pc'[p] \notin {"idle", "gated"}
                    /\ ~closing' /\ pc'[p] = "ensuring" => runtime' = g
                    /\ ~closing' /\ pc'[p] \in {"joining"} \cup OnBound =>
                         bound'[p] = g
                    /\ ~closing' => pc'[p] # "launching"
  BY DEF TurnEnding
<1>1. g # NoGen
  BY DEF NoGen, Gens
<1>2. CASE RuntimeEnded(g) /\ pump[g] = "ready" /\ runtime = g /\ UNCHANGED runtime
  <2>1. UNCHANGED <<pc, bound, closing>>
    BY <1>2 DEF RuntimeEnded, opVars
  <2>2. turn = p
    BY <1>2, CyclesApart
       DEF RuntimeEnded, Foreground, RequestTypes, Foregrounds
  <2>3. pc[p] \in InTurn
    BY <2>2 DEF TurnHeld
  <2>4. pc[p] # "launching" /\ (pc[p] = "joining" => bound[p] = g)
    BY <1>1, <1>2 DEF ProcessInv, LaunchesAlone
  <2>5. pc[p] \in OnBound => bound[p] = g
    BY <1>1, <1>2 DEF BoundIsRuntime
  <2> QED BY <1>2, <2>1, <2>3, <2>4, <2>5 DEF InTurn
<1>3. CASE pump[g] \in {"endJoin", "endWait"} /\ held'[g] = held[g]
  <2>1. pc'[p] \notin {"idle", "gated"} /\ pc[p] \notin {"idle", "gated"}
    BY <1>3, AskedOnce DEF TurnEnding
  <2>2. SUFFICES ASSUME ~closing'
                 PROVE  /\ pc'[p] = "ensuring" => runtime' = g
                        /\ pc'[p] \in {"joining"} \cup OnBound => bound'[p] = g
                        /\ pc'[p] # "launching"
    BY <2>1
  <2>3. ~closing
    BY <2>2, ClosingStays
  <2>4. /\ pc[p] = "ensuring" => runtime = g
        /\ pc[p] \in {"joining"} \cup OnBound => bound[p] = g
        /\ pc[p] # "launching" /\ ending[g]
    BY <1>3, <2>3 DEF TurnEnding, EndingSeen
  <2>5. ~done[g]
    BY <1>3 DEF DoneIsOver
  <2>6. CASE pc'[p] \in OnBound
    BY <2>4, <2>6, BoundMoves DEF OnBound, OnRuntime
  <2>7. CASE pc'[p] \in {"joining", "launching"}
    BY <1>1, <2>1, <2>4, <2>5, <2>7, WaitMoves DEF Waiting, OnBound, OnRuntime
  <2>8. CASE pc'[p] = "ensuring"
    <3>1. pc[p] = "ensuring" /\ runtime = g
      BY <2>1, <2>4, <2>5, <2>8, WaitMoves DEF Waiting
    <3>2. ASSUME NEW o \in Ops, pc[o] \in {"stopJoin", "dropping", "settling"}
          PROVE  FALSE
      BY <3>1, <3>2 DEF GateExclusive, Holding
    <3>3. ~RetireRuntime(g) /\ ~DropCycleRuntime(g)
      BY <1>3, <3>1, EndWaits DEF AtWork, Waiting, DropCycleRuntime, PumpAt
    <3>4. runtime' = runtime
      BY <1>1, <2>3, <3>1, <3>2, <3>3, Unbinds
         DEF StopJoin, DropTurnRuntime, FenceLostTransport, At
    <3> QED BY <2>8, <3>1, <3>4 DEF OnBound, OnRuntime
  <2> QED BY <2>6, <2>7, <2>8 DEF OnBound, OnRuntime
<1> QED BY <1>2, <1>3, EndMoves

\* A turn whose transport is over was ended with its runtime, whose pump waits for
\* it, or its process was signalled when its abort expired.
TurnLost ==
  \A p \in Prompts : ended[p] = "transport" =>
    /\ pc[p] \notin {"idle", "gated"}
    /\ ~closing /\ pc[p] \in AtWork =>
         \/ /\ pc[p] \in Submitted
            /\ bound[p] \in Gens /\ proc[bound[p]] # "running"
         \/ \E g \in Gens : pump[g] = "endWait" /\ held[g] = p

\* Who ends the transport of a turn.
LEMMA TransportEnds ==
  ASSUME SessionInv, [Next]_vars, NEW p \in Prompts, ended[p] # "transport",
         ended'[p] = "transport"
  PROVE  \/ AbortExpires(p)
         \/ \E g \in Gens : EndForeground(g) /\ held[g] = p
<1> USE DEF SessionInv, TypeOK, ForegroundTypes, Settle
<1>1. CASE UNCHANGED vars
  BY <1>1 DEF vars, fgVars
<1>2. CASE EstablishCommit \/ EstablishOpen
  BY <1>2 DEF EstablishCommit, EstablishOpen, fgVars
<1>3. ASSUME NEW o \in Prompts \cup Reads, AcquireGate(o) \/ RequestStep(o)
      PROVE  UNCHANGED ended
  BY <1>3
     DEF AcquireGate, RequestStep, CheckBusy, EnsureRuntime, JoinEnding, Launch,
         Bind, OpenStream, StopSignal, StopJoin, UseRuntime, ReleaseGate, fgVars
<1>4. ASSUME NEW q \in Prompts, TurnStep(q) PROVE AbortExpires(p)
  <2>1. AbortExpires(q)
    BY <1>4
       DEF TurnStep, InstallTurn, Dispatch, AcceptTurn, BeginSettlement,
           CommitTurn, SignalTurnRuntime, DropTurnRuntime, FenceLostTransport,
           ClaimTurn, PublishTurnIdle, Unwind, fgVars
  <2>2. q = p
    BY <2>1 DEF AbortExpires
  <2> QED BY <2>1, <2>2
<1>5. ASSUME NEW g \in Gens, PumpStep(g) \/ ReadFails(g) \/ Emit(g) \/ Exit(g)
      PROVE  EndForeground(g) /\ held[g] = p
  <2>1. CASE Apply(g)
    BY <2>1 DEF Apply
  <2>2. CASE EndForeground(g)
    BY <2>2 DEF EndForeground
  <2> QED
    BY <1>5, <2>1, <2>2
       DEF PumpStep, ReadFails, Emit, Exit, PumpTake, OpenCycle, LoseCycle,
           FinishDelivery, CommitCycle, SignalCycleRuntime, DropCycleRuntime,
           ClaimCycle, PublishCycleIdle, ClearCycle, DrainRuntime,
           RetireRuntime, Release, RuntimeEnded, fgVars
<1>6. CASE Cancel \/ (\E i \in callbacks : Abort(i)) \/ BeginClose \/ CloseStep
  BY <1>6
     DEF Cancel, Abort, BeginClose, CloseStep, CloseAbort, CloseStop,
         CloseJoinPump, CloseCommit, CloseFence, fgVars
<1> QED BY <1>1, <1>2, <1>3, <1>4, <1>5, <1>6 DEF Next

\* A dispatched turn goes on to its end.
LEMMA SubmittedMoves ==
  ASSUME SessionInv, [Next]_vars, NEW p \in Prompts, pc[p] \in Submitted,
         pc'[p] \in AtWork
  PROVE  pc'[p] \in Submitted /\ bound'[p] = bound[p]
<1> USE NamesAssumption DEF SessionInv, TypeOK, RequestTypes, Submitted, Ops
<1>1. ~AcquireGate(p) /\ ~RequestStep(p)
  BY DEF AcquireGate, RequestStep, CheckBusy, EnsureRuntime, JoinEnding, Launch,
         Bind, OpenStream, StopSignal, StopJoin, UseRuntime, ReleaseGate, At
<1>2. CASE TurnStep(p)
  BY <1>2
     DEF TurnStep, InstallTurn, Dispatch, AcceptTurn, AbortExpires,
         BeginSettlement, CommitTurn, SignalTurnRuntime, DropTurnRuntime,
         FenceLostTransport, ClaimTurn, PublishTurnIdle, Unwind, At, opVars,
         AtWork, Waiting, OnBound, OnRuntime
<1> QED BY <1>1, <1>2, OpMoves

LEMMA TurnLostStep ==
  ASSUME "turn" \notin Expiring, "exit" \notin Expiring, SessionInv, FinishedOut,
         TurnEnding, TurnLost, [Next]_vars
  PROVE  TurnLost'
<1> USE NamesAssumption
    DEF SessionInv, TypeOK, RequestTypes, RuntimeTypes, Ops
<1> SUFFICES ASSUME NEW p \in Prompts, ended'[p] = "transport"
             PROVE  /\ pc'[p] \notin {"idle", "gated"}
                    /\ ~closing' /\ pc'[p] \in AtWork =>
                         \/ /\ pc'[p] \in Submitted
                            /\ bound'[p] \in Gens /\ proc'[bound'[p]] # "running"
                         \/ \E g \in Gens : pump'[g] = "endWait" /\ held'[g] = p
  BY DEF TurnLost
<1>1. CASE ended[p] = "transport"
  <2>1. pc[p] \notin {"idle", "gated"} /\ pc'[p] \notin {"idle", "gated"}
    BY <1>1, AskedOnce DEF TurnLost
  <2>2. SUFFICES ASSUME ~closing', pc'[p] \in AtWork
                 PROVE  \/ /\ pc'[p] \in Submitted
                           /\ bound'[p] \in Gens /\ proc'[bound'[p]] # "running"
                        \/ \E g \in Gens : pump'[g] = "endWait" /\ held'[g] = p
    BY <2>1
  <2>3. ~closing
    BY <2>2, ClosingStays
  <2>4. pc[p] \in AtWork
    <3>1. CASE pc'[p] \in OnBound
      BY <3>1, BoundMoves DEF AtWork, Waiting
    <3>2. CASE pc'[p] \in Waiting
      BY <2>1, <3>2, WaitMoves DEF AtWork, Waiting
    <3> QED BY <2>2, <3>1, <3>2 DEF AtWork
  <2>5. CASE pc[p] \in Submitted /\ bound[p] \in Gens /\ proc[bound[p]] # "running"
    <3>1. pc'[p] \in Submitted /\ bound'[p] = bound[p]
      BY <2>2, <2>5, SubmittedMoves
    <3>2. ASSUME proc'[bound[p]] = "running" PROVE FALSE
      <4>1. PICK o \in Ops : pc[o] = "launching"
        BY <2>5, <3>2, Launched
      <4> QED BY <2>5, <4>1 DEF GateExclusive, Holding, Submitted
    <3> QED BY <2>5, <3>1, <3>2
  <2>6. CASE \E g \in Gens : pump[g] = "endWait" /\ held[g] = p
    BY <2>4, <2>6, EndWaits
  <2> QED BY <1>1, <2>3, <2>4, <2>5, <2>6 DEF TurnLost
<1>2. CASE ended[p] # "transport"
  <2>1. CASE AbortExpires(p)
    <3>1. pc[p] = "running" /\ pc'[p] = "running" /\ bound' = bound
      BY <2>1 DEF AbortExpires, opVars
    <3>2. proc' = [proc EXCEPT ![bound[p]] = "exited"]
      BY <2>1 DEF AbortExpires, Signal
    <3>3. bound[p] \in Gens
      BY <3>1 DEF ProcessInv, BoundToOne, OnRuntime
    <3> QED BY <3>1, <3>2, <3>3 DEF Submitted
  <2>2. ASSUME NEW g \in Gens, EndForeground(g), held[g] = p
        PROVE  /\ pc'[p] \notin {"idle", "gated"}
               /\ pump'[g] = "endWait" /\ held'[g] = p
    BY <2>2 DEF EndForeground, PumpAt, TurnEnding, opVars
  <2> QED BY <1>2, <2>1, <2>2, TransportEnds
<1> QED BY <1>1, <1>2

\* Somebody stops every process that runs: it is the session's, its stream has
\* ended by itself, the ladder is coming to it, or the request that launched it has
\* not bound it yet or is going to stop it.
Supervised ==
  \A g \in Gens : proc[g] = "running" =>
    \/ g = runtime \/ ending[g]
    \/ closing /\ g = closeRt /\ closePc \in {"abort", "stop"}
    \/ \E o \in Ops : bound[o] = g /\ pc[o] \in {"binding", "stopping"}

\* The runtime that a turn without a transport gives up has ended or exited.
LEMMA LostIsOver ==
  ASSUME SessionInv, EndingSeen, TurnEnding, TurnLost, ~closing, NEW p \in Prompts,
         FenceLostTransport(p)
  PROVE  ending[bound[p]] \/ proc[bound[p]] # "running"
<1>1. pc[p] = "settling" /\ ended[p] = "transport"
  BY DEF FenceLostTransport, At
<1>2. CASE \E g \in Gens : pump[g] = "endWait" /\ held[g] = p
  BY <1>1, <1>2 DEF TurnEnding, EndingSeen, OnBound, OnRuntime
<1> QED BY <1>1, <1>2 DEF TurnLost, AtWork, OnBound, OnRuntime

LEMMA SupervisedStep ==
  ASSUME "exit" \notin Expiring, SessionInv, Signalled, EndingSeen, TurnEnding,
         TurnLost, Supervised, [Next]_vars
  PROVE  Supervised'
<1> USE DEF SessionInv, TypeOK, RequestTypes, RuntimeTypes, CloseTypes
<1> SUFFICES ASSUME NEW g \in Gens, proc'[g] = "running"
             PROVE  \/ g = runtime' \/ ending'[g]
                    \/ closing' /\ g = closeRt' /\ closePc' \in {"abort", "stop"}
                    \/ \E o \in Ops : /\ bound'[o] = g
                                      /\ pc'[o] \in {"binding", "stopping"}
  BY DEF Supervised
<1>1. g # NoGen
  BY DEF NoGen, Gens
<1>2. CASE proc[g] # "running"
  BY <1>2, Launched
<1>3. CASE ending[g]
  BY <1>3, EndingStays
<1>4. ASSUME closing, g = closeRt, closePc \in {"abort", "stop"}
      PROVE  closing' /\ g = closeRt' /\ closePc' \in {"abort", "stop"}
  <2>1. closing'
    BY <1>4, ClosingStays
  <2>2. CASE UNCHANGED closeVars
    BY <1>4, <2>1, <2>2 DEF closeVars
  <2>3. CASE CloseAbort
    BY <1>4, <2>1, <2>3 DEF CloseAbort, CloseAt
  <2>4. ~CloseStop
    BY <1>1, <1>4 DEF CloseStop, Signal
  <2>5. ~BeginClose /\ ~CloseJoinPump /\ ~CloseCommit /\ ~CloseFence
    BY <1>4 DEF BeginClose, CloseJoinPump, CloseCommit, CloseFence, CloseAt
  <2> QED BY <2>2, <2>3, <2>4, <2>5, LadderMoves DEF CloseStep
<1>5. ASSUME NEW o \in Ops, bound[o] = g, pc[o] \in {"binding", "stopping"}
      PROVE  \/ g = runtime'
             \/ bound'[o] = g /\ pc'[o] \in {"binding", "stopping"}
  <2>1. CASE o \in Prompts \cup Reads /\ (AcquireGate(o) \/ RequestStep(o))
    <3>1. Bind(o) \/ StopSignal(o)
      BY <1>5, <2>1
         DEF AcquireGate, RequestStep, CheckBusy, EnsureRuntime, JoinEnding,
             Launch, OpenStream, StopJoin, UseRuntime, ReleaseGate, At
    <3>2. CASE Bind(o)
      BY <1>5, <3>2 DEF Bind
    <3>3. ~StopSignal(o)
      BY <1>5 DEF StopSignal, Signal
    <3> QED BY <3>1, <3>2, <3>3
  <2>2. ~(o \in Prompts /\ TurnStep(o))
    BY <1>5
       DEF TurnStep, InstallTurn, Dispatch, AcceptTurn, AbortExpires,
           BeginSettlement, CommitTurn, SignalTurnRuntime, DropTurnRuntime,
           FenceLostTransport, ClaimTurn, PublishTurnIdle, Unwind, At
  <2>3. ~(o = Establish /\ (EstablishCommit \/ EstablishOpen))
    BY <1>5 DEF EstablishCommit, EstablishOpen
  <2> QED BY <1>5, <2>1, <2>2, <2>3, OpMoves
<1>6. ASSUME g = runtime, runtime' # runtime, proc[g] = "running", ~ending[g]
      PROVE  closing /\ g = closeRt /\ closePc \in {"abort", "stop"}
  <2>1. CASE closing
    <3>1. closePc \in Winds
      BY <1>1, <1>6, <2>1
         DEF AddressedOpen, ClosedInv, Winds, Emptied, ClosePc
    <3>2. runtime = closeRt
      BY <1>1, <1>6, <3>1 DEF ClosedInv
    <3>3. closePc # "pump"
      BY <1>6, <3>2 DEF Signalled
    <3> QED BY <1>6, <2>1, <3>1, <3>2, <3>3 DEF Winds
  <2>2. CASE ~closing
    <3>1. ASSUME NEW o \in Prompts \cup Reads, StopJoin(o), bound[o] = g
          PROVE  FALSE
      BY <1>6, <3>1 DEF StopJoin, Signalled, Ops
    <3>2. ASSUME NEW p \in Prompts, DropTurnRuntime(p), bound[p] = g
          PROVE  FALSE
      BY <1>6, <3>2 DEF DropTurnRuntime, At, Signalled, Ops
    <3>3. ASSUME NEW p \in Prompts, FenceLostTransport(p), bound[p] = g
          PROVE  FALSE
      BY <1>6, <2>2, <3>3, LostIsOver
    <3>4. ~DropCycleRuntime(g)
      BY <1>6 DEF DropCycleRuntime, PumpAt, Signalled
    <3>5. ~RetireRuntime(g)
      BY <1>6 DEF RetireRuntime, PumpAt, EndingSeen
    <3> QED BY <1>1, <1>6, <2>2, <3>1, <3>2, <3>3, <3>4, <3>5, Unbinds
  <2> QED BY <2>1, <2>2
<1> QED BY <1>2, <1>3, <1>4, <1>5, <1>6 DEF Supervised

\* What is known of the processes of a session, whatever requests it serves.
StoppedInv ==
  /\ DoneIsOver /\ EndingSeen /\ TurnHeld /\ FinishedOut /\ BoundIsRuntime
  /\ Signalled /\ TurnEnding /\ TurnLost /\ Supervised

LEMMA StoppedHolds ==
  ASSUME EarlyWork = FALSE, "turn" \notin Expiring, "exit" \notin Expiring
  PROVE  Spec => []StoppedInv
<1>1. Init => StoppedInv
  <2> SUFFICES ASSUME Init PROVE StoppedInv
    OBVIOUS
  <2>1. \A o \in Ops : pc[o] \in {"idle", "commit"}
    BY DEF Init
  <2>2. \A p \in Prompts : pc[p] = "idle" /\ ended[p] = "running" /\ ~finished[p]
    BY NamesAssumption DEF Init, Ops
  <2>3. \A g \in Gens : pump[g] \in {"none", "ready"} /\ ~done[g]
    BY DEF Init
  <2>4. turn = None /\ None \notin Prompts /\ closePc = "none"
    BY NamesAssumption DEF Init, Foregrounds
  <2>5. DoneIsOver /\ EndingSeen /\ TurnHeld /\ FinishedOut /\ BoundIsRuntime
    BY <2>2, <2>3, <2>4
       DEF DoneIsOver, EndingSeen, TurnHeld, FinishedOut, BoundIsRuntime, OnBound,
           OnRuntime
  <2>6. Signalled /\ TurnEnding /\ TurnLost
    BY <2>1, <2>2, <2>3, <2>4 DEF Signalled, TurnEnding, TurnLost
  <2>7. Supervised
    BY DEF Init, Supervised
  <2> QED BY <2>5, <2>6, <2>7 DEF StoppedInv
<1>2. ASSUME SessionInv, SessionInv', StoppedInv, [Next]_vars
      PROVE  StoppedInv'
  BY <1>2, DoneIsOverStep, EndingSeenStep, TurnHeldStep, FinishedOutStep,
     BoundIsRuntimeStep, SignalledStep, TurnEndingStep, TurnLostStep,
     SupervisedStep DEF StoppedInv
<1> QED BY <1>1, <1>2, SessionHolds, PTL DEF Spec

\* A closed session that no request works on any more has no process, but for one
\* whose output could not be read: whatever was launched, lost or given up before
\* and while it closed was stopped by whoever gave it up.
THEOREM ClosedIsStopped ==
  ASSUME EarlyWork = FALSE, "turn" \notin Expiring, "exit" \notin Expiring
  PROVE  Spec => []ClosedNoProcess
<1>1. ASSUME SessionInv, StoppedInv, closePc = "closed", Holding = {}, NEW g \in Gens,
             proc[g] = "running"
      PROVE  ending[g]
  <2>1. runtime # g
    BY <1>1 DEF SessionInv, ClosedInv, Emptied, NoGen, Gens
  <2>2. ASSUME NEW o \in Ops, pc[o] \in {"binding", "stopping"} PROVE FALSE
    BY <1>1, <2>2 DEF Holding
  <2> QED BY <1>1, <2>1, <2>2 DEF StoppedInv, Supervised
<1>2. SessionInv /\ StoppedInv => ClosedNoProcess
  BY <1>1 DEF ClosedNoProcess
<1> QED BY <1>2, SessionHolds, StoppedHolds, PTL

-----------------------------------------------------------------------------
(* Who announces, who opens, and what is known then.                       *)

\* A foreground is announced by its turn, by a pump that applies a frame to the
\* turn, or by the pump that opens the cycle, and by nothing that opens or fences
\* the stream or ends a foreground.
LEMMA Announces ==
  ASSUME SessionInv, [Next]_vars, acceptedIn' # acceptedIn
  PROVE  /\ UNCHANGED <<stream, terminals>>
         /\ \/ \E p \in Prompts : AcceptTurn(p)
            \/ \E g \in Gens : Apply(g) /\ held[g] \in Prompts /\ Accept(held[g])
            \/ \E g \in Gens : OpenCycle(g) /\ MayOpenCycle(g)
<1> USE DEF SessionInv
<1>1. CASE UNCHANGED vars
  BY <1>1 DEF vars, pubVars
<1>2. CASE EstablishCommit \/ EstablishOpen
  BY <1>2 DEF EstablishCommit, EstablishOpen
<1>3. ASSUME NEW o \in Prompts \cup Reads, AcquireGate(o) \/ RequestStep(o)
      PROVE  FALSE
  BY <1>3
     DEF AcquireGate, RequestStep, CheckBusy, EnsureRuntime, JoinEnding, Launch,
         Bind, OpenStream, StopSignal, StopJoin, UseRuntime, ReleaseGate,
         pubVars
<1>4. ASSUME NEW p \in Prompts, TurnStep(p)
      PROVE  AcceptTurn(p) /\ UNCHANGED <<stream, terminals>>
  BY <1>4
     DEF TurnStep, InstallTurn, Dispatch, AcceptTurn, AbortExpires,
         BeginSettlement, CommitTurn, SignalTurnRuntime, DropTurnRuntime,
         FenceLostTransport, ClaimTurn, PublishTurnIdle, Unwind, pubVars
<1>5. ASSUME NEW g \in Gens, PumpStep(g) \/ ReadFails(g) \/ Emit(g) \/ Exit(g)
      PROVE  /\ UNCHANGED <<stream, terminals>>
             /\ \/ Apply(g) /\ held[g] \in Prompts /\ Accept(held[g])
                \/ OpenCycle(g) /\ MayOpenCycle(g)
  <2>1. CASE OpenCycle(g)
    BY <2>1 DEF OpenCycle
  <2>2. CASE Apply(g)
    BY <2>2 DEF Apply
  <2> QED
    BY <1>5, <2>1, <2>2
       DEF PumpStep, ReadFails, Emit, Exit, PumpTake, LoseCycle, FinishDelivery,
           CommitCycle, SignalCycleRuntime, DropCycleRuntime, ClaimCycle,
           PublishCycleIdle, ClearCycle, DrainRuntime, EndForeground,
           RetireRuntime, Release, RuntimeEnded, pubVars
<1>6. CASE Cancel \/ (\E i \in callbacks : Abort(i)) \/ BeginClose \/ CloseStep
  BY <1>6
     DEF Cancel, Abort, BeginClose, CloseStep, CloseAbort, CloseStop,
         CloseJoinPump, CloseCommit, CloseFence, pubVars
<1> QED BY <1>1, <1>2, <1>3, <1>4, <1>5, <1>6 DEF Next

\* Only a launch makes a generation.
LEMMA GensMove ==
  ASSUME SessionInv, [Next]_vars, gens' # gens
  PROVE  \E o \in Prompts \cup Reads : pc[o] = "launching"
<1>1. CASE UNCHANGED vars
  BY <1>1 DEF vars, nativeVars
<1>2. CASE EstablishCommit \/ EstablishOpen
  BY <1>2 DEF EstablishCommit, EstablishOpen, nativeVars
<1>3. ASSUME NEW o \in Prompts \cup Reads, AcquireGate(o) \/ RequestStep(o)
      PROVE  pc[o] = "launching"
  BY <1>3
     DEF AcquireGate, RequestStep, CheckBusy, EnsureRuntime, JoinEnding, Launch,
         Bind, OpenStream, StopSignal, StopJoin, UseRuntime, ReleaseGate, nativeVars
<1>4. ASSUME NEW p \in Prompts, TurnStep(p) PROVE FALSE
  BY <1>4
     DEF TurnStep, InstallTurn, Dispatch, AcceptTurn, AbortExpires,
         BeginSettlement, CommitTurn, SignalTurnRuntime, DropTurnRuntime,
         FenceLostTransport, ClaimTurn, PublishTurnIdle, Unwind, nativeVars
<1>5. ASSUME NEW g \in Gens, PumpStep(g) \/ ReadFails(g) \/ Emit(g) \/ Exit(g)
      PROVE  FALSE
  BY <1>5
     DEF PumpStep, ReadFails, Emit, Exit, PumpTake, OpenCycle, LoseCycle, Apply,
         FinishDelivery, CommitCycle, SignalCycleRuntime, DropCycleRuntime,
         ClaimCycle, PublishCycleIdle, ClearCycle, DrainRuntime, EndForeground,
         RetireRuntime, Release, RuntimeEnded, nativeVars
<1>6. CASE Cancel \/ (\E i \in callbacks : Abort(i)) \/ BeginClose \/ CloseStep
  BY <1>6
     DEF Cancel, Abort, BeginClose, CloseStep, CloseAbort, CloseStop,
         CloseJoinPump, CloseCommit, CloseFence, nativeVars
<1> QED BY <1>1, <1>2, <1>3, <1>4, <1>5, <1>6 DEF Next

\* A generation that is not open yet is the youngest one.
Youngest ==
  /\ \A o \in Ops : pc[o] \in Unopened => bound[o] = gens
  /\ pc[Establish] \in {"commit", "open"} => gens = 1

LEMMA YoungestStep ==
  ASSUME SessionInv, Youngest, [Next]_vars
  PROVE  Youngest'
<1> USE DEF SessionInv
<1>1. ASSUME NEW o \in Ops, pc'[o] \in Unopened PROVE bound'[o] = gens'
  <2>1. CASE pc[o] \in Unopened /\ bound'[o] = bound[o]
    <3>1. ASSUME NEW q \in Prompts \cup Reads, pc[q] = "launching" PROVE FALSE
      <4>1. o \in Holding /\ q \in Holding /\ o # q
        BY <2>1, <3>1 DEF Holding, Unopened, Ops
      <4> QED BY <4>1 DEF GateExclusive
    <3> QED BY <2>1, <3>1, GensMove DEF Youngest
  <2> QED BY <1>1, <2>1, UnopenedMove
<1>2. ASSUME pc'[Establish] \in {"commit", "open"} PROVE gens' = 1
  <2>1. pc[Establish] \in {"commit", "open"}
    BY <1>2, EstablishMoves
  <2>2. ASSUME NEW q \in Prompts \cup Reads, pc[q] = "launching" PROVE FALSE
    BY <2>1, <2>2 DEF AddressedOpen, Opened
  <2> QED BY <2>1, <2>2, GensMove DEF Youngest
<1> QED BY <1>1, <1>2 DEF Youngest

\* An incarnation opens on a fenced stream, and everything announced so far was
\* announced on earlier ones.
LEMMA OpensLater ==
  ASSUME SessionInv, Youngest, [Next]_vars, ~StreamKeptOrFenced
  PROVE  /\ stream = NoGen /\ stream' \in Gens
         /\ UNCHANGED <<acceptedIn, terminals>>
         /\ \A f \in Foregrounds : acceptedIn[f] # NotYet => acceptedIn[f] < stream'
<1> USE DEF SessionInv
<1>1. ASSUME NEW o \in Prompts \cup Reads, Opens(o)
      PROVE  /\ stream = NoGen /\ stream' = gens
             /\ \A f \in Foregrounds : acceptedIn[f] # stream'
  <2>1. o \in Ops
    BY DEF Ops
  <2>2. pc[o] \in Unopened /\ stream' = bound[o] /\ Openable(bound[o])
    BY <1>1 DEF Opens, Unopened
  <2> QED
    BY <2>1, <2>2 DEF Openable, OpeningInv, StreamOfRuntime, FreshStream, Youngest,
                      AnnouncedInv, AcceptedFresh
<1>2. ASSUME OpensFirst
      PROVE  /\ stream = NoGen /\ stream' = gens
             /\ \A f \in Foregrounds : acceptedIn[f] # stream'
  BY <1>2 DEF OpensFirst, OpeningInv, SilentUnstored, Youngest, AnnouncedInv,
              AcceptedFresh
<1>3. /\ stream = NoGen /\ stream' = gens
      /\ \A f \in Foregrounds : acceptedIn[f] # stream'
  BY <1>1, <1>2, StreamMoves
<1>4. stream' \in Gens /\ gens \in Nat
  BY <1>3 DEF TypeOK, RuntimeTypes, Gens
<1>5. UNCHANGED acceptedIn
  BY Announces DEF StreamKeptOrFenced
<1>6. UNCHANGED terminals
  <2>1. terminals \subseteq terminals'
    BY TerminalsGrow
  <2>2. ASSUME NEW t \in terminals', t \notin terminals PROVE FALSE
    BY <1>3, <2>2, NewTerminals
  <2> QED BY <2>1, <2>2
<1>7. ASSUME NEW f \in Foregrounds, acceptedIn[f] # NotYet
      PROVE  acceptedIn[f] < stream'
  <2>1. acceptedIn[f] \in 0..gens
    BY <1>7 DEF AnnouncedInv, AcceptedPast
  <2> QED BY <1>3, <1>4, <2>1
<1> QED BY <1>3, <1>4, <1>5, <1>6, <1>7

-----------------------------------------------------------------------------
(* Where prompts stand, and what a runtime that ends a cycle leaves alone.  *)

\* Where a prompt may stand.
Places == InTurn \cup {"idle", "gated", "leaving", "answered"}

PromptPlaces == \A p \in Prompts : pc[p] \in Places

LEMMA PromptPlacesStep ==
  ASSUME SessionInv, PromptPlaces, [Next]_vars
  PROVE  PromptPlaces'
<1> USE DEF SessionInv, TypeOK, RequestTypes, Ops, Places, InTurn
<1> SUFFICES ASSUME NEW p \in Prompts PROVE pc'[p] \in Places
  BY DEF PromptPlaces
<1>1. pc[p] \in Places
  BY DEF PromptPlaces
<1>2. CASE pc'[p] = pc[p]
  BY <1>1, <1>2
<1>3. CASE AcquireGate(p) \/ RequestStep(p)
  <2>1. p \notin Reads
    BY NamesAssumption
  <2> QED
    BY <1>1, <1>3, <2>1
       DEF AcquireGate, RequestStep, CheckBusy, EnsureRuntime, JoinEnding,
           Launch, Bind, OpenStream, StopSignal, StopJoin, UseRuntime,
           ReleaseGate, Fail, Leave, Served, At
<1>4. CASE TurnStep(p)
  BY <1>4
     DEF TurnStep, InstallTurn, Dispatch, AcceptTurn, AbortExpires,
         BeginSettlement, CommitTurn, SignalTurnRuntime, DropTurnRuntime,
         FenceLostTransport, ClaimTurn, PublishTurnIdle, Unwind, Leave, At, opVars
<1> QED BY <1>2, <1>3, <1>4, PromptMoves

\* A turn whose prompt is past its idle, and whose incarnation is open still, ended
\* there.
TurnSeen ==
  \A p \in Prompts :
    pc[p] \in Told /\ terminal[p] /\ stream # NoGen /\ acceptedIn[p] = stream =>
      Ended(p)

LEMMA TurnSeenStep ==
  ASSUME SessionInv, VerdictInv, TurnJudged, Youngest, TurnSeen, [Next]_vars
  PROVE  TurnSeen'
<1> USE CyclesApart
    DEF SessionInv, TypeOK, RequestTypes, ForegroundTypes, Ops, Foregrounds
<1> SUFFICES ASSUME NEW p \in Prompts, pc'[p] \in Told, terminal'[p],
                    stream' # NoGen, acceptedIn'[p] = stream'
             PROVE  Ended(p)'
  BY DEF TurnSeen
<1>1. Ended(p) => Ended(p)'
  BY TerminalsGrow DEF Ended
<1>2. CASE pc[p] \in Told
  <2>1. terminal[p]
    BY <1>2, PromptMoves
       DEF Told, AcquireGate, RequestStep, CheckBusy, EnsureRuntime, JoinEnding,
           Launch, Bind, OpenStream, StopSignal, StopJoin, UseRuntime,
           ReleaseGate, TurnStep, InstallTurn, Dispatch, AcceptTurn, AbortExpires,
           BeginSettlement, CommitTurn, SignalTurnRuntime, DropTurnRuntime,
           FenceLostTransport, ClaimTurn, PublishTurnIdle, Unwind, At, fgVars
  <2>2. acceptedIn[p] # NotYet
    BY <2>1 DEF TurnJudged
  <2>3. acceptedIn'[p] = acceptedIn[p]
    BY <2>2, AcceptMoves
  <2>4. stream' = stream
    <3>1. StreamKeptOrFenced
      <4>1. CASE ~StreamKeptOrFenced
        <5>1. acceptedIn[p] < stream' /\ stream' \in Gens
          BY <2>2, <4>1, OpensLater
        <5> QED BY <2>3, <5>1 DEF Gens
      <4> QED BY <4>1
    <3> QED BY <3>1 DEF StreamKeptOrFenced
  <2> QED BY <1>1, <1>2, <2>1, <2>3, <2>4 DEF TurnSeen
<1>3. CASE pc[p] \notin Told
  <2>1. CASE PublishTurnIdle(p)
    BY <2>1, Publishes DEF PublishTurnIdle
  <2>2. CASE ~PublishTurnIdle(p)
    <3>1. terminal'[p] = terminal[p]
      BY <1>3, <2>2, PromptMoves
         DEF Told, AcquireGate, RequestStep, CheckBusy, EnsureRuntime,
             JoinEnding, Launch, Bind, OpenStream, StopSignal, StopJoin,
             UseRuntime, ReleaseGate, TurnStep, InstallTurn, Dispatch,
             AcceptTurn, AbortExpires, BeginSettlement, CommitTurn,
             SignalTurnRuntime, DropTurnRuntime, FenceLostTransport, ClaimTurn,
             Unwind, At, fgVars
    <3>2. pc[p] = "publishing"
      BY <1>3, <3>1 DEF VerdictInv, Verdict, Decided, Told
    <3> QED
      BY <2>2, <3>2, PromptMoves
         DEF Told, AcquireGate, RequestStep, CheckBusy, EnsureRuntime,
             JoinEnding, Launch, Bind, OpenStream, StopSignal, StopJoin,
             UseRuntime, ReleaseGate, TurnStep, InstallTurn, Dispatch,
             AcceptTurn, AbortExpires, BeginSettlement, CommitTurn,
             SignalTurnRuntime, DropTurnRuntime, FenceLostTransport, ClaimTurn,
             Unwind, At
  <2> QED BY <2>1, <2>2
<1> QED BY <1>2, <1>3

\* A runtime that ends a cycle stays the session's until the idle of the cycle is
\* out, unless the ladder gave up joining it.  The turn that may be installed behind
\* the cycle waits for that runtime, or launches on a closing session that binds
\* nothing more, and no frame of a process has reached it.
Behind(p, g) ==
  /\ pc[p] \in {"ensuring", "joining", "launching", "binding", "stopping", "stopJoin"}
  /\ pc[p] = "joining" => bound[p] = g
  /\ pc[p] \notin {"ensuring", "joining"} => closing /\ runtime = NoGen
  /\ ~Reached(p)

EndsAlone ==
  \A g \in Gens : EndsCycle(g) =>
    /\ runtime = g \/ (closing /\ runtime = NoGen)
    /\ \A p \in Prompts : pc[p] \in InTurn \ {"unwinding"} => Behind(p, g)

LEMMA EndKeepsRuntime ==
  ASSUME Reads = {}, SessionInv, EndsAlone, [Next]_vars, NEW g \in Gens, EndsCycle(g)
  PROVE  runtime' = g \/ (closing' /\ runtime' = NoGen)
<1> USE DEF SessionInv
<1>1. CASE closing
  BY <1>1, RuntimeMoves, ClosingStays DEF EndsAlone
<1>2. CASE ~closing
  <2>1. /\ runtime = g /\ g # NoGen /\ pump[g] = "endJoin"
        /\ \A p \in Prompts : pc[p] \in {"ensuring", "joining", "unwinding"}
                               \/ pc[p] \notin InTurn
    BY <1>2 DEF EndsAlone, Behind, EndsCycle, NoGen, Gens
  <2>2. ASSUME NEW p \in Prompts, StopJoin(p) PROVE FALSE
    BY <2>1, <2>2 DEF StopJoin, InTurn
  <2>3. ASSUME NEW p \in Prompts, DropTurnRuntime(p) \/ FenceLostTransport(p)
        PROVE  FALSE
    BY <2>1, <2>3 DEF DropTurnRuntime, FenceLostTransport, At, InTurn
  <2>4. ~DropCycleRuntime(g) /\ ~RetireRuntime(g)
    BY <2>1 DEF DropCycleRuntime, RetireRuntime, PumpAt
  <2> QED BY <1>2, <2>1, <2>2, <2>3, <2>4, Unbinds
<1> QED BY <1>1, <1>2

LEMMA BehindMoves ==
  ASSUME SessionInv, DoneIsOver, EndingSeen, TurnFresh, EndsAlone, [Next]_vars,
         NEW g \in Gens, EndsCycle(g), NEW p \in Prompts,
         pc'[p] \in InTurn \ {"unwinding"}
  PROVE  Behind(p, g)'
<1> USE DEF SessionInv, TypeOK, RequestTypes, Ops
<1>1. /\ runtime = g \/ (closing /\ runtime = NoGen)
      /\ g # NoGen /\ pump[g] = "endJoin" /\ ending[g] /\ ~done[g]
      /\ pc[p] \in InTurn \ {"unwinding"} => Behind(p, g)
  BY DEF EndsAlone, EndsCycle, EndingSeen, DoneIsOver, NoGen, Gens
<1>2. /\ pc[p] = "gated" \/ Behind(p, g)
      /\ ~Reached(p)
  <2>1. CASE InstallTurn(p)
    BY <2>1 DEF InstallTurn, TurnFresh
  <2>2. CASE pc[p] = "unwinding"
    BY <2>2, PromptMoves
       DEF AcquireGate, RequestStep, CheckBusy, EnsureRuntime, JoinEnding, Launch,
           Bind, OpenStream, StopSignal, StopJoin, UseRuntime, ReleaseGate,
           TurnStep, InstallTurn, Dispatch, AcceptTurn, AbortExpires,
           BeginSettlement, CommitTurn, SignalTurnRuntime, DropTurnRuntime,
           FenceLostTransport, ClaimTurn, PublishTurnIdle, Unwind, At, InTurn
  <2>3. CASE pc[p] \in InTurn \ {"unwinding"}
    BY <1>1, <2>3 DEF Behind
  <2> QED BY <2>1, <2>2, <2>3, TurnInstalled
<1>3. ~Reached(p)'
  <2>1. ~AcceptTurn(p)
    BY <1>2 DEF AcceptTurn, At, Behind
  <2>2. ASSUME NEW h \in Gens, PumpTake(h), runtime = h PROVE FALSE
    BY <1>1, <2>2 DEF PumpTake, NoGen, Gens
  <2> QED BY <1>2, <2>1, <2>2, ReachMoves
<1>4. CASE pc'[p] = pc[p] /\ bound'[p] = bound[p]
  <2>1. Behind(p, g)
    BY <1>2, <1>4 DEF InTurn
  <2>2. closing /\ runtime = NoGen => closing' /\ runtime' = NoGen
    BY RuntimeMoves, ClosingStays
  <2> QED BY <1>3, <1>4, <2>1, <2>2 DEF Behind
<1>5. CASE AcquireGate(p) \/ RequestStep(p)
  <2>1. UNCHANGED closing
    BY <1>5
       DEF AcquireGate, RequestStep, CheckBusy, EnsureRuntime, JoinEnding, Launch,
           Bind, OpenStream, StopSignal, StopJoin, UseRuntime, ReleaseGate,
           sessionVars
  <2>2. CASE AcquireGate(p) \/ ReleaseGate(p) \/ StopJoin(p) \/ JoinEnding(p)
    BY <1>1, <1>2, <2>2
       DEF AcquireGate, ReleaseGate, StopJoin, JoinEnding, Fail, Leave, At, Behind,
           InTurn
  <2>3. CASE CheckBusy(p) \/ UseRuntime(p) \/ OpenStream(p)
    BY <1>2, <2>3, NamesAssumption DEF CheckBusy, UseRuntime, OpenStream, Behind
  <2>4. CASE EnsureRuntime(p)
    BY <1>1, <1>2, <1>3, <2>1, <2>4
       DEF EnsureRuntime, Fail, Leave, Behind, InTurn, sessionVars
  <2>5. CASE Launch(p)
    BY <1>2, <1>3, <2>1, <2>5 DEF Launch, Fail, Leave, Behind, InTurn
  <2>6. CASE Bind(p)
    BY <1>2, <1>3, <2>1, <2>6 DEF Bind, BindRefused, Behind
  <2>7. CASE StopSignal(p)
    BY <1>2, <1>3, <2>1, <2>7 DEF StopSignal, At, Behind, sessionVars
  <2> QED
    BY <1>5, <2>2, <2>3, <2>4, <2>5, <2>6, <2>7 DEF RequestStep
<1>6. CASE TurnStep(p)
  <2>1. CASE InstallTurn(p)
    BY <1>3, <2>1 DEF InstallTurn, Behind, InTurn
  <2> QED
    BY <1>2, <1>6, <2>1
       DEF TurnStep, Dispatch, AcceptTurn, AbortExpires, BeginSettlement,
           CommitTurn, SignalTurnRuntime, DropTurnRuntime, FenceLostTransport,
           ClaimTurn, PublishTurnIdle, Unwind, At, Behind
<1> QED BY <1>4, <1>5, <1>6, OpMoves, NamesAssumption

LEMMA EndsAloneStep ==
  ASSUME Reads = {}, SessionInv, DoneIsOver, EndingSeen, TurnFresh, EndsAlone,
         [Next]_vars
  PROVE  EndsAlone'
<1> USE CyclesApart DEF SessionInv
<1> SUFFICES ASSUME NEW g \in Gens, EndsCycle(g)'
             PROVE  /\ runtime' = g \/ (closing' /\ runtime' = NoGen)
                    /\ \A p \in Prompts :
                         pc'[p] \in InTurn \ {"unwinding"} => Behind(p, g)'
  BY DEF EndsAlone
<1>1. CASE EndsCycle(g)
  BY <1>1, EndKeepsRuntime, BehindMoves
<1>2. CASE /\ RuntimeEnded(g) /\ runtime = g /\ UNCHANGED runtime
           /\ held'[g] = cycle
  <2>1. cycle \in Cycles /\ turn = None
    BY <1>2 DEF EndsCycle, OneForeground
  <2>2. ASSUME NEW p \in Prompts PROVE pc[p] \notin InTurn /\ p # None
    BY <2>1, NamesAssumption DEF CycleInv, TurnNamed, Ops
  <2>3. UNCHANGED pc
    BY <1>2 DEF RuntimeEnded, opVars
  <2> QED BY <1>2, <2>2, <2>3
<1> QED BY <1>1, <1>2, EndTaken

HostInv == Youngest /\ PromptPlaces /\ TurnSeen /\ EndsAlone

LEMMA HostHolds ==
  ASSUME EarlyWork = FALSE, Reads = {}, "turn" \notin Expiring
  PROVE  Spec => []HostInv
<1>1. Init => HostInv
  <2> SUFFICES ASSUME Init PROVE HostInv
    OBVIOUS
  <2>1. \A o \in Ops : pc[o] \in {"idle", "commit"}
    BY DEF Init
  <2>2. \A p \in Prompts : pc[p] = "idle"
    BY NamesAssumption DEF Init, Ops
  <2>3. Youngest
    BY <2>1 DEF Init, Youngest, Unopened
  <2>4. PromptPlaces /\ TurnSeen
    BY <2>2 DEF PromptPlaces, Places, TurnSeen, Told
  <2>5. EndsAlone
    BY DEF Init, EndsAlone, EndsCycle
  <2> QED BY <2>3, <2>4, <2>5 DEF HostInv
<1>2. ASSUME SessionInv, VerdictInv, AloneInv, AcceptedInv, OwedInv, HostInv,
             [Next]_vars
      PROVE  HostInv'
  BY <1>2, YoungestStep, PromptPlacesStep, TurnSeenStep, EndsAloneStep
     DEF HostInv, AloneInv, AcceptedInv, OwedInv
<1> QED
  BY <1>1, <1>2, SessionHolds, VerdictsHold, AloneHolds, AcceptedHolds, OwedHolds,
     PTL DEF Spec

-----------------------------------------------------------------------------
(* The steps of a session as steps of the stream its host relies on.       *)

\* A turn given up before its verdict stays given up.
LEMMA DroppedStays ==
  ASSUME SessionInv, [Next]_vars
  PROVE  Dropped \subseteq Dropped'
<1> SUFFICES ASSUME NEW p \in Prompts, pc[p] \in Told, ~terminal[p]
             PROVE  pc'[p] \in Told /\ ~terminal'[p]
  BY DEF Dropped, Told
<1> USE CyclesApart
    DEF SessionInv, TypeOK, RequestTypes, ForegroundTypes, Ops, Told
<1>1. CASE pc'[p] = pc[p] /\ terminal'[p] = terminal[p]
  BY <1>1
<1>2. CASE AcquireGate(p) \/ RequestStep(p)
  BY <1>2
     DEF AcquireGate, RequestStep, CheckBusy, EnsureRuntime, JoinEnding, Launch,
         Bind, OpenStream, StopSignal, StopJoin, UseRuntime, ReleaseGate, At, fgVars
<1>3. CASE TurnStep(p)
  BY <1>3
     DEF TurnStep, InstallTurn, Dispatch, AcceptTurn, AbortExpires,
         BeginSettlement, CommitTurn, SignalTurnRuntime, DropTurnRuntime,
         FenceLostTransport, ClaimTurn, PublishTurnIdle, Unwind, At, fgVars
<1> QED BY <1>1, <1>2, <1>3, PromptMoves

\* To whom the open incarnation may owe an idle: to the turn at work, to the
\* session's cycle, or to the cycle that ends with its runtime.
LEMMA OwedTo ==
  ASSUME SessionInv, AcceptedInv, HostInv, stream # NoGen, NEW f \in Foregrounds,
         acceptedIn[f] = stream, ~Ended(f), f \notin Dropped
  PROVE  \/ f \in Prompts /\ pc[f] \in InTurn \ {"unwinding"}
         \/ f \in Cycles /\ (cycle = f \/ \E g \in Gens : EndsCycle(g))
<1>1. stream # NotYet
  BY BoundsAssumption
     DEF SessionInv, TypeOK, StreamTypes, NotYet, NoGen, Gens
<1>2. CASE f \in Prompts
  <2>1. pc[f] \notin {"idle", "gated"}
    BY <1>1, <1>2 DEF AcceptedInv, TurnFresh, Reached
  <2>2. pc[f] \notin Told
    BY <1>2 DEF HostInv, TurnSeen, Dropped, Told
  <2> QED
    BY <1>2, <2>1, <2>2 DEF HostInv, PromptPlaces, Places, Told, InTurn
<1>3. CASE f \in Cycles
  BY <1>3 DEF SessionInv, AnnouncedInv, CycleOwed, EndsCycle
<1> QED BY <1>2, <1>3 DEF Foregrounds

\* A turn that is announced finds everything before it ended or given up.
LEMMA TurnAlone ==
  ASSUME SessionInv, AcceptedInv, HostInv, stream # NoGen, NEW p \in Prompts,
         pc[p] \in InTurn \ {"unwinding"}, acceptedIn[p] # stream,
         pc[p] = "accepting" \/ Reached(p),
         NEW f \in Foregrounds, acceptedIn[f] = stream
  PROVE  Ended(f) \/ f \in Dropped
<1>1. turn = p /\ p # None /\ cycle = None
  BY NamesAssumption
     DEF SessionInv, CycleInv, TurnNamed, OneForeground, Ops
<1>2. ASSUME NEW g \in Gens, EndsCycle(g) PROVE FALSE
  BY <1>2 DEF HostInv, EndsAlone, Behind
<1>3. f \in Prompts => pc[f] \notin InTurn
  BY <1>1 DEF SessionInv, CycleInv, TurnNamed
<1>4. f \in Cycles => cycle # f
  BY <1>1, CyclesApart
<1> QED BY <1>2, <1>3, <1>4, OwedTo

\* So does a cycle.
LEMMA CycleOpensAlone ==
  ASSUME SessionInv, AcceptedInv, HostInv, stream # NoGen, NEW g \in Gens,
         pump[g] = "opening", MayOpenCycle(g),
         NEW f \in Foregrounds, acceptedIn[f] = stream
  PROVE  Ended(f) \/ f \in Dropped
<1>1. turn = None /\ cycle = None /\ runtime = g /\ ~closing
  BY DEF MayOpenCycle
<1>2. ASSUME NEW h \in Gens, EndsCycle(h) PROVE FALSE
  BY <1>1, <1>2 DEF HostInv, EndsAlone, EndsCycle
<1>3. f \in Prompts => pc[f] \notin InTurn
  BY <1>1, NamesAssumption DEF SessionInv, CycleInv, TurnNamed, Ops
<1>4. f \in Cycles => cycle # f
  BY <1>1, CyclesApart
<1> QED BY <1>2, <1>3, <1>4, OwedTo

\* An acceptance on an open incarnation is an announcement there.
LEMMA AcceptMaps ==
  ASSUME TypeOK, NEW f \in Foregrounds, Accept(f), acceptedIn' # acceptedIn,
         UNCHANGED <<stream, terminals>>, stream # NoGen,
         \/ f \in Dropped
         \/ \A h \in Foregrounds : acceptedIn[h] = stream => Ended(h) \/ h \in Dropped
  PROVE  Host!Announce(f)
<1> USE DEF TypeOK, StreamTypes
<1>1. acceptedIn[f] = NotYet /\ acceptedIn' = [acceptedIn EXCEPT ![f] = stream]
  BY DEF Accept
<1>2. NotYet \notin Gens /\ stream \in Gens /\ NoGen = 0
  BY BoundsAssumption DEF NotYet, NoGen, Gens
<1>3. Seen[f] = 0 /\ Seen' = [Seen EXCEPT ![f] = stream]
  BY <1>1, <1>2 DEF Seen
<1>4. Host!Owed = {} \/ f \in Dropped
  BY <1>2 DEF Host!Owed, Seen, Ended
<1> QED BY <1>2, <1>3, <1>4 DEF Host!Announce

LEMMA AnnounceMaps ==
  ASSUME SessionInv, AcceptedInv, OwedInv, HostInv, [Next]_vars,
         acceptedIn' # acceptedIn, stream # NoGen
  PROVE  \E f \in Foregrounds : Host!Announce(f)
<1> USE CyclesApart DEF SessionInv
<1>1. UNCHANGED <<stream, terminals>>
  BY Announces
<1>2. stream # NotYet
  BY BoundsAssumption DEF TypeOK, StreamTypes, NotYet, NoGen, Gens
<1>3. ASSUME NEW p \in Prompts, AcceptTurn(p) PROVE Host!Announce(p)
  <2>1. p \in Foregrounds /\ pc[p] = "accepting" /\ Accept(p)
    BY <1>3 DEF AcceptTurn, At, Foregrounds
  <2>2. acceptedIn[p] = NotYet
    BY <2>1 DEF Accept
  <2>3. \A h \in Foregrounds : acceptedIn[h] = stream => Ended(h) \/ h \in Dropped
    BY <1>2, <2>1, <2>2, TurnAlone DEF InTurn
  <2> QED BY <1>1, <2>1, <2>3, AcceptMaps
<1>4. ASSUME NEW g \in Gens, Apply(g), held[g] \in Prompts, Accept(held[g])
      PROVE  Host!Announce(held[g])
  <2> DEFINE p == held[g]
  <2>1. p \in Foregrounds /\ acceptedIn[p] = NotYet
    BY <1>4 DEF Accept, Foregrounds
  <2>2. pump[g] = "apply"
    BY <1>4 DEF Apply, SettlesCycle, CycleStages
  <2>3. Reached(p) /\ ~terminal[p]
    BY <1>4, <2>1, <2>2 DEF Reached, OwedInv, TurnJudged
  <2>4. pc[p] \notin {"idle", "gated"}
    BY <1>4, <2>3 DEF AcceptedInv, TurnFresh
  <2>5. CASE p \in Dropped
    BY <1>1, <1>4, <2>1, <2>5, AcceptMaps
  <2>6. CASE p \notin Dropped
    <3>1. pc[p] \in InTurn \ {"unwinding"}
      BY <1>4, <2>3, <2>4, <2>6
         DEF Dropped, HostInv, PromptPlaces, Places, InTurn
    <3>2. \A h \in Foregrounds : acceptedIn[h] = stream => Ended(h) \/ h \in Dropped
      BY <1>2, <1>4, <2>1, <2>3, <3>1, TurnAlone
    <3> QED BY <1>1, <1>4, <2>1, <3>2, AcceptMaps
  <2> QED BY <2>5, <2>6
<1>5. ASSUME NEW g \in Gens, OpenCycle(g), MayOpenCycle(g)
      PROVE  cycles + 1 \in Foregrounds /\ Host!Announce(cycles + 1)
  <2>1. cycles \in Nat /\ cycles < MaxEvents /\ MaxEvents \in Nat
    BY <1>5, BoundsAssumption DEF OpenCycle, TypeOK, BoundTypes
  <2>2. cycles + 1 \in Foregrounds /\ Accept(cycles + 1) /\ pump[g] = "opening"
    BY <1>5, <2>1 DEF OpenCycle, Foregrounds, Cycles
  <2>3. \A h \in Foregrounds : acceptedIn[h] = stream => Ended(h) \/ h \in Dropped
    BY <1>5, <2>2, CycleOpensAlone
  <2> QED BY <1>1, <2>2, <2>3, AcceptMaps
<1> QED BY <1>3, <1>4, <1>5, Announces DEF Foregrounds

\* A terminal idle is one its incarnation owes, or says again what was said, and
\* comes alone.
LEMMA EndMaps ==
  ASSUME SessionInv, TerminalWhereAccepted', [Next]_vars, terminals' # terminals
  PROVE  /\ \/ \E f \in Foregrounds : Host!End(f)
            \/ UNCHANGED <<Seen, {t.fg : t \in terminals}>>
         /\ UNCHANGED stream \/ (stream # NoGen /\ stream' = NoGen)
<1> USE CyclesApart DEF SessionInv
<1>1. PICK t \in terminals' : t \notin terminals
  BY TerminalsGrow
<1>2. terminals' = terminals \cup {t}
  <2>1. PICK x : terminals' \subseteq terminals \cup {x}
    BY OneTerminal
  <2> QED BY <1>1, <2>1, TerminalsGrow
<1>3. UNCHANGED acceptedIn
  BY Announces
<1>4. stream # NoGen /\ t.inc = stream
  BY <1>1, NewTerminals
<1>5. acceptedIn[t.fg] = stream
  BY <1>1, <1>3, <1>4 DEF TerminalWhereAccepted
<1>6. t.fg \in Foregrounds /\ t.fg \notin Dropped
  <2>1. ASSUME NEW p \in Prompts, PublishTurnIdle(p), t.fg = p
        PROVE  t.fg \in Foregrounds /\ t.fg \notin Dropped
    BY <2>1 DEF PublishTurnIdle, At, Dropped, Foregrounds
  <2>2. t.fg \in Cycles => t.fg \in Foregrounds /\ t.fg \notin Dropped
    BY DEF Dropped, Foregrounds
  <2> QED BY <1>1, <2>1, <2>2, NewTerminals
<1>7. stream \in Gens /\ NoGen = 0 /\ 0 \notin Gens
  BY <1>4 DEF TypeOK, StreamTypes, NoGen, Gens
<1>8. {x.fg : x \in terminals'} = {x.fg : x \in terminals} \cup {t.fg}
  BY <1>2
<1>9. ~Ended(t.fg) => t.fg \in Host!Owed
  BY <1>5, <1>6, <1>7 DEF Host!Owed, Seen, Ended
<1>10. UNCHANGED Seen
  BY <1>3 DEF Seen
<1>11. stream' \in {stream, NoGen}
  <2>1. ASSUME NEW p \in Prompts, PublishTurnIdle(p) PROVE UNCHANGED stream
    BY <2>1 DEF PublishTurnIdle
  <2>2. ASSUME CycleEnds(t.fg) PROVE stream' \in {stream, NoGen}
    BY <2>2 DEF CycleEnds, PublishCycleIdle, EndForeground, CloseFence, Fence
  <2> QED BY <1>1, <2>1, <2>2, NewTerminals
<1> QED BY <1>4, <1>6, <1>8, <1>9, <1>10, <1>11 DEF Host!End, Ended

\* Every step of a session is a step of its host's stream or none.
LEMMA StepMaps ==
  ASSUME SessionInv, AcceptedInv, OwedInv, HostInv,
         TerminalWhereAccepted', [Next]_vars
  PROVE  Host!HostNext
<1> USE DEF SessionInv
<1>1. Dropped \subseteq Dropped'
  BY DroppedStays
<1>2. NoGen = 0 /\ stream \in Gens \cup {NoGen} /\ Gens = 1..MaxGen
      /\ NotYet \notin Gens /\ 0 \notin Gens
  BY BoundsAssumption DEF TypeOK, StreamTypes, NoGen, Gens, NotYet
<1>3. CASE acceptedIn' # acceptedIn /\ stream # NoGen
  <2>1. \E f \in Foregrounds : Host!Announce(f)
    BY <1>3, AnnounceMaps
  <2> QED BY <1>1, <2>1 DEF Host!HostNext
<1>4. CASE acceptedIn' # acceptedIn /\ stream = NoGen
  <2>1. UNCHANGED <<stream, terminals>>
    BY <1>4, Announces
  <2>2. UNCHANGED Seen
    <3>1. ASSUME NEW f \in Foregrounds
          PROVE  \/ acceptedIn'[f] = acceptedIn[f]
                 \/ acceptedIn[f] \notin Gens /\ acceptedIn'[f] = NoGen
      BY <1>2, <1>4, AcceptMoves
    <3> QED BY <1>2, <3>1 DEF Seen
  <2> QED BY <1>1, <2>1, <2>2 DEF Host!HostNext
<1>5. CASE terminals' # terminals
  <2>1. /\ \/ \E f \in Foregrounds : Host!End(f)
           \/ UNCHANGED <<Seen, {t.fg : t \in terminals}>>
        /\ UNCHANGED stream \/ (stream # NoGen /\ stream' = NoGen)
    BY <1>5, EndMaps
  <2> QED
    BY <1>1, <1>2, <2>1 DEF Host!HostNext, Host!StillOpen, Host!FenceStream
<1>6. CASE UNCHANGED <<acceptedIn, terminals>>
  <2>1. UNCHANGED Seen
    BY <1>6 DEF Seen
  <2>2. CASE stream' = stream
    BY <1>1, <1>6, <2>1, <2>2 DEF Host!HostNext
  <2>3. CASE stream # NoGen /\ stream' = NoGen
    BY <1>1, <1>2, <1>6, <2>1, <2>3 DEF Host!HostNext, Host!FenceStream
  <2>4. CASE ~StreamKeptOrFenced
    <3>1. /\ stream = NoGen /\ stream' \in Gens
          /\ \A f \in Foregrounds :
               acceptedIn[f] # NotYet => acceptedIn[f] < stream'
      BY <2>4, OpensLater DEF HostInv
    <3>2. \A f \in Foregrounds : Seen[f] < stream'
      BY <1>2, <3>1 DEF Seen
    <3>3. Host!Open(stream')
      BY <1>2, <1>6, <2>1, <3>1, <3>2 DEF Host!Open
    <3> QED BY <1>1, <1>2, <3>1, <3>3 DEF Host!HostNext
  <2> QED BY <2>2, <2>3, <2>4 DEF StreamKeptOrFenced
<1> QED BY <1>3, <1>4, <1>5, <1>6

LEMMA StartMaps == Init => Host!HostInit
<1> SUFFICES ASSUME Init PROVE Host!HostInit
  OBVIOUS
<1>1. NotYet \notin Gens
  BY BoundsAssumption DEF NotYet, Gens
<1>2. Seen = [f \in Foregrounds |-> 0]
  BY <1>1 DEF Init, Seen, NoGen
<1>3. Dropped = {}
  BY NamesAssumption DEF Init, Dropped, Ops
<1> QED BY <1>2, <1>3 DEF Init, Host!HostInit, NoGen

\* A session implements the stream its host relies on: the host sees incarnations
\* one after the other, and on each of them foregrounds one after the other, every
\* one announced before it ends and ended once, on the incarnation that announced
\* it, whatever the prompts, the pumps, lost processes, relaunches and the ladder
\* do together.  The assumptions are those of EndsWhereAccepted.
THEOREM SessionImplementsHost ==
  ASSUME EarlyWork = FALSE, Reads = {}, "turn" \notin Expiring
  PROVE  Spec => HostSeesTurnByTurn
<1>1. ASSUME SessionInv, AcceptedInv, OwedInv, HostInv,
             TerminalWhereAccepted', [Next]_vars
      PROVE  [Host!HostNext]_(Host!hostVars)
  BY <1>1, StepMaps
<1> QED
  BY <1>1, StartMaps, SessionHolds, AcceptedHolds, OwedHolds, HostHolds,
     EndsWhereAccepted, PTL
     DEF Spec, HostSeesTurnByTurn, Host!HostSpec
=============================================================================
