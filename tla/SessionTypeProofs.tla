-------------------------- MODULE SessionTypeProofs --------------------------
(***************************************************************************)
(* Type correctness of a session, for every value of the constants.        *)
(* TypeOK is not inductive by itself: a pump that is applying or settling  *)
(* a frame relies on having attributed it to a foreground, and on the      *)
(* frame still being at the head of its queue.  PumpHolds says so.         *)
(***************************************************************************)
EXTENDS SessionProperties, TLAPS

\* The stages of a pump that works for a foreground.
Holders ==
  {"opened", "apply", "delivering", "settling", "signalling", "dropping",
   "claiming", "publishing", "clearing"}

\* A pump at one of them holds a foreground, and the frame it has not finished.
PumpHolds ==
  \A g \in Gens :
    /\ pump[g] \in Holders => held[g] \in Foregrounds
    /\ pump[g] \in Holders \cup {"opening"} => out[g] # <<>>

-----------------------------------------------------------------------------
(* What the shared steps of the model preserve.                            *)

\* Appending an element to one queue keeps a family of queues typed.
LEMMA AppendTyped ==
  ASSUME NEW S, NEW f \in [Gens -> Seq(S)], NEW g \in Gens, NEW e \in S
  PROVE  [f EXCEPT ![g] = Append(@, e)] \in [Gens -> Seq(S)]
<1>1. Append(f[g], e) \in Seq(S)
  OBVIOUS
<1> QED BY <1>1

\* So does taking the head of a queue that is not empty.
LEMMA TailTyped ==
  ASSUME NEW S, NEW f \in [Gens -> Seq(S)], NEW g \in Gens, f[g] # <<>>
  PROVE  [f EXCEPT ![g] = Tail(@)] \in [Gens -> Seq(S)]
<1>1. Tail(f[g]) \in Seq(S)
  OBVIOUS
<1> QED BY <1>1

\* A pump that is done with its frame leaves well-typed queues behind.
LEMMA RoutedTyped ==
  ASSUME RuntimeTypes, NEW g \in Gens, out[g] # <<>>, Routed(g)
  PROVE  /\ out' \in [Gens -> Seq(Frames)]
         /\ pump' \in [Gens -> PumpPc]
         /\ held' \in [Gens -> Foregrounds \cup {None}]
<1>1. out' \in [Gens -> Seq(Frames)]
  BY TailTyped DEF Routed, RuntimeTypes
<1>2. pump' \in [Gens -> PumpPc]
  BY DEF Routed, RuntimeTypes, PumpPc
<1>3. held' \in [Gens -> Foregrounds \cup {None}]
  BY DEF Routed, RuntimeTypes
<1> QED BY <1>1, <1>2, <1>3

\* A terminal idle is recorded only on an open incarnation (Publisher.Idle).
LEMMA PublishIdleTyped ==
  ASSUME StreamTypes, NEW f \in Foregrounds, NEW v \in Answers,
         PublishIdle(f, v)
  PROVE  terminals' \subseteq [fg : Foregrounds, inc : Gens, outcome : Answers,
                               durable : BOOLEAN]
<1>1. CASE stream = NoGen
  BY <1>1 DEF PublishIdle, StreamTypes
<1>2. CASE stream # NoGen
  <2>1. stream \in Gens
    BY <1>2 DEF StreamTypes
  <2>2. [fg |-> f, inc |-> stream, outcome |-> v, durable |-> f \notin dirty]
          \in [fg : Foregrounds, inc : Gens, outcome : Answers,
               durable : BOOLEAN]
    BY <2>1
  <2> QED BY <1>2, <2>2 DEF PublishIdle, StreamTypes
<1> QED BY <1>1, <1>2

\* The foreground a frame or a cancellation is attributed to.
LEMMA ForegroundTyped ==
  ASSUME RequestTypes PROVE Foreground \in Foregrounds \cup {None}
BY DEF RequestTypes, Foreground, Foregrounds

\* The name of the next agent-origin cycle, within the bound.
LEMMA NextCycle ==
  ASSUME BoundTypes, cycles < MaxEvents
  PROVE  /\ cycles + 1 \in Cycles /\ cycles + 1 \in 0..MaxEvents
         /\ cycles + 1 \in Foregrounds
BY BoundsAssumption DEF BoundTypes, Cycles, Foregrounds

\* A frame claude writes, appended to its output.
LEMMA WriteTyped ==
  ASSUME RuntimeTypes, NEW g \in Gens, NEW kind \in {"work", "result", "drift"},
         NEW run \in Runs, Write(g, kind, run)
  PROVE  out' \in [Gens -> Seq(Frames)]
<1>1. [kind |-> kind, run |-> run] \in Frames
  BY DEF Frames
<1> QED BY <1>1, AppendTyped DEF Write, RuntimeTypes

\* The run claude executes is one that was queued.
LEMMA QueuedRun ==
  ASSUME RuntimeTypes, NEW g \in Gens, runs[g] # <<>>
  PROVE  Head(runs[g]) \in Runs
BY DEF RuntimeTypes

\* A request moves from one stage to another.
LEMMA AtTyped ==
  ASSUME RequestTypes, NEW o \in Ops, NEW from, NEW to \in OpPc, At(o, from, to)
  PROVE  pc' \in [Ops -> OpPc]
BY DEF At, RequestTypes

\* A request leaves with an answer.
LEMMA LeaveTyped ==
  ASSUME RequestTypes, NEW o \in Ops, NEW a \in Answers, Leave(o, a)
  PROVE  pc' \in [Ops -> OpPc] /\ answer' \in [Ops -> Answers]
BY DEF Leave, RequestTypes, OpPc

\* A request that fails before dispatch leaves with an answer.
LEMMA FailTyped ==
  ASSUME RequestTypes, NEW o \in Ops, Fail(o)
  PROVE  pc' \in [Ops -> OpPc] /\ answer' \in [Ops -> Answers]
BY LeaveTyped DEF Fail, Answers

\* A commit, successful or not.
LEMMA CommitTyped ==
  ASSUME RequestTypes, StreamTypes, CommitOk \/ CommitFails
  PROVE  persisted' \in BOOLEAN /\ dirty' \subseteq Foregrounds
BY DEF CommitOk, CommitFails, RequestTypes, StreamTypes

\* The fault budget is never exceeded.
LEMMA FaultTyped ==
  ASSUME BoundTypes, Fault \/ NoFault
  PROVE  faults' \in 0..MaxFaults
BY BoundsAssumption DEF Fault, NoFault, BoundTypes

\* Signalling a generation.
LEMMA SignalTyped ==
  ASSUME RuntimeTypes, NEW g, Signal(g)
  PROVE  proc' \in [Gens -> {"none", "running", "exited"}]
BY DEF Signal, RuntimeTypes

\* Unbinding a generation.
LEMMA DropRuntimeTyped ==
  ASSUME RuntimeTypes, NEW g \in Gens \cup {NoGen}, DropRuntime(g)
  PROVE  runtime' \in Gens \cup {NoGen} /\ retired' \in Gens \cup {NoGen}
BY DEF DropRuntime, RuntimeTypes

\* Settling a turn.
LEMMA SettleTyped ==
  ASSUME ForegroundTypes, NEW p, NEW end \in {"settled", "transport"},
         Settle(p, end)
  PROVE  ended' \in [Prompts -> {"running", "settled", "transport"}]
BY DEF Settle, ForegroundTypes

\* Announcing a foreground.
LEMMA AcceptTyped ==
  ASSUME StreamTypes, NEW f, Accept(f)
  PROVE  acceptedIn' \in [Foregrounds -> Gens \cup {NoGen, NotYet}]
BY DEF Accept, StreamTypes

\* An interrupt that reaches claude.
LEMMA InterruptTyped ==
  ASSUME BoundTypes, NEW g, NEW f \in Foregrounds, Interrupt(g, f)
  PROVE  strays' \subseteq Foregrounds \X Prompts
BY DEF Interrupt, BoundTypes

\* The native run queue after claude wrote a frame.
LEMMA EmitRuns ==
  ASSUME RuntimeTypes, NEW g \in Gens, Emit(g)
  PROVE  runs' \in [Gens -> Seq(Runs)]
<1>1. runs \in [Gens -> Seq(Runs)]
  BY DEF RuntimeTypes
<1>2. \/ runs' = runs
      \/ runs' = [runs EXCEPT ![g] = <<Agent>>]
      \/ runs[g] # <<>> /\ runs' = [runs EXCEPT ![g] = Tail(@)]
  BY DEF Emit
<1>3. <<Agent>> \in Seq(Runs)
  BY DEF Runs
<1>4. CASE runs' = [runs EXCEPT ![g] = <<Agent>>]
  BY <1>1, <1>3, <1>4
<1>5. CASE runs[g] # <<>> /\ runs' = [runs EXCEPT ![g] = Tail(@)]
  <2>1. [runs EXCEPT ![g] = Tail(@)] \in [Gens -> Seq(Runs)]
    BY <1>1, <1>5, TailTyped, Zenon
  <2> QED BY <1>5, <2>1
<1> QED BY <1>1, <1>2, <1>4, <1>5

\* The native run queue after a prompt was written to stdin.
LEMMA DispatchRuns ==
  ASSUME RuntimeTypes, NEW p \in Prompts, Dispatch(p)
  PROVE  runs' \in [Gens -> Seq(Runs)]
<1>1. runs' = runs \/ runs' = [runs EXCEPT ![bound[p]] = Append(@, p)]
  BY DEF Dispatch
<1>2. p \in Runs /\ runs \in [Gens -> Seq(Runs)]
  BY DEF Runs, RuntimeTypes
<1>3. CASE bound[p] \in Gens
  <2>1. [runs EXCEPT ![bound[p]] = Append(@, p)] \in [Gens -> Seq(Runs)]
    BY <1>2, <1>3, AppendTyped, Zenon
  <2> QED BY <1>1, <1>2, <2>1
<1>4. CASE bound[p] \notin Gens
  <2>1. [runs EXCEPT ![bound[p]] = Append(@, p)] = runs
    BY <1>2, <1>4
  <2> QED BY <1>1, <1>2, <2>1
<1> QED BY <1>3, <1>4

\* A step that leaves the variables of a group alone keeps its types: requests,
LEMMA RequestKept ==
  ASSUME RequestTypes, UNCHANGED <<gate, turn, cycle, closing, persisted,
                                   poisoned, opVars>>
  PROVE  RequestTypes'
BY DEF RequestTypes, opVars

\* foregrounds,
LEMMA ForegroundKept ==
  ASSUME ForegroundTypes, UNCHANGED <<callbacks, fgVars>>
  PROVE  ForegroundTypes'
BY DEF ForegroundTypes, fgVars

\* the lifecycle stream,
LEMMA StreamKept ==
  ASSUME StreamTypes, UNCHANGED pubVars
  PROVE  StreamTypes'
BY DEF StreamTypes, pubVars

\* process generations,
LEMMA RuntimeKept ==
  ASSUME RuntimeTypes, UNCHANGED <<runtime, retired, pumpVars, nativeVars>>
  PROVE  RuntimeTypes'
BY DEF RuntimeTypes, pumpVars, nativeVars

\* the shutdown ladder,
LEMMA CloseKept ==
  ASSUME CloseTypes, UNCHANGED closeVars
  PROVE  CloseTypes'
BY DEF CloseTypes, closeVars

\* bounds and histories,
LEMMA BoundKept ==
  ASSUME BoundTypes, UNCHANGED <<ghostVars, faults>>
  PROVE  BoundTypes'
BY DEF BoundTypes, ghostVars

\* and what the pumps hold.
LEMMA PumpKept ==
  ASSUME PumpHolds, UNCHANGED <<pump, held, out>>
  PROVE  PumpHolds'
BY DEF PumpHolds

-----------------------------------------------------------------------------
(* The steps, one case per action.                                         *)

\* Every variable starts with its type, and no pump holds a frame.
LEMMA InitTyped == Init => TypeOK /\ PumpHolds
<1> SUFFICES ASSUME Init PROVE TypeOK /\ PumpHolds
  OBVIOUS
<1>1. RequestTypes
  BY BoundsAssumption
     DEF Init, RequestTypes, Ops, OpPc, Answers, NoGen, Gens
<1>2. ForegroundTypes
  BY DEF Init, ForegroundTypes
<1>3. StreamTypes
  BY DEF Init, StreamTypes
<1>4. RuntimeTypes
  BY BoundsAssumption DEF Init, RuntimeTypes, Gens, NoGen, PumpPc
<1>5. CloseTypes
  BY DEF Init, CloseTypes, ClosePc
<1>6. BoundTypes
  BY BoundsAssumption DEF Init, BoundTypes
<1>7. PumpHolds
  BY DEF Init, PumpHolds, Holders
<1> QED BY <1>1, <1>2, <1>3, <1>4, <1>5, <1>6, <1>7 DEF TypeOK

\* The establishment: its first commit and its opening.
LEMMA EstablishmentTyped ==
  ASSUME TypeOK, PumpHolds, EstablishCommit \/ EstablishOpen
  PROVE  TypeOK' /\ PumpHolds'
<1> USE DEF sessionVars, fgVars, pubVars, opVars, pumpVars, nativeVars,
            closeVars, ghostVars
<1>1. CASE EstablishCommit
  <2>1. gate' \in Ops \cup {Closer, None} /\ pc' \in [Ops -> OpPc]
    BY <1>1 DEF EstablishCommit, AbandonedGate, TypeOK, RequestTypes, OpPc
  <2>2. persisted' \in BOOLEAN /\ dirty' \subseteq Foregrounds
    BY <1>1, CommitTyped DEF EstablishCommit, TypeOK
  <2>3. faults' \in 0..MaxFaults
    BY <1>1, FaultTyped DEF EstablishCommit, CommitFails, TypeOK
  <2>4. UNCHANGED <<bound, answer, turn, cycle, closing, poisoned, callbacks,
                   stream, acceptedIn, terminals, runtime, retired, fgVars,
                   pumpVars, nativeVars, closeVars, ghostVars>>
    BY <1>1 DEF EstablishCommit
  <2> QED
    <3>1. RequestTypes'
      BY <2>1, <2>2, <2>4 DEF TypeOK, RequestTypes
    <3>2. StreamTypes'
      BY <2>2, <2>4 DEF TypeOK, StreamTypes
    <3>3. BoundTypes'
      BY <2>3, <2>4 DEF TypeOK, BoundTypes
    <3> QED
      BY <3>1, <3>2, <3>3, <2>4, ForegroundKept, RuntimeKept, CloseKept,
        PumpKept DEF TypeOK
<1>2. CASE EstablishOpen
  <2>1. gate' \in Ops \cup {Closer, None} /\ pc' \in [Ops -> OpPc]
    BY <1>2 DEF EstablishOpen, AbandonedGate, TypeOK, RequestTypes, OpPc
  <2>2. stream' \in Gens \cup {NoGen}
    BY <1>2, BoundsAssumption DEF EstablishOpen, TypeOK, StreamTypes, Gens
  <2>3. faults' \in 0..MaxFaults
    BY <1>2, FaultTyped DEF EstablishOpen, TypeOK
  <2>4. UNCHANGED <<bound, answer, callbacks, acceptedIn, terminals, dirty,
                   sessionVars, fgVars, pumpVars, nativeVars, closeVars,
                   ghostVars>>
    BY <1>2 DEF EstablishOpen
  <2> QED
    <3>1. RequestTypes'
      BY <2>1, <2>4 DEF TypeOK, RequestTypes
    <3>2. StreamTypes'
      BY <2>2, <2>4 DEF TypeOK, StreamTypes
    <3>3. BoundTypes'
      BY <2>3, <2>4 DEF TypeOK, BoundTypes
    <3> QED
      BY <3>1, <3>2, <3>3, <2>4, ForegroundKept, RuntimeKept, CloseKept,
        PumpKept DEF TypeOK
<1> QED BY <1>1, <1>2

\* A request: admission, the runtime it needs, and its way out.
LEMMA RequestTyped ==
  ASSUME TypeOK, PumpHolds, NEW o \in Ops, AcquireGate(o) \/ RequestStep(o)
  PROVE  TypeOK' /\ PumpHolds'
<1> USE DEF sessionVars, fgVars, pubVars, opVars, pumpVars, nativeVars,
            closeVars, ghostVars
<1>1. CASE AcquireGate(o)
  <2>1. gate' \in Ops \cup {Closer, None}
    BY <1>1 DEF AcquireGate, TypeOK, RequestTypes
  <2>2. pc' \in [Ops -> OpPc] /\ answer' \in [Ops -> Answers]
    BY <1>1 DEF AcquireGate, TypeOK, RequestTypes, OpPc, Answers
  <2>3. UNCHANGED <<bound, callbacks, faults, sessionVars, fgVars, pubVars,
                   pumpVars, nativeVars, closeVars, ghostVars>>
    BY <1>1 DEF AcquireGate
  <2> QED
    <3>1. RequestTypes'
      BY <2>1, <2>2, <2>3 DEF TypeOK, RequestTypes
    <3> QED
      BY <3>1, <2>3, ForegroundKept, StreamKept, RuntimeKept, CloseKept,
        BoundKept, PumpKept DEF TypeOK
<1>2. CASE CheckBusy(o)
  <2>1. pc' \in [Ops -> OpPc] /\ answer' \in [Ops -> Answers]
    BY <1>2, LeaveTyped DEF CheckBusy, TypeOK, RequestTypes, OpPc, Answers
  <2>2. UNCHANGED <<gate, bound, callbacks, faults, sessionVars, fgVars,
                   pubVars, pumpVars, nativeVars, closeVars, ghostVars>>
    BY <1>2 DEF CheckBusy
  <2> QED
    <3>1. RequestTypes'
      BY <2>1, <2>2 DEF TypeOK, RequestTypes
    <3> QED
      BY <3>1, <2>2, ForegroundKept, StreamKept, RuntimeKept, CloseKept,
        BoundKept, PumpKept DEF TypeOK
<1>3. CASE EnsureRuntime(o)
  <2>1. pc' \in [Ops -> OpPc]
    BY <1>3, FailTyped DEF EnsureRuntime, Served, TypeOK, RequestTypes, OpPc
  <2>2. answer' \in [Ops -> Answers]
    BY <1>3, FailTyped DEF EnsureRuntime, TypeOK, RequestTypes
  <2>3. bound' \in [Ops -> Gens \cup {NoGen}]
    BY <1>3 DEF EnsureRuntime, TypeOK, RequestTypes, RuntimeTypes
  <2>4. faults' \in 0..MaxFaults
    BY <1>3, FaultTyped DEF EnsureRuntime, TypeOK
  <2>5. UNCHANGED <<gate, callbacks, sessionVars, fgVars, pubVars, pumpVars,
                   nativeVars, closeVars, ghostVars>>
    BY <1>3 DEF EnsureRuntime
  <2> QED
    <3>1. RequestTypes'
      BY <2>1, <2>2, <2>3, <2>5 DEF TypeOK, RequestTypes
    <3>2. BoundTypes'
      BY <2>4, <2>5 DEF TypeOK, BoundTypes
    <3> QED
      BY <3>1, <3>2, <2>5, ForegroundKept, StreamKept, RuntimeKept, CloseKept,
        PumpKept DEF TypeOK
<1>4. CASE JoinEnding(o)
  <2>1. pc' \in [Ops -> OpPc] /\ answer' \in [Ops -> Answers]
    BY <1>4, FailTyped DEF JoinEnding, TypeOK, RequestTypes, OpPc
  <2>2. UNCHANGED <<gate, bound, callbacks, faults, sessionVars, fgVars,
                   pubVars, pumpVars, nativeVars, closeVars, ghostVars>>
    BY <1>4 DEF JoinEnding
  <2> QED
    <3>1. RequestTypes'
      BY <2>1, <2>2 DEF TypeOK, RequestTypes
    <3> QED
      BY <3>1, <2>2, ForegroundKept, StreamKept, RuntimeKept, CloseKept,
        BoundKept, PumpKept DEF TypeOK
<1>5. CASE Launch(o)
  <2>1. gens < MaxGen => gens + 1 \in Gens
    BY BoundsAssumption DEF TypeOK, RuntimeTypes, Gens
  <2>2. pc' \in [Ops -> OpPc]
    BY <1>5, FailTyped DEF Launch, TypeOK, RequestTypes, OpPc
  <2>3. answer' \in [Ops -> Answers]
    BY <1>5, FailTyped DEF Launch, TypeOK, RequestTypes
  <2>4. bound' \in [Ops -> Gens \cup {NoGen}]
    BY <1>5, <2>1 DEF Launch, TypeOK, RequestTypes
  <2>5. gens' \in Gens /\ retired' \in Gens \cup {NoGen}
    BY <1>5, <2>1 DEF Launch, TypeOK, RuntimeTypes
  <2>6. proc' \in [Gens -> {"none", "running", "exited"}]
    BY <1>5 DEF Launch, TypeOK, RuntimeTypes
  <2>7. faults' \in 0..MaxFaults
    BY <1>5, FaultTyped DEF Launch, TypeOK
  <2>8. UNCHANGED <<gate, turn, cycle, closing, persisted, poisoned, callbacks,
                   runtime, out, runs, fgVars, pubVars, pumpVars, closeVars,
                   ghostVars>>
    BY <1>5 DEF Launch
  <2> QED
    <3>1. RequestTypes'
      BY <2>2, <2>3, <2>4, <2>8 DEF TypeOK, RequestTypes
    <3>2. RuntimeTypes'
      BY <2>5, <2>6, <2>8 DEF TypeOK, RuntimeTypes
    <3>3. BoundTypes'
      BY <2>7, <2>8 DEF TypeOK, BoundTypes
    <3> QED
      BY <3>1, <3>2, <3>3, <2>8, ForegroundKept, StreamKept, CloseKept,
        PumpKept DEF TypeOK
<1>6. CASE Bind(o)
  <2>1. pc' \in [Ops -> OpPc]
    BY <1>6 DEF Bind, TypeOK, RequestTypes, OpPc
  <2>2. runtime' \in Gens \cup {NoGen}
    BY <1>6 DEF Bind, TypeOK, RequestTypes, RuntimeTypes
  <2>3. done' \in [Gens -> BOOLEAN] /\ pump' \in [Gens -> PumpPc]
    BY <1>6 DEF Bind, TypeOK, RuntimeTypes, PumpPc
  <2>4. PumpHolds'
    BY <1>6 DEF Bind, TypeOK, RuntimeTypes, PumpHolds, Holders
  <2>5. UNCHANGED <<gate, bound, answer, turn, cycle, closing, persisted,
                   poisoned, callbacks, retired, ending, held, faults, fgVars,
                   pubVars, nativeVars, closeVars, ghostVars>>
    BY <1>6 DEF Bind
  <2> QED
    <3>1. RequestTypes'
      BY <2>1, <2>5 DEF TypeOK, RequestTypes
    <3>2. RuntimeTypes'
      BY <2>2, <2>3, <2>5 DEF TypeOK, RuntimeTypes
    <3> QED
      BY <3>1, <3>2, <2>4, <2>5, ForegroundKept, StreamKept, CloseKept,
        BoundKept DEF TypeOK
<1>7. CASE OpenStream(o)
  <2>1. pc' \in [Ops -> OpPc]
    BY <1>7, FailTyped DEF OpenStream, Served, TypeOK, RequestTypes, OpPc
  <2>2. answer' \in [Ops -> Answers]
    BY <1>7, FailTyped DEF OpenStream, TypeOK, RequestTypes
  <2>3. stream' \in Gens \cup {NoGen}
    BY <1>7 DEF OpenStream, Openable, TypeOK, StreamTypes, RuntimeTypes
  <2>4. faults' \in 0..MaxFaults
    BY <1>7, FaultTyped DEF OpenStream, TypeOK
  <2>5. UNCHANGED <<gate, bound, callbacks, acceptedIn, terminals, dirty,
                   sessionVars, fgVars, pumpVars, nativeVars, closeVars,
                   ghostVars>>
    BY <1>7 DEF OpenStream
  <2> QED
    <3>1. RequestTypes'
      BY <2>1, <2>2, <2>5 DEF TypeOK, RequestTypes
    <3>2. StreamTypes'
      BY <2>3, <2>5 DEF TypeOK, StreamTypes
    <3>3. BoundTypes'
      BY <2>4, <2>5 DEF TypeOK, BoundTypes
    <3> QED
      BY <3>1, <3>2, <3>3, <2>5, ForegroundKept, RuntimeKept, CloseKept,
        PumpKept DEF TypeOK
<1>8. CASE StopSignal(o)
  <2>1. pc' \in [Ops -> OpPc]
    BY <1>8, AtTyped DEF StopSignal, TypeOK, OpPc
  <2>2. proc' \in [Gens -> {"none", "running", "exited"}]
    BY <1>8, SignalTyped DEF StopSignal, TypeOK
  <2>3. UNCHANGED <<gate, bound, answer, callbacks, gens, out, runs, faults,
                   sessionVars, fgVars, pubVars, pumpVars, closeVars,
                   ghostVars>>
    BY <1>8 DEF StopSignal
  <2> QED
    <3>1. RequestTypes'
      BY <2>1, <2>3 DEF TypeOK, RequestTypes
    <3>2. RuntimeTypes'
      BY <2>2, <2>3 DEF TypeOK, RuntimeTypes
    <3> QED
      BY <3>1, <3>2, <2>3, ForegroundKept, StreamKept, CloseKept, BoundKept,
        PumpKept DEF TypeOK
<1>9. CASE StopJoin(o)
  <2>1. pc' \in [Ops -> OpPc] /\ answer' \in [Ops -> Answers]
    BY <1>9, FailTyped DEF StopJoin, TypeOK
  <2>2. bound[o] \in Gens \cup {NoGen}
    BY DEF TypeOK, RequestTypes
  <2>3. runtime' \in Gens \cup {NoGen} /\ retired' \in Gens \cup {NoGen}
    BY <1>9, <2>2, DropRuntimeTyped DEF StopJoin, TypeOK
  <2>4. faults' \in 0..MaxFaults
    BY <1>9, FaultTyped DEF StopJoin, Expires, TypeOK
  <2>5. UNCHANGED <<gate, bound, turn, cycle, closing, persisted, poisoned,
                   callbacks, fgVars, pubVars, pumpVars, nativeVars, closeVars,
                   ghostVars>>
    BY <1>9 DEF StopJoin
  <2> QED
    <3>1. RequestTypes'
      BY <2>1, <2>5 DEF TypeOK, RequestTypes
    <3>2. RuntimeTypes'
      BY <2>3, <2>5 DEF TypeOK, RuntimeTypes
    <3>3. BoundTypes'
      BY <2>4, <2>5 DEF TypeOK, BoundTypes
    <3> QED
      BY <3>1, <3>2, <3>3, <2>5, ForegroundKept, StreamKept, CloseKept,
        PumpKept DEF TypeOK
<1>10. CASE UseRuntime(o)
  <2>1. pc' \in [Ops -> OpPc] /\ answer' \in [Ops -> Answers]
    BY <1>10, LeaveTyped DEF UseRuntime, TypeOK, Answers
  <2>2. persisted' \in BOOLEAN /\ dirty' \subseteq Foregrounds
    BY <1>10, CommitTyped DEF UseRuntime, TypeOK, RequestTypes, StreamTypes
  <2>3. UNCHANGED <<gate, bound, turn, cycle, closing, poisoned, callbacks,
                   stream, acceptedIn, terminals, runtime, retired, faults,
                   fgVars, pumpVars, nativeVars, closeVars, ghostVars>>
    BY <1>10 DEF UseRuntime
  <2> QED
    <3>1. RequestTypes'
      BY <2>1, <2>2, <2>3 DEF TypeOK, RequestTypes
    <3>2. StreamTypes'
      BY <2>2, <2>3 DEF TypeOK, StreamTypes
    <3> QED
      BY <3>1, <3>2, <2>3, ForegroundKept, RuntimeKept, CloseKept, BoundKept,
        PumpKept DEF TypeOK
<1>11. CASE ReleaseGate(o)
  <2>1. pc' \in [Ops -> OpPc]
    BY <1>11, AtTyped DEF ReleaseGate, TypeOK, OpPc
  <2>2. /\ gate' \in Ops \cup {Closer, None}
       /\ bound' \in [Ops -> Gens \cup {NoGen}]
    BY <1>11 DEF ReleaseGate, TypeOK, RequestTypes
  <2>3. UNCHANGED <<answer, callbacks, faults, sessionVars, fgVars, pubVars,
                   pumpVars, nativeVars, closeVars, ghostVars>>
    BY <1>11 DEF ReleaseGate
  <2> QED
    <3>1. RequestTypes'
      BY <2>1, <2>2, <2>3 DEF TypeOK, RequestTypes
    <3> QED
      BY <3>1, <2>3, ForegroundKept, StreamKept, RuntimeKept, CloseKept,
        BoundKept, PumpKept DEF TypeOK
<1> QED
  BY <1>1, <1>2, <1>3, <1>4, <1>5, <1>6, <1>7, <1>8, <1>9, <1>10, <1>11 DEF
    RequestStep

\* The turn of a prompt.
LEMMA TurnTyped ==
  ASSUME TypeOK, PumpHolds, NEW p \in Prompts, TurnStep(p)
  PROVE  TypeOK' /\ PumpHolds'
<1> USE DEF sessionVars, fgVars, pubVars, opVars, pumpVars, nativeVars,
            closeVars, ghostVars
<1>1. CASE InstallTurn(p)
  <2>1. pc' \in [Ops -> OpPc] /\ answer' \in [Ops -> Answers]
    BY <1>1 DEF InstallTurn, TypeOK, RequestTypes, OpPc, Answers
  <2>2. turn' \in Prompts \cup {None}
    BY <1>1 DEF InstallTurn, TypeOK, RequestTypes
  <2>3. UNCHANGED <<gate, bound, cycle, closing, persisted, poisoned, callbacks,
                   runtime, retired, faults, fgVars, pubVars, pumpVars,
                   nativeVars, closeVars, ghostVars>>
    BY <1>1 DEF InstallTurn
  <2> QED
    <3>1. RequestTypes'
      BY <2>1, <2>2, <2>3 DEF TypeOK, RequestTypes
    <3> QED
      BY <3>1, <2>3, ForegroundKept, StreamKept, RuntimeKept, CloseKept,
        BoundKept, PumpKept DEF TypeOK
<1>2. CASE Dispatch(p)
  <2>1. pc' \in [Ops -> OpPc] /\ answer' \in [Ops -> Answers]
    BY <1>2, LeaveTyped DEF Dispatch, TypeOK, RequestTypes, Ops, OpPc, Answers
  <2>2. runs' \in [Gens -> Seq(Runs)]
    BY <1>2, DispatchRuns DEF TypeOK
  <2>3. UNCHANGED <<gate, bound, callbacks, gens, proc, out, faults,
                   sessionVars, fgVars, pubVars, pumpVars, closeVars,
                   ghostVars>>
    BY <1>2 DEF Dispatch
  <2> QED
    <3>1. RequestTypes'
      BY <2>1, <2>3 DEF TypeOK, RequestTypes
    <3>2. RuntimeTypes'
      BY <2>2, <2>3 DEF TypeOK, RuntimeTypes
    <3> QED
      BY <3>1, <3>2, <2>3, ForegroundKept, StreamKept, CloseKept, BoundKept,
        PumpKept DEF TypeOK
<1>3. CASE AcceptTurn(p)
  <2>1. pc' \in [Ops -> OpPc]
    BY <1>3, AtTyped DEF AcceptTurn, TypeOK, Ops, OpPc
  <2>2. acceptedIn' \in [Foregrounds -> Gens \cup {NoGen, NotYet}]
    BY <1>3, AcceptTyped DEF AcceptTurn, TypeOK
  <2>3. UNCHANGED <<gate, bound, answer, callbacks, stream, terminals, dirty,
                   faults, sessionVars, fgVars, pumpVars, nativeVars,
                   closeVars, ghostVars>>
    BY <1>3 DEF AcceptTurn
  <2> QED
    <3>1. RequestTypes'
      BY <2>1, <2>3 DEF TypeOK, RequestTypes
    <3>2. StreamTypes'
      BY <2>2, <2>3 DEF TypeOK, StreamTypes
    <3> QED
      BY <3>1, <3>2, <2>3, ForegroundKept, RuntimeKept, CloseKept, BoundKept,
        PumpKept DEF TypeOK
<1>4. CASE AbortExpires(p)
  <2>1. proc' \in [Gens -> {"none", "running", "exited"}]
    BY <1>4, SignalTyped DEF AbortExpires, TypeOK
  <2>2. ended' \in [Prompts -> {"running", "settled", "transport"}]
    BY <1>4, SettleTyped DEF AbortExpires, TypeOK
  <2>3. UNCHANGED <<gate, callbacks, cancelled, settling, terminal, ctxDone,
                   finished, gens, out, runs, faults, sessionVars, pubVars,
                   opVars, pumpVars, closeVars, ghostVars>>
    BY <1>4 DEF AbortExpires
  <2> QED
    <3>1. ForegroundTypes'
      BY <2>2, <2>3 DEF TypeOK, ForegroundTypes
    <3>2. RuntimeTypes'
      BY <2>1, <2>3 DEF TypeOK, RuntimeTypes
    <3> QED
      BY <3>1, <3>2, <2>3, RequestKept, StreamKept, CloseKept, BoundKept,
        PumpKept DEF TypeOK
<1>5. CASE BeginSettlement(p)
  <2>1. pc' \in [Ops -> OpPc]
    BY <1>5, AtTyped DEF BeginSettlement, TypeOK, Ops, OpPc
  <2>2. settling' \in [Foregrounds -> BOOLEAN]
    BY <1>5 DEF BeginSettlement, TypeOK, ForegroundTypes
  <2>3. UNCHANGED <<gate, bound, answer, callbacks, cancelled, terminal,
                   ctxDone, ended, finished, faults, sessionVars, pubVars,
                   pumpVars, nativeVars, closeVars, ghostVars>>
    BY <1>5 DEF BeginSettlement
  <2> QED
    <3>1. RequestTypes'
      BY <2>1, <2>3 DEF TypeOK, RequestTypes
    <3>2. ForegroundTypes'
      BY <2>2, <2>3 DEF TypeOK, ForegroundTypes
    <3> QED
      BY <3>1, <3>2, <2>3, StreamKept, RuntimeKept, CloseKept, BoundKept,
        PumpKept DEF TypeOK
<1>6. CASE CommitTurn(p)
  <2>1. pc' \in [Ops -> OpPc]
    BY <1>6 DEF CommitTurn, TypeOK, RequestTypes, OpPc
  <2>2. answer' \in [Ops -> Answers]
    BY <1>6 DEF CommitTurn, Verdicts, TypeOK, RequestTypes, Answers
  <2>3. persisted' \in BOOLEAN /\ dirty' \subseteq Foregrounds
    BY <1>6, CommitTyped DEF CommitTurn, TypeOK
  <2>4. stream' \in Gens \cup {NoGen}
    BY <1>6 DEF CommitTurn, Fence, TypeOK, StreamTypes
  <2>5. faults' \in 0..MaxFaults
    BY <1>6, FaultTyped DEF CommitTurn, CommitFails, TypeOK
  <2>6. UNCHANGED <<gate, bound, turn, cycle, closing, poisoned, callbacks,
                   acceptedIn, terminals, runtime, retired, fgVars, pumpVars,
                   nativeVars, closeVars, ghostVars>>
    BY <1>6 DEF CommitTurn
  <2> QED
    <3>1. RequestTypes'
      BY <2>1, <2>2, <2>3, <2>6 DEF TypeOK, RequestTypes
    <3>2. StreamTypes'
      BY <2>3, <2>4, <2>6 DEF TypeOK, StreamTypes
    <3>3. BoundTypes'
      BY <2>5, <2>6 DEF TypeOK, BoundTypes
    <3> QED
      BY <3>1, <3>2, <3>3, <2>6, ForegroundKept, RuntimeKept, CloseKept,
        PumpKept DEF TypeOK
<1>7. CASE SignalTurnRuntime(p)
  <2>1. pc' \in [Ops -> OpPc]
    BY <1>7, AtTyped DEF SignalTurnRuntime, TypeOK, Ops, OpPc
  <2>2. proc' \in [Gens -> {"none", "running", "exited"}]
    BY <1>7, SignalTyped DEF SignalTurnRuntime, TypeOK
  <2>3. UNCHANGED <<gate, bound, answer, callbacks, gens, out, runs, faults,
                   sessionVars, fgVars, pubVars, pumpVars, closeVars,
                   ghostVars>>
    BY <1>7 DEF SignalTurnRuntime
  <2> QED
    <3>1. RequestTypes'
      BY <2>1, <2>3 DEF TypeOK, RequestTypes
    <3>2. RuntimeTypes'
      BY <2>2, <2>3 DEF TypeOK, RuntimeTypes
    <3> QED
      BY <3>1, <3>2, <2>3, ForegroundKept, StreamKept, CloseKept, BoundKept,
        PumpKept DEF TypeOK
<1>8. CASE DropTurnRuntime(p)
  <2>1. pc' \in [Ops -> OpPc]
    BY <1>8, AtTyped DEF DropTurnRuntime, TypeOK, Ops, OpPc
  <2>2. bound[p] \in Gens \cup {NoGen}
    BY DEF TypeOK, RequestTypes, Ops
  <2>3. runtime' \in Gens \cup {NoGen} /\ retired' \in Gens \cup {NoGen}
    BY <1>8, <2>2, DropRuntimeTyped DEF DropTurnRuntime, TypeOK
  <2>4. UNCHANGED <<gate, bound, answer, turn, cycle, closing, persisted,
                   poisoned, callbacks, faults, fgVars, pubVars, pumpVars,
                   nativeVars, closeVars, ghostVars>>
    BY <1>8 DEF DropTurnRuntime
  <2> QED
    <3>1. RequestTypes'
      BY <2>1, <2>4 DEF TypeOK, RequestTypes
    <3>2. RuntimeTypes'
      BY <2>3, <2>4 DEF TypeOK, RuntimeTypes
    <3> QED
      BY <3>1, <3>2, <2>4, ForegroundKept, StreamKept, CloseKept, BoundKept,
        PumpKept DEF TypeOK
<1>9. CASE FenceLostTransport(p)
  <2>1. pc' \in [Ops -> OpPc]
    BY <1>9, AtTyped DEF FenceLostTransport, TypeOK, Ops, OpPc
  <2>2. answer' \in [Ops -> Answers]
    BY <1>9 DEF FenceLostTransport, TypeOK, RequestTypes, Answers
  <2>3. stream' \in Gens \cup {NoGen}
    BY <1>9 DEF FenceLostTransport, Fence, StreamTypes
  <2>4. bound[p] \in Gens \cup {NoGen}
    BY DEF TypeOK, RequestTypes, Ops
  <2>5. runtime' \in Gens \cup {NoGen} /\ retired' \in Gens \cup {NoGen}
    BY <1>9, <2>4, DropRuntimeTyped DEF FenceLostTransport, TypeOK
  <2>6. UNCHANGED <<gate, bound, turn, cycle, closing, persisted, poisoned,
                   callbacks, acceptedIn, terminals, dirty, faults, fgVars,
                   pumpVars, nativeVars, closeVars, ghostVars>>
    BY <1>9 DEF FenceLostTransport
  <2> QED
    <3>1. RequestTypes'
      BY <2>1, <2>2, <2>6 DEF TypeOK, RequestTypes
    <3>2. StreamTypes'
      BY <2>3, <2>6 DEF TypeOK, StreamTypes
    <3>3. RuntimeTypes'
      BY <2>5, <2>6 DEF TypeOK, RuntimeTypes
    <3> QED
      BY <3>1, <3>2, <3>3, <2>6, ForegroundKept, CloseKept, BoundKept, PumpKept
        DEF TypeOK
<1>10. CASE ClaimTurn(p)
  <2>1. pc' \in [Ops -> OpPc] /\ answer' \in [Ops -> Answers]
    BY <1>10 DEF ClaimTurn, TypeOK, RequestTypes, OpPc, Answers
  <2>2. terminal' \in [Foregrounds -> BOOLEAN]
    BY <1>10 DEF ClaimTurn, TypeOK, ForegroundTypes
  <2>3. UNCHANGED <<gate, bound, callbacks, cancelled, settling, ctxDone, ended,
                   finished, faults, sessionVars, pubVars, pumpVars,
                   nativeVars, closeVars, ghostVars>>
    BY <1>10 DEF ClaimTurn
  <2> QED
    <3>1. RequestTypes'
      BY <2>1, <2>3 DEF TypeOK, RequestTypes
    <3>2. ForegroundTypes'
      BY <2>2, <2>3 DEF TypeOK, ForegroundTypes
    <3> QED
      BY <3>1, <3>2, <2>3, StreamKept, RuntimeKept, CloseKept, BoundKept,
        PumpKept DEF TypeOK
<1>11. CASE PublishTurnIdle(p)
  <2>1. pc' \in [Ops -> OpPc]
    BY <1>11, AtTyped DEF PublishTurnIdle, TypeOK, Ops, OpPc
  <2>2. p \in Foregrounds /\ answer[p] \in Answers
    BY DEF TypeOK, RequestTypes, Ops, Foregrounds
  <2>3. terminals' \subseteq
         [fg : Foregrounds, inc : Gens, outcome : Answers, durable : BOOLEAN]
    BY <1>11, <2>2, PublishIdleTyped DEF PublishTurnIdle, TypeOK
  <2>4. UNCHANGED <<gate, bound, answer, callbacks, stream, acceptedIn, dirty,
                   faults, sessionVars, fgVars, pumpVars, nativeVars,
                   closeVars, ghostVars>>
    BY <1>11 DEF PublishTurnIdle
  <2> QED
    <3>1. RequestTypes'
      BY <2>1, <2>4 DEF TypeOK, RequestTypes
    <3>2. StreamTypes'
      BY <2>3, <2>4 DEF TypeOK, StreamTypes
    <3> QED
      BY <3>1, <3>2, <2>4, ForegroundKept, RuntimeKept, CloseKept, BoundKept,
        PumpKept DEF TypeOK
<1>12. CASE Unwind(p)
  <2>1. pc' \in [Ops -> OpPc]
    BY <1>12, AtTyped DEF Unwind, TypeOK, Ops, OpPc
  <2>2. turn' \in Prompts \cup {None} /\ finished' \in [Prompts -> BOOLEAN]
    BY <1>12 DEF Unwind, TypeOK, RequestTypes, ForegroundTypes
  <2>3. UNCHANGED <<gate, bound, answer, cycle, closing, persisted, poisoned,
                   callbacks, cancelled, settling, terminal, ctxDone, ended,
                   runtime, retired, faults, pubVars, pumpVars, nativeVars,
                   closeVars, ghostVars>>
    BY <1>12 DEF Unwind
  <2> QED
    <3>1. RequestTypes'
      BY <2>1, <2>2, <2>3 DEF TypeOK, RequestTypes
    <3>2. ForegroundTypes'
      BY <2>2, <2>3 DEF TypeOK, ForegroundTypes
    <3> QED
      BY <3>1, <3>2, <2>3, StreamKept, RuntimeKept, CloseKept, BoundKept,
        PumpKept DEF TypeOK
<1> QED
  BY <1>1, <1>2, <1>3, <1>4, <1>5, <1>6, <1>7, <1>8, <1>9, <1>10, <1>11, <1>12
    DEF TurnStep

\* session/cancel.
LEMMA CancelTyped ==
  ASSUME TypeOK, PumpHolds, Cancel
  PROVE  TypeOK' /\ PumpHolds'
<1> USE DEF sessionVars, fgVars, pubVars, opVars, pumpVars, nativeVars,
            closeVars, ghostVars
<1>1. CASE Cancel
  <2>1. cancels' \in 0..MaxCancels
    BY <1>1, BoundsAssumption DEF Cancel, TypeOK, BoundTypes
  <2>2. callbacks' \subseteq [fg : Foregrounds, gen : Gens]
    BY <1>1, ForegroundTyped DEF Cancel, Interruptible, TypeOK,
      ForegroundTypes, RuntimeTypes
  <2>3. /\ cancelled' \in [Foregrounds -> BOOLEAN]
       /\ ctxDone' \in [Prompts -> BOOLEAN]
    BY <1>1 DEF Cancel, TypeOK, ForegroundTypes
  <2>4. UNCHANGED <<gate, settling, terminal, ended, finished, emitted, cycles,
                   faults, foreign, strays, sessionVars, pubVars, opVars,
                   pumpVars, nativeVars, closeVars>>
    BY <1>1 DEF Cancel
  <2> QED
    <3>1. ForegroundTypes'
      BY <2>2, <2>3, <2>4 DEF TypeOK, ForegroundTypes
    <3>2. BoundTypes'
      BY <2>1, <2>4 DEF TypeOK, BoundTypes
    <3> QED
      BY <3>1, <3>2, <2>4, RequestKept, StreamKept, RuntimeKept, CloseKept,
        PumpKept DEF TypeOK
<1> QED
  BY <1>1

\* The interrupt a cancellation left running.
LEMMA AbortTyped ==
  ASSUME TypeOK, PumpHolds, NEW i \in callbacks, Abort(i)
  PROVE  TypeOK' /\ PumpHolds'
<1> USE DEF sessionVars, fgVars, pubVars, opVars, pumpVars, nativeVars,
            closeVars, ghostVars
<1>1. CASE Abort(i)
  <2>1. i.fg \in Foregrounds
    BY <1>1 DEF Abort, TypeOK, ForegroundTypes
  <2>2. strays' \subseteq Foregrounds \X Prompts
    BY <1>1, <2>1, InterruptTyped DEF Abort, TypeOK
  <2>3. callbacks' \subseteq [fg : Foregrounds, gen : Gens]
    BY <1>1 DEF Abort, TypeOK, ForegroundTypes
  <2>4. UNCHANGED <<gate, cancels, emitted, cycles, faults, foreign,
                   sessionVars, fgVars, pubVars, opVars, pumpVars, nativeVars,
                   closeVars>>
    BY <1>1 DEF Abort
  <2> QED
    <3>1. ForegroundTypes'
      BY <2>3, <2>4 DEF TypeOK, ForegroundTypes
    <3>2. BoundTypes'
      BY <2>2, <2>4 DEF TypeOK, BoundTypes
    <3> QED
      BY <3>1, <3>2, <2>4, RequestKept, StreamKept, RuntimeKept, CloseKept,
        PumpKept DEF TypeOK
<1> QED
  BY <1>1

\* The pump of one generation.
LEMMA PumpTyped ==
  ASSUME TypeOK, PumpHolds, NEW g \in Gens, PumpStep(g) \/ ReadFails(g)
  PROVE  TypeOK' /\ PumpHolds'
<1> USE DEF sessionVars, fgVars, pubVars, opVars, pumpVars, nativeVars,
            closeVars, ghostVars
<1>1. CASE PumpTake(g)
  <2>1. /\ out' \in [Gens -> Seq(Frames)] /\ pump' \in [Gens -> PumpPc]
       /\ held' \in [Gens -> Foregrounds \cup {None}]
    BY <1>1, RoutedTyped, ForegroundTyped DEF PumpTake, TypeOK, RuntimeTypes,
      PumpPc
  <2>2. poisoned' \in BOOLEAN
    BY <1>1 DEF PumpTake, TypeOK, RequestTypes
  <2>3. PumpHolds'
    BY <1>1, ForegroundTyped DEF PumpTake, Routed, TypeOK, RuntimeTypes,
      PumpHolds, Holders
  <2>4. UNCHANGED <<gate, turn, cycle, closing, persisted, callbacks, runtime,
                   retired, gens, proc, ending, done, runs, faults, fgVars,
                   pubVars, opVars, closeVars, ghostVars>>
    BY <1>1 DEF PumpTake
  <2> QED
    <3>1. RequestTypes'
      BY <2>2, <2>4 DEF TypeOK, RequestTypes
    <3>2. RuntimeTypes'
      BY <2>1, <2>4 DEF TypeOK, RuntimeTypes
    <3> QED
      BY <3>1, <3>2, <2>3, <2>4, ForegroundKept, StreamKept, CloseKept,
        BoundKept DEF TypeOK
<1>2. CASE OpenCycle(g)
  <2>1. out[g] # <<>>
    BY <1>2 DEF OpenCycle, PumpHolds
  <2>2. /\ out' \in [Gens -> Seq(Frames)] /\ pump' \in [Gens -> PumpPc]
       /\ held' \in [Gens -> Foregrounds \cup {None}]
    BY <1>2, <2>1, RoutedTyped, NextCycle DEF OpenCycle, TypeOK, RuntimeTypes,
      PumpPc
  <2>3. cycle' \in Cycles \cup {None} /\ cycles' \in 0..MaxEvents
    BY <1>2, NextCycle DEF OpenCycle, TypeOK, RequestTypes, BoundTypes
  <2>4. acceptedIn' \in [Foregrounds -> Gens \cup {NoGen, NotYet}]
    BY <1>2, AcceptTyped DEF OpenCycle, TypeOK, StreamTypes
  <2>5. PumpHolds'
    BY <1>2, <2>1, NextCycle DEF OpenCycle, Routed, TypeOK, RuntimeTypes,
      PumpHolds, Holders
  <2>6. UNCHANGED <<gate, turn, closing, persisted, poisoned, callbacks, stream,
                   terminals, dirty, runtime, retired, gens, proc, ending,
                   done, runs, cancels, emitted, faults, foreign, strays,
                   fgVars, opVars, closeVars>>
    BY <1>2 DEF OpenCycle
  <2> QED
    <3>1. RequestTypes'
      BY <2>3, <2>6 DEF TypeOK, RequestTypes
    <3>2. StreamTypes'
      BY <2>4, <2>6 DEF TypeOK, StreamTypes
    <3>3. RuntimeTypes'
      BY <2>2, <2>6 DEF TypeOK, RuntimeTypes
    <3>4. BoundTypes'
      BY <2>3, <2>6 DEF TypeOK, BoundTypes
    <3> QED
      BY <3>1, <3>2, <3>3, <3>4, <2>5, <2>6, ForegroundKept, CloseKept DEF
        TypeOK
<1>3. CASE LoseCycle(g)
  <2>1. out[g] # <<>>
    BY <1>3 DEF LoseCycle, CycleLost, PumpHolds, Holders
  <2>2. /\ out' \in [Gens -> Seq(Frames)] /\ pump' \in [Gens -> PumpPc]
       /\ held' \in [Gens -> Foregrounds \cup {None}]
    BY <1>3, <2>1, RoutedTyped DEF LoseCycle, TypeOK
  <2>3. PumpHolds'
    BY <1>3 DEF LoseCycle, Routed, TypeOK, RuntimeTypes, PumpHolds, Holders
  <2>4. UNCHANGED <<gate, callbacks, gens, proc, ending, done, runs, faults,
                   sessionVars, fgVars, pubVars, opVars, closeVars, ghostVars>>
    BY <1>3 DEF LoseCycle
  <2> QED
    <3>1. RuntimeTypes'
      BY <2>2, <2>4 DEF TypeOK, RuntimeTypes
    <3> QED
      BY <3>1, <2>3, <2>4, RequestKept, ForegroundKept, StreamKept, CloseKept,
        BoundKept DEF TypeOK
<1>4. CASE Apply(g)
  <2>1. out[g] # <<>> /\ held[g] \in Foregrounds
    BY <1>4 DEF Apply, PumpHolds, Holders
  <2>2. /\ out' \in [Gens -> Seq(Frames)]
       /\ held' \in [Gens -> Foregrounds \cup {None}]
    BY <1>4, <2>1, RoutedTyped DEF Apply, TypeOK, RuntimeTypes
  <2>3. pump' \in [Gens -> PumpPc]
    BY <1>4, <2>1, RoutedTyped DEF Apply, TypeOK, RuntimeTypes, PumpPc
  <2>4. acceptedIn' \in [Foregrounds -> Gens \cup {NoGen, NotYet}]
    BY <1>4, AcceptTyped DEF Apply, TypeOK, StreamTypes
  <2>5. dirty' \subseteq Foregrounds
    BY <1>4, <2>1 DEF Apply, TypeOK, StreamTypes
  <2>6. /\ settling' \in [Foregrounds -> BOOLEAN]
       /\ ended' \in [Prompts -> {"running", "settled", "transport"}]
    BY <1>4, SettleTyped DEF Apply, TypeOK, ForegroundTypes
  <2>7. foreign' \subseteq Prompts
    BY <1>4 DEF Apply, TypeOK, BoundTypes
  <2>8. PumpHolds'
    BY <1>4, <2>1 DEF Apply, Routed, TypeOK, RuntimeTypes, PumpHolds, Holders
  <2>9. UNCHANGED <<gate, callbacks, cancelled, terminal, ctxDone, finished,
                   stream, terminals, gens, proc, ending, done, runs, cancels,
                   emitted, cycles, faults, strays, sessionVars, opVars,
                   closeVars>>
    BY <1>4 DEF Apply
  <2> QED
    <3>1. ForegroundTypes'
      BY <2>6, <2>9 DEF TypeOK, ForegroundTypes
    <3>2. StreamTypes'
      BY <2>4, <2>5, <2>9 DEF TypeOK, StreamTypes
    <3>3. RuntimeTypes'
      BY <2>2, <2>3, <2>9 DEF TypeOK, RuntimeTypes
    <3>4. BoundTypes'
      BY <2>7, <2>9 DEF TypeOK, BoundTypes
    <3> QED
      BY <3>1, <3>2, <3>3, <3>4, <2>8, <2>9, RequestKept, CloseKept DEF TypeOK
<1>5. CASE FinishDelivery(g)
  <2>1. out[g] # <<>>
    BY <1>5 DEF FinishDelivery, PumpHolds, Holders
  <2>2. /\ out' \in [Gens -> Seq(Frames)] /\ pump' \in [Gens -> PumpPc]
       /\ held' \in [Gens -> Foregrounds \cup {None}]
    BY <1>5, <2>1, RoutedTyped DEF FinishDelivery, TypeOK
  <2>3. PumpHolds'
    BY <1>5 DEF FinishDelivery, Routed, TypeOK, RuntimeTypes, PumpHolds,
      Holders
  <2>4. UNCHANGED <<gate, callbacks, gens, proc, ending, done, runs, faults,
                   sessionVars, fgVars, pubVars, opVars, closeVars, ghostVars>>
    BY <1>5 DEF FinishDelivery
  <2> QED
    <3>1. RuntimeTypes'
      BY <2>2, <2>4 DEF TypeOK, RuntimeTypes
    <3> QED
      BY <3>1, <2>3, <2>4, RequestKept, ForegroundKept, StreamKept, CloseKept,
        BoundKept DEF TypeOK
<1>6. CASE CommitCycle(g)
  <2>1. pump' \in [Gens -> PumpPc]
    BY <1>6 DEF CommitCycle, TypeOK, RuntimeTypes, PumpPc
  <2>2. persisted' \in BOOLEAN /\ dirty' \subseteq Foregrounds
    BY <1>6, CommitTyped DEF CommitCycle, TypeOK
  <2>3. stream' \in Gens \cup {NoGen}
    BY <1>6 DEF CommitCycle, Fence, TypeOK, StreamTypes
  <2>4. faults' \in 0..MaxFaults
    BY <1>6, FaultTyped DEF CommitCycle, CommitFails, TypeOK
  <2>5. PumpHolds'
    BY <1>6 DEF CommitCycle, TypeOK, RuntimeTypes, PumpHolds, Holders
  <2>6. UNCHANGED <<gate, turn, cycle, closing, poisoned, callbacks, acceptedIn,
                   terminals, runtime, retired, ending, done, held, fgVars,
                   opVars, nativeVars, closeVars, ghostVars>>
    BY <1>6 DEF CommitCycle
  <2> QED
    <3>1. RequestTypes'
      BY <2>2, <2>6 DEF TypeOK, RequestTypes
    <3>2. StreamTypes'
      BY <2>2, <2>3, <2>6 DEF TypeOK, StreamTypes
    <3>3. RuntimeTypes'
      BY <2>1, <2>6 DEF TypeOK, RuntimeTypes
    <3>4. BoundTypes'
      BY <2>4, <2>6 DEF TypeOK, BoundTypes
    <3> QED
      BY <3>1, <3>2, <3>3, <3>4, <2>5, <2>6, ForegroundKept, CloseKept DEF
        TypeOK
<1>7. CASE SignalCycleRuntime(g)
  <2>1. pump' \in [Gens -> PumpPc]
    BY <1>7 DEF SignalCycleRuntime, PumpAt, TypeOK, RuntimeTypes, PumpPc
  <2>2. proc' \in [Gens -> {"none", "running", "exited"}]
    BY <1>7, SignalTyped DEF SignalCycleRuntime, TypeOK
  <2>3. PumpHolds'
    BY <1>7 DEF SignalCycleRuntime, PumpAt, TypeOK, RuntimeTypes, PumpHolds,
      Holders
  <2>4. UNCHANGED <<gate, callbacks, gens, ending, done, held, out, runs,
                   faults, sessionVars, fgVars, pubVars, opVars, closeVars,
                   ghostVars>>
    BY <1>7 DEF SignalCycleRuntime
  <2> QED
    <3>1. RuntimeTypes'
      BY <2>1, <2>2, <2>4 DEF TypeOK, RuntimeTypes
    <3> QED
      BY <3>1, <2>3, <2>4, RequestKept, ForegroundKept, StreamKept, CloseKept,
        BoundKept DEF TypeOK
<1>8. CASE DropCycleRuntime(g)
  <2>1. pump' \in [Gens -> PumpPc]
    BY <1>8 DEF DropCycleRuntime, PumpAt, TypeOK, RuntimeTypes, PumpPc
  <2>2. runtime' \in Gens \cup {NoGen} /\ retired' \in Gens \cup {NoGen}
    BY <1>8, DropRuntimeTyped DEF DropCycleRuntime, TypeOK
  <2>3. PumpHolds'
    BY <1>8 DEF DropCycleRuntime, PumpAt, TypeOK, RuntimeTypes, PumpHolds,
      Holders
  <2>4. UNCHANGED <<gate, turn, cycle, closing, persisted, poisoned, callbacks,
                   ending, done, held, faults, fgVars, pubVars, opVars,
                   nativeVars, closeVars, ghostVars>>
    BY <1>8 DEF DropCycleRuntime
  <2> QED
    <3>1. RuntimeTypes'
      BY <2>1, <2>2, <2>4 DEF TypeOK, RuntimeTypes
    <3> QED
      BY <3>1, <2>3, <2>4, RequestKept, ForegroundKept, StreamKept, CloseKept,
        BoundKept DEF TypeOK
<1>9. CASE ClaimCycle(g)
  <2>1. pump' \in [Gens -> PumpPc]
    BY <1>9 DEF ClaimCycle, PumpAt, TypeOK, RuntimeTypes, PumpPc
  <2>2. terminal' \in [Foregrounds -> BOOLEAN]
    BY <1>9 DEF ClaimCycle, TypeOK, ForegroundTypes
  <2>3. PumpHolds'
    BY <1>9 DEF ClaimCycle, PumpAt, TypeOK, RuntimeTypes, PumpHolds, Holders
  <2>4. UNCHANGED <<gate, callbacks, cancelled, settling, ctxDone, ended,
                   finished, ending, done, held, faults, sessionVars, pubVars,
                   opVars, nativeVars, closeVars, ghostVars>>
    BY <1>9 DEF ClaimCycle
  <2> QED
    <3>1. ForegroundTypes'
      BY <2>2, <2>4 DEF TypeOK, ForegroundTypes
    <3>2. RuntimeTypes'
      BY <2>1, <2>4 DEF TypeOK, RuntimeTypes
    <3> QED
      BY <3>1, <3>2, <2>3, <2>4, RequestKept, StreamKept, CloseKept, BoundKept
        DEF TypeOK
<1>10. CASE PublishCycleIdle(g)
  <2>1. pump' \in [Gens -> PumpPc]
    BY <1>10 DEF PublishCycleIdle, PumpAt, TypeOK, RuntimeTypes, PumpPc
  <2>2. held[g] \in Foregrounds
    BY <1>10 DEF PublishCycleIdle, PumpAt, PumpHolds, Holders
  <2>3. terminals' \subseteq
         [fg : Foregrounds, inc : Gens, outcome : Answers, durable : BOOLEAN]
    BY <1>10, <2>2, PublishIdleTyped DEF PublishCycleIdle, Verdicts, TypeOK,
      Answers
  <2>4. PumpHolds'
    BY <1>10 DEF PublishCycleIdle, PumpAt, TypeOK, RuntimeTypes, PumpHolds,
      Holders
  <2>5. UNCHANGED <<gate, callbacks, stream, acceptedIn, dirty, ending, done,
                   held, faults, sessionVars, fgVars, opVars, nativeVars,
                   closeVars, ghostVars>>
    BY <1>10 DEF PublishCycleIdle
  <2> QED
    <3>1. StreamTypes'
      BY <2>3, <2>5 DEF TypeOK, StreamTypes
    <3>2. RuntimeTypes'
      BY <2>1, <2>5 DEF TypeOK, RuntimeTypes
    <3> QED
      BY <3>1, <3>2, <2>4, <2>5, RequestKept, ForegroundKept, CloseKept,
        BoundKept DEF TypeOK
<1>11. CASE ClearCycle(g)
  <2>1. out[g] # <<>>
    BY <1>11 DEF ClearCycle, PumpHolds, Holders
  <2>2. /\ out' \in [Gens -> Seq(Frames)] /\ pump' \in [Gens -> PumpPc]
       /\ held' \in [Gens -> Foregrounds \cup {None}]
    BY <1>11, <2>1, RoutedTyped DEF ClearCycle, TypeOK
  <2>3. cycle' \in Cycles \cup {None}
    BY <1>11 DEF ClearCycle, TypeOK, RequestTypes
  <2>4. PumpHolds'
    BY <1>11 DEF ClearCycle, Routed, TypeOK, RuntimeTypes, PumpHolds, Holders
  <2>5. UNCHANGED <<gate, turn, closing, persisted, poisoned, callbacks,
                   runtime, retired, gens, proc, ending, done, runs, faults,
                   fgVars, pubVars, opVars, closeVars, ghostVars>>
    BY <1>11 DEF ClearCycle
  <2> QED
    <3>1. RequestTypes'
      BY <2>3, <2>5 DEF TypeOK, RequestTypes
    <3>2. RuntimeTypes'
      BY <2>2, <2>5 DEF TypeOK, RuntimeTypes
    <3> QED
      BY <3>1, <3>2, <2>4, <2>5, ForegroundKept, StreamKept, CloseKept,
        BoundKept DEF TypeOK
<1>12. CASE DrainRuntime(g) \/ ReadFails(g)
  <2>1. RuntimeEnded(g) /\ (Fault \/ NoFault)
    BY <1>12 DEF DrainRuntime, ReadFails
  <2>2. faults' \in 0..MaxFaults
    BY <2>1, FaultTyped DEF TypeOK
  <2>3. pump' \in [Gens -> PumpPc] /\ ending' \in [Gens -> BOOLEAN]
    BY <2>1 DEF RuntimeEnded, TypeOK, RuntimeTypes, PumpPc
  <2>4. held' \in [Gens -> Foregrounds \cup {None}]
    BY <2>1, ForegroundTyped DEF RuntimeEnded, TypeOK, RuntimeTypes
  <2>5. cycle' \in Cycles \cup {None}
    BY <2>1 DEF RuntimeEnded, CycleAfterEnd, TypeOK, RequestTypes
  <2>6. PumpHolds'
    BY <2>1 DEF RuntimeEnded, TypeOK, RuntimeTypes, PumpHolds, Holders
  <2>7. UNCHANGED <<gate, turn, closing, persisted, poisoned, callbacks,
                   runtime, retired, done, fgVars, pubVars, opVars, nativeVars,
                   closeVars, ghostVars>>
    BY <1>12 DEF RuntimeEnded, DrainRuntime, ReadFails
  <2> QED
    <3>1. RequestTypes'
      BY <2>5, <2>7 DEF TypeOK, RequestTypes
    <3>2. RuntimeTypes'
      BY <2>3, <2>4, <2>7 DEF TypeOK, RuntimeTypes
    <3>3. BoundTypes'
      BY <2>2, <2>7 DEF TypeOK, BoundTypes
    <3> QED
      BY <3>1, <3>2, <3>3, <2>6, <2>7, ForegroundKept, StreamKept, CloseKept
        DEF TypeOK
<1>13. CASE EndForeground(g)
  <2>1. pump' \in [Gens -> PumpPc]
    BY <1>13 DEF EndForeground, PumpAt, TypeOK, RuntimeTypes, PumpPc
  <2>2. terminals' \subseteq
         [fg : Foregrounds, inc : Gens, outcome : Answers, durable : BOOLEAN]
    BY <1>13, PublishIdleTyped DEF EndForeground, EndsWithRuntime, TypeOK,
      StreamTypes, Foregrounds, Answers
  <2>3. /\ ctxDone' \in [Prompts -> BOOLEAN]
       /\ ended' \in [Prompts -> {"running", "settled", "transport"}]
    BY <1>13, SettleTyped DEF EndForeground, TypeOK, ForegroundTypes
  <2>4. PumpHolds'
    BY <1>13 DEF EndForeground, PumpAt, TypeOK, RuntimeTypes, PumpHolds,
      Holders
  <2>5. UNCHANGED <<gate, callbacks, cancelled, settling, terminal, finished,
                   stream, acceptedIn, dirty, ending, done, held, faults,
                   sessionVars, opVars, nativeVars, closeVars, ghostVars>>
    BY <1>13 DEF EndForeground
  <2> QED
    <3>1. ForegroundTypes'
      BY <2>3, <2>5 DEF TypeOK, ForegroundTypes
    <3>2. StreamTypes'
      BY <2>2, <2>5 DEF TypeOK, StreamTypes
    <3>3. RuntimeTypes'
      BY <2>1, <2>5 DEF TypeOK, RuntimeTypes
    <3> QED
      BY <3>1, <3>2, <3>3, <2>4, <2>5, RequestKept, CloseKept, BoundKept DEF
        TypeOK
<1>14. CASE RetireRuntime(g)
  <2>1. pump' \in [Gens -> PumpPc]
    BY <1>14 DEF RetireRuntime, PumpAt, TypeOK, RuntimeTypes, PumpPc
  <2>2. stream' \in Gens \cup {NoGen}
    BY <1>14 DEF RetireRuntime, StreamAfterEnd, TypeOK, StreamTypes
  <2>3. runtime' \in Gens \cup {NoGen} /\ retired' \in Gens \cup {NoGen}
    BY <1>14, DropRuntimeTyped DEF RetireRuntime, TypeOK
  <2>4. faults' \in 0..MaxFaults
    BY <1>14, FaultTyped DEF RetireRuntime, Expires, TypeOK
  <2>5. PumpHolds'
    BY <1>14 DEF RetireRuntime, PumpAt, TypeOK, RuntimeTypes, PumpHolds,
      Holders
  <2>6. UNCHANGED <<gate, turn, cycle, closing, persisted, poisoned, callbacks,
                   acceptedIn, terminals, dirty, ending, done, held, fgVars,
                   opVars, nativeVars, closeVars, ghostVars>>
    BY <1>14 DEF RetireRuntime
  <2> QED
    <3>1. StreamTypes'
      BY <2>2, <2>6 DEF TypeOK, StreamTypes
    <3>2. RuntimeTypes'
      BY <2>1, <2>3, <2>6 DEF TypeOK, RuntimeTypes
    <3>3. BoundTypes'
      BY <2>4, <2>6 DEF TypeOK, BoundTypes
    <3> QED
      BY <3>1, <3>2, <3>3, <2>5, <2>6, RequestKept, ForegroundKept, CloseKept
        DEF TypeOK
<1>15. CASE Release(g)
  <2>1. pump' \in [Gens -> PumpPc]
    BY <1>15 DEF Release, PumpAt, TypeOK, RuntimeTypes, PumpPc
  <2>2. /\ done' \in [Gens -> BOOLEAN]
       /\ held' \in [Gens -> Foregrounds \cup {None}]
    BY <1>15 DEF Release, TypeOK, RuntimeTypes
  <2>3. PumpHolds'
    BY <1>15 DEF Release, PumpAt, TypeOK, RuntimeTypes, PumpHolds, Holders
  <2>4. UNCHANGED <<gate, callbacks, ending, faults, sessionVars, fgVars,
                   pubVars, opVars, nativeVars, closeVars, ghostVars>>
    BY <1>15 DEF Release
  <2> QED
    <3>1. RuntimeTypes'
      BY <2>1, <2>2, <2>4 DEF TypeOK, RuntimeTypes
    <3> QED
      BY <3>1, <2>3, <2>4, RequestKept, ForegroundKept, StreamKept, CloseKept,
        BoundKept DEF TypeOK
<1> QED
  BY <1>1, <1>2, <1>3, <1>4, <1>5, <1>6, <1>7, <1>8, <1>9, <1>10, <1>11, <1>12,
    <1>13, <1>14, <1>15 DEF PumpStep

\* The claude process.
LEMMA ProcessTyped ==
  ASSUME TypeOK, PumpHolds, NEW g \in Gens, Emit(g) \/ Exit(g)
  PROVE  TypeOK' /\ PumpHolds'
<1> USE DEF sessionVars, fgVars, pubVars, opVars, pumpVars, nativeVars,
            closeVars, ghostVars
<1>1. CASE Emit(g)
  <2>1. runs[g] # <<>> => Head(runs[g]) \in Runs
    BY QueuedRun DEF TypeOK
  <2>2. out' \in [Gens -> Seq(Frames)]
    BY <1>1, <2>1, WriteTyped DEF Emit, TypeOK, Runs
  <2>3. runs' \in [Gens -> Seq(Runs)]
    BY <1>1, EmitRuns DEF TypeOK
  <2>4. emitted' \in 0..MaxEvents
    BY <1>1, BoundsAssumption DEF Emit, TypeOK, BoundTypes
  <2>5. PumpHolds'
    BY <1>1 DEF Emit, Write, TypeOK, RuntimeTypes, PumpHolds
  <2>6. UNCHANGED <<gate, callbacks, gens, proc, cancels, cycles, faults,
                   foreign, strays, sessionVars, fgVars, pubVars, opVars,
                   pumpVars, closeVars>>
    BY <1>1 DEF Emit
  <2> QED
    <3>1. RuntimeTypes'
      BY <2>2, <2>3, <2>6 DEF TypeOK, RuntimeTypes
    <3>2. BoundTypes'
      BY <2>4, <2>6 DEF TypeOK, BoundTypes
    <3> QED
      BY <3>1, <3>2, <2>5, <2>6, RequestKept, ForegroundKept, StreamKept,
        CloseKept DEF TypeOK
<1>2. CASE Exit(g)
  <2>1. proc' \in [Gens -> {"none", "running", "exited"}]
    BY <1>2 DEF Exit, TypeOK, RuntimeTypes
  <2>2. faults' \in 0..MaxFaults
    BY <1>2, FaultTyped DEF Exit, TypeOK
  <2>3. UNCHANGED <<gate, callbacks, gens, out, runs, sessionVars, fgVars,
                   pubVars, opVars, pumpVars, closeVars, ghostVars>>
    BY <1>2 DEF Exit
  <2> QED
    <3>1. RuntimeTypes'
      BY <2>1, <2>3 DEF TypeOK, RuntimeTypes
    <3>2. BoundTypes'
      BY <2>2, <2>3 DEF TypeOK, BoundTypes
    <3> QED
      BY <3>1, <3>2, <2>3, RequestKept, ForegroundKept, StreamKept, CloseKept,
        PumpKept DEF TypeOK
<1> QED
  BY <1>1, <1>2

\* The shutdown ladder.
LEMMA CloseTyped ==
  ASSUME TypeOK, PumpHolds, BeginClose \/ CloseStep
  PROVE  TypeOK' /\ PumpHolds'
<1> USE DEF sessionVars, fgVars, pubVars, opVars, pumpVars, nativeVars,
            closeVars, ghostVars
<1>1. CASE BeginClose
  <2>1. /\ cancelled' \in [Foregrounds -> BOOLEAN]
       /\ ctxDone' \in [Prompts -> BOOLEAN]
    BY <1>1 DEF BeginClose, TypeOK, ForegroundTypes
  <2>2. closePc' \in ClosePc
    BY <1>1 DEF BeginClose, CloseAt, TypeOK, CloseTypes, ClosePc
  <2>3. closeTurn' \in Prompts \cup {None} /\ closeRt' \in Gens \cup {NoGen}
    BY <1>1 DEF BeginClose, TypeOK, RequestTypes, RuntimeTypes
  <2>4. closeJoins' \in BOOLEAN /\ closing' \in BOOLEAN
    BY <1>1 DEF BeginClose, JoinsEstablishment
  <2>5. UNCHANGED <<gate, turn, cycle, persisted, poisoned, callbacks, settling,
                   terminal, ended, finished, runtime, retired, faults,
                   pubVars, opVars, pumpVars, nativeVars, ghostVars>>
    BY <1>1 DEF BeginClose
  <2> QED
    <3>1. RequestTypes'
      BY <2>4, <2>5 DEF TypeOK, RequestTypes
    <3>2. ForegroundTypes'
      BY <2>1, <2>5 DEF TypeOK, ForegroundTypes
    <3>3. CloseTypes'
      BY <2>2, <2>3, <2>4, <2>5 DEF TypeOK, CloseTypes
    <3> QED
      BY <3>1, <3>2, <3>3, <2>5, StreamKept, RuntimeKept, BoundKept, PumpKept
        DEF TypeOK
<1>2. CASE CloseAbort
  <2>1. closePc' \in ClosePc
    BY <1>2 DEF CloseAbort, CloseAt, TypeOK, CloseTypes, ClosePc
  <2>2. closeTurn # None => closeTurn \in Foregrounds
    BY DEF TypeOK, CloseTypes, Foregrounds
  <2>3. strays' \subseteq Foregrounds \X Prompts
    BY <1>2, <2>2, InterruptTyped DEF CloseAbort, TypeOK, BoundTypes
  <2>4. UNCHANGED <<gate, callbacks, closeTurn, closeRt, closeJoins, cancels,
                   emitted, cycles, faults, foreign, sessionVars, fgVars,
                   pubVars, opVars, pumpVars, nativeVars>>
    BY <1>2 DEF CloseAbort
  <2> QED
    <3>1. CloseTypes'
      BY <2>1, <2>4 DEF TypeOK, CloseTypes
    <3>2. BoundTypes'
      BY <2>3, <2>4 DEF TypeOK, BoundTypes
    <3> QED
      BY <3>1, <3>2, <2>4, RequestKept, ForegroundKept, StreamKept,
        RuntimeKept, PumpKept DEF TypeOK
<1>3. CASE CloseStop
  <2>1. closePc' \in ClosePc
    BY <1>3 DEF CloseStop, ClosePc
  <2>2. proc' \in [Gens -> {"none", "running", "exited"}]
    BY <1>3, SignalTyped DEF CloseStop, TypeOK, RuntimeTypes
  <2>3. faults' \in 0..MaxFaults
    BY <1>3, FaultTyped DEF CloseStop, Expires, TypeOK
  <2>4. UNCHANGED <<gate, callbacks, gens, out, runs, closeTurn, closeRt,
                   closeJoins, sessionVars, fgVars, pubVars, opVars, pumpVars,
                   ghostVars>>
    BY <1>3 DEF CloseStop
  <2> QED
    <3>1. RuntimeTypes'
      BY <2>2, <2>4 DEF TypeOK, RuntimeTypes
    <3>2. CloseTypes'
      BY <2>1, <2>4 DEF TypeOK, CloseTypes
    <3>3. BoundTypes'
      BY <2>3, <2>4 DEF TypeOK, BoundTypes
    <3> QED
      BY <3>1, <3>2, <3>3, <2>4, RequestKept, ForegroundKept, StreamKept,
        PumpKept DEF TypeOK
<1>4. CASE CloseJoinPump
  <2>1. closePc' \in ClosePc
    BY <1>4 DEF CloseJoinPump, CloseAt, TypeOK, CloseTypes, ClosePc
  <2>2. closeRt \in Gens \cup {NoGen}
    BY DEF TypeOK, CloseTypes
  <2>3. runtime' \in Gens \cup {NoGen} /\ retired' \in Gens \cup {NoGen}
    BY <1>4, <2>2, DropRuntimeTyped DEF CloseJoinPump, TypeOK
  <2>4. faults' \in 0..MaxFaults
    BY <1>4, FaultTyped DEF CloseJoinPump, Expires, TypeOK
  <2>5. UNCHANGED <<gate, turn, cycle, closing, persisted, poisoned, callbacks,
                   closeTurn, closeRt, closeJoins, fgVars, pubVars, opVars,
                   pumpVars, nativeVars, ghostVars>>
    BY <1>4 DEF CloseJoinPump
  <2> QED
    <3>1. RuntimeTypes'
      BY <2>3, <2>5 DEF TypeOK, RuntimeTypes
    <3>2. CloseTypes'
      BY <2>1, <2>5 DEF TypeOK, CloseTypes
    <3>3. BoundTypes'
      BY <2>4, <2>5 DEF TypeOK, BoundTypes
    <3> QED
      BY <3>1, <3>2, <3>3, <2>5, RequestKept, ForegroundKept, StreamKept,
        PumpKept DEF TypeOK
<1>5. CASE CloseCommit
  <2>1. gate' \in Ops \cup {Closer, None} /\ closePc' \in ClosePc
    BY <1>5 DEF CloseCommit, TypeOK, RequestTypes, CloseTypes, ClosePc
  <2>2. persisted' \in BOOLEAN /\ dirty' \subseteq Foregrounds
    BY <1>5, CommitTyped DEF CloseCommit, TypeOK, RequestTypes, StreamTypes
  <2>3. faults' \in 0..MaxFaults
    BY <1>5, FaultTyped DEF CloseCommit, CommitFails, TypeOK
  <2>4. UNCHANGED <<turn, cycle, closing, poisoned, callbacks, stream,
                   acceptedIn, terminals, runtime, retired, closeTurn, closeRt,
                   closeJoins, fgVars, opVars, pumpVars, nativeVars,
                   ghostVars>>
    BY <1>5 DEF CloseCommit
  <2> QED
    <3>1. RequestTypes'
      BY <2>1, <2>2, <2>4 DEF TypeOK, RequestTypes
    <3>2. StreamTypes'
      BY <2>2, <2>4 DEF TypeOK, StreamTypes
    <3>3. CloseTypes'
      BY <2>1, <2>4 DEF TypeOK, CloseTypes
    <3>4. BoundTypes'
      BY <2>3, <2>4 DEF TypeOK, BoundTypes
    <3> QED
      BY <3>1, <3>2, <3>3, <3>4, <2>4, ForegroundKept, RuntimeKept, PumpKept
        DEF TypeOK
<1>6. CASE CloseFence
  <2>1. gate' \in Ops \cup {Closer, None} /\ cycle' \in Cycles \cup {None}
    BY <1>6 DEF CloseFence, TypeOK, RequestTypes
  <2>2. cycle # None => cycle \in Foregrounds
    BY DEF TypeOK, RequestTypes, Foregrounds
  <2>3. terminals' \subseteq
         [fg : Foregrounds, inc : Gens, outcome : Answers, durable : BOOLEAN]
    BY <1>6, <2>2, PublishIdleTyped DEF CloseFence, TypeOK, StreamTypes,
      Answers
  <2>4. stream' \in Gens \cup {NoGen} /\ closePc' \in ClosePc
    BY <1>6 DEF CloseFence, Fence, TypeOK, StreamTypes, CloseTypes, ClosePc
  <2>5. UNCHANGED <<turn, closing, persisted, poisoned, callbacks, acceptedIn,
                   dirty, runtime, retired, closeTurn, closeRt, closeJoins,
                   faults, fgVars, opVars, pumpVars, nativeVars, ghostVars>>
    BY <1>6 DEF CloseFence
  <2> QED
    <3>1. RequestTypes'
      BY <2>1, <2>5 DEF TypeOK, RequestTypes
    <3>2. StreamTypes'
      BY <2>3, <2>4, <2>5 DEF TypeOK, StreamTypes
    <3>3. CloseTypes'
      BY <2>4, <2>5 DEF TypeOK, CloseTypes
    <3> QED
      BY <3>1, <3>2, <3>3, <2>5, ForegroundKept, RuntimeKept, BoundKept,
        PumpKept DEF TypeOK
<1> QED
  BY <1>1, <1>2, <1>3, <1>4, <1>5, <1>6 DEF CloseStep

-----------------------------------------------------------------------------
(* The theorems.                                                           *)

\* The types and what a pump holds are preserved by every step.
LEMMA NextTyped == TypeOK /\ PumpHolds /\ [Next]_vars => TypeOK' /\ PumpHolds'
<1> SUFFICES ASSUME TypeOK, PumpHolds, [Next]_vars PROVE TypeOK' /\ PumpHolds'
  OBVIOUS
<1>1. CASE UNCHANGED vars
  <2>1. UNCHANGED <<gate, sessionVars, callbacks, fgVars, pubVars, opVars,
                   pumpVars, nativeVars, closeVars, ghostVars, faults>>
    BY <1>1 DEF vars
  <2>2. UNCHANGED <<turn, cycle, runtime, retired, closing, persisted, poisoned,
                   pump, held, out>>
    BY <2>1 DEF sessionVars, pumpVars, nativeVars
  <2>3. RequestTypes' /\ ForegroundTypes' /\ StreamTypes'
    BY <2>1, <2>2, RequestKept, ForegroundKept, StreamKept DEF TypeOK
  <2>4. RuntimeTypes' /\ CloseTypes' /\ BoundTypes' /\ PumpHolds'
    BY <2>1, <2>2, RuntimeKept, CloseKept, BoundKept, PumpKept DEF TypeOK
  <2> QED BY <2>3, <2>4 DEF TypeOK
<1>2. CASE EstablishCommit \/ EstablishOpen
  BY <1>2, EstablishmentTyped
<1>3. ASSUME NEW o \in Prompts \cup Reads, AcquireGate(o) \/ RequestStep(o)
      PROVE  TypeOK' /\ PumpHolds'
  BY <1>3, RequestTyped DEF Ops
<1>4. ASSUME NEW p \in Prompts, TurnStep(p) PROVE TypeOK' /\ PumpHolds'
  BY <1>4, TurnTyped
<1>5. CASE Cancel
  BY <1>5, CancelTyped
<1>6. ASSUME NEW i \in callbacks, Abort(i) PROVE TypeOK' /\ PumpHolds'
  BY <1>6, AbortTyped
<1>7. ASSUME NEW g \in Gens, PumpStep(g) \/ ReadFails(g)
      PROVE  TypeOK' /\ PumpHolds'
  BY <1>7, PumpTyped
<1>8. ASSUME NEW g \in Gens, Emit(g) \/ Exit(g) PROVE TypeOK' /\ PumpHolds'
  BY <1>8, ProcessTyped
<1>9. CASE BeginClose \/ CloseStep
  BY <1>9, CloseTyped
<1> QED BY <1>1, <1>2, <1>3, <1>4, <1>5, <1>6, <1>7, <1>8, <1>9 DEF Next

\* In every behaviour a pump at work holds a foreground and its frame.
THEOREM TypeInvariant == Spec => [](TypeOK /\ PumpHolds)
<1> QED BY InitTyped, NextTyped, PTL DEF Spec

\* In every behaviour every variable has its type; above all the interrupt of a
\* cancellation is only ever sent to a process that was bound.
THEOREM TypeCorrect == Spec => []TypeOK
<1> QED BY TypeInvariant, PTL
=============================================================================
