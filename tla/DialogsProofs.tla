---------------------------- MODULE DialogsProofs ----------------------------
(***************************************************************************)
(* Safety of the dialogs of a session, for every number of control         *)
(* requests, prompts, cycles and calls.                                    *)
(*                                                                         *)
(* The argument: whoever joins the dialogs has closed their admission      *)
(* first (Refusing) and the pump, which admits them, knows a foreground    *)
(* that is not settled (Serving), so what a settlement finds empty stays   *)
(* empty until its terminal idle is out (Emptied).                         *)
(***************************************************************************)
EXTENDS DialogsProperties, FiniteSetTheorems, TLAPS

USE DEF Foregrounds

\* What the pump does for a control request it has read.
Admission ==
  OpenAgentCycle \/ CycleOpened \/ CheckCancelled \/ Deny \/ RegisterDialog

-----------------------------------------------------------------------------
(* Types.                                                                  *)

\* The types alone, without what the counters count.
Types ==
  /\ turn \in Prompts \cup {None} /\ cycle \in Cycles \cup {None}
  /\ cancelled \subseteq Foregrounds /\ settling \subseteq Foregrounds
  /\ ended \subseteq Foregrounds /\ begun \subseteq Foregrounds
  /\ settled \in [Prompts -> {"no", "result", "lost"}]
  /\ prompt \in [Prompts -> {"idle", "installed", "sent", "sweep", "join",
                             "commit", "claim", "clear", "over"}]
  /\ pump \in {"read", "open", "opened", "check", "deny", "register", "deliver", "sweep",
               "join", "clear", "end-sweep", "end-join", "end-wait", "done"}
  /\ work \in [request : Requests \cup {None}, fg : Foregrounds \cup {None},
               turn : Prompts \cup {None}]
  /\ close \in [at : {"open", "sweep", "join", "wait", "stop", "final", "closed"},
                turn : Prompts \cup {None}]
  /\ dialogs \subseteq Requests /\ dead \subseteq Requests
  /\ pc \in [Requests -> {"unsent", "call", "wait", "reply", "unregister", "done"}]
  /\ owner \in [Requests -> Foregrounds \cup {None}]

Flags ==
  /\ bound \in BOOLEAN /\ ending \in BOOLEAN /\ alive \in BOOLEAN
  /\ closing \in BOOLEAN /\ sweep \in BOOLEAN

-----------------------------------------------------------------------------
(* Where the goroutines are.                                               *)

InSettlement == {"sweep", "join", "commit", "claim"}
Running      == {"installed", "sent", "clear"} \cup InSettlement
Admitting    == {"open", "opened", "check", "deny", "register"}
Open         == {"call", "wait", "reply", "unregister"}

\* The session's turn is the prompt between its installation and its answer.
Held == \A p \in Prompts : prompt[p] \in Running <=> turn = p

\* A settlement has begun by closing the admission of dialogs, a close too.
Refusing ==
  /\ \A p \in Prompts : prompt[p] \in InSettlement => p \in settling
  /\ close.at # "open" => closing

\* The request the pump works on is not admitted yet, an admitted one is open
\* until it is unregistered.
Admitted ==
  /\ pump \in Admitting => work.request \in Requests /\ pc[work.request] = "unsent"
  /\ \A r \in dialogs : pc[r] \in Open

\* The process is gone before a close or its own end goes past its dialogs.
Lost ==
  /\ close.at \in {"stop", "final", "closed"} => ~alive
  /\ pump \in {"end-sweep", "end-join", "end-wait"} => ~alive

\* While it lives, only the result the pump delivers settles a prompt, and the
\* pump waits for the settlement.
Delivers ==
  /\ \A p \in Prompts : prompt[p] \in InSettlement \/ p \in ended => settled[p] # "no"
  /\ alive => \A p \in Prompts :
       /\ settled[p] # "lost"
       /\ settled[p] = "result" /\ prompt[p] # "over" => pump = "deliver" /\ work.turn = p

\* A cycle that has begun is not begun again, and a cycle is what the pump
\* settles or loses.
Begun ==
  /\ pump \in {"sweep", "join", "clear"} => work.fg \in Cycles
  /\ pump \in {"end-sweep", "end-join", "end-wait"} => work.fg \in Cycles \cup {None}
  /\ cycle # None => cycle \in begun
  /\ work.fg \in Cycles => work.fg \in begun
  /\ ended \cap Cycles \subseteq begun

\* While the process lives, the foreground the pump admits a request for is a
\* prompt that is not settled, maybe answered already, or the session's cycle,
\* and that cycle is open unless the pump has just settled it.
Serving ==
  alive =>
    /\ pump \in {"opened", "check", "register"} =>
         \/ /\ work.fg \in Prompts /\ settled[work.fg] = "no"
            /\ prompt[work.fg] \in Running \cup {"over"}
         \/ work.fg \in Cycles /\ work.fg = cycle
    /\ pump \in {"sweep", "join", "clear"} => work.fg = cycle
    /\ cycle # None /\ pump # "clear" => cycle \notin ended

\* Every step keeps the types: what the pump admits is a request of the session,
\* what it settles or loses is a foreground.
LEMMA TypesStep ==
  ASSUME Admitted, Begun, Types, Next
  PROVE  Types'
<1> USE DialogsAssumption DEF
        Types, Admitted, Admitting, Begun, fgVars, nativeVars, pumpVars, closeVars,
        joinVars, dialogVars
<1>1. ASSUME NEW p \in Prompts, InstallTurn(p)
      PROVE  Types'
  BY <1>1 DEF InstallTurn, Step
<1>2. ASSUME NEW p \in Prompts, TurnStep(p)
      PROVE  Types'
  <2>1. CASE Dispatch(p)
    BY <2>1 DEF Dispatch, Step, Swept
  <2>2. CASE AbortExpires(p)
    BY <2>2 DEF AbortExpires, Step, Settled, Swept
  <2>3. CASE BeginSettlement(p)
    BY <2>3 DEF BeginSettlement, Step, Swept
  <2>4. CASE SettlementSweep(p)
    BY <2>4 DEF SettlementSweep, Step, Swept
  <2>5. CASE SettlementJoin(p)
    BY <2>5 DEF SettlementJoin, Step, Swept
  <2>6. CASE CommitTurn(p)
    BY <2>6 DEF CommitTurn, Step, Swept
  <2>7. CASE PublishTurnIdle(p)
    BY <2>7 DEF PublishTurnIdle, Step, Swept
  <2>8. CASE ClearTurn(p)
    BY <2>8 DEF ClearTurn, Step, Swept
  <2> QED
    BY <1>2, <2>1, <2>2, <2>3, <2>4, <2>5, <2>6, <2>7, <2>8 DEF TurnStep
<1>3. ASSUME NEW r \in Requests, DialogStep(r) \/ HostAnswers(r)
      PROVE  Types'
  BY <1>3 DEF DialogStep, HostAnswers, Call, CallCancelled, Returns, Reply, Unregister
<1>4. ASSUME Cancel \/ CancelSweep \/ InterruptEnds
      PROVE  Types'
  <2>1. CASE Cancel
    BY <2>1 DEF Cancel, Foreground, CancelSwept, Swept
  <2>2. CASE CancelSweep
    BY <2>2 DEF CancelSweep, CancelSwept, Swept
  <2>3. CASE InterruptEnds
    BY <2>3 DEF InterruptEnds, CancelSwept, Swept
  <2> QED
    BY <1>4, <2>1, <2>2, <2>3
<1>5. ASSUME Native
      PROVE  Types'
  <2>1. CASE Exit
    BY <2>1 DEF Exit, Nothing, Swept
  <2>2. CASE TurnResult
    BY <2>2 DEF TurnResult, Nothing, Settled, Swept
  <2>3. CASE CycleResult
    BY <2>3 DEF CycleResult, Nothing, Swept
  <2>4. CASE OpenWorkCycle
    BY <2>4 DEF OpenWorkCycle, Nothing
  <2>5. ASSUME NEW r \in Requests, HandleControl(r)
        PROVE  Types'
    BY <2>5 DEF HandleControl, Nothing, Foreground, Swept
  <2>6. ASSUME NEW r \in Requests, NativeCancel(r)
        PROVE  Types'
    BY <2>6 DEF NativeCancel, Nothing, Swept
  <2> QED
    BY <1>5, <2>1, <2>2, <2>3, <2>4, <2>5, <2>6 DEF Native
<1>6. ASSUME Admission
      PROVE  Types'
  BY <1>6 DEF Admission, OpenAgentCycle, CycleOpened, CheckCancelled, Deny,
             RegisterDialog, PumpAt, Nothing
<1>7. ASSUME PumpStep, ~Admission
      PROVE  Types'
  <2>1. CASE FinishDelivery
    BY <2>1 DEF FinishDelivery, PumpAt, Nothing, Finished, Swept
  <2>2. CASE CycleSweep
    BY <2>2 DEF CycleSweep, PumpAt, Nothing, Swept
  <2>3. CASE SettleCycle
    BY <2>3 DEF SettleCycle, PumpAt, Nothing, Swept
  <2>4. CASE ClearCycle
    BY <2>4 DEF ClearCycle, PumpAt, Nothing, Swept
  <2>5. CASE RuntimeEnded
    BY <2>5 DEF RuntimeEnded, PumpAt, Nothing, Swept
  <2>6. CASE EndSweep
    BY <2>6 DEF EndSweep, PumpAt, Nothing, Swept
  <2>7. CASE EndForeground
    BY <2>7 DEF EndForeground, PumpAt, Nothing, Settled, Swept
  <2>8. CASE RetireRuntime
    BY <2>8 DEF RetireRuntime, PumpAt, Nothing, Swept
  <2> QED
    BY <1>7, <2>1, <2>2, <2>3, <2>4, <2>5, <2>6, <2>7, <2>8 DEF PumpStep, Admission
<1>8. ASSUME BeginClose \/ CloseStep
      PROVE  Types'
  <2>1. CASE BeginClose
    BY <2>1 DEF BeginClose, CloseAt, Swept
  <2>2. CASE CloseSweep
    BY <2>2 DEF CloseSweep, CloseAt, Swept
  <2>3. CASE CloseJoin
    BY <2>3 DEF CloseJoin, CloseAt, Swept
  <2>4. CASE CloseStop
    BY <2>4 DEF CloseStop, CloseAt, Swept
  <2>5. CASE CloseJoinPump
    BY <2>5 DEF CloseJoinPump, CloseAt, Swept
  <2>6. CASE CloseCycle
    BY <2>6 DEF CloseCycle, CloseAt, Swept
  <2> QED
    BY <1>8, <2>1, <2>2, <2>3, <2>4, <2>5, <2>6 DEF CloseStep
<1> QED
  BY <1>1, <1>2, <1>3, <1>4, <1>5, <1>6, <1>7, <1>8 DEF Next

\* The flags are set and cleared, nothing else.
LEMMA FlagsStep ==
  ASSUME Flags, Next
  PROVE  Flags'
<1> USE DEF
        Flags, fgVars, nativeVars, pumpVars, closeVars, joinVars, dialogVars
<1>1. ASSUME NEW p \in Prompts, InstallTurn(p)
      PROVE  Flags'
  BY <1>1 DEF InstallTurn, Step
<1>2. ASSUME NEW p \in Prompts, TurnStep(p)
      PROVE  Flags'
  <2>1. CASE Dispatch(p)
    BY Zenon, <2>1 DEF Dispatch, Step
  <2>2. CASE AbortExpires(p)
    BY Zenon, <2>2 DEF AbortExpires, Step, Settled
  <2>3. CASE BeginSettlement(p)
    BY Zenon, <2>3 DEF BeginSettlement, Step
  <2>4. CASE SettlementSweep(p)
    BY Zenon, <2>4 DEF SettlementSweep, Step
  <2>5. CASE SettlementJoin(p)
    BY Zenon, <2>5 DEF SettlementJoin, Step
  <2>6. CASE CommitTurn(p)
    BY Zenon, <2>6 DEF CommitTurn, Step
  <2>7. CASE PublishTurnIdle(p)
    BY Zenon, <2>7 DEF PublishTurnIdle, Step
  <2>8. CASE ClearTurn(p)
    BY Zenon, <2>8 DEF ClearTurn, Step
  <2> QED
    BY <1>2, <2>1, <2>2, <2>3, <2>4, <2>5, <2>6, <2>7, <2>8 DEF TurnStep
<1>3. ASSUME NEW r \in Requests, DialogStep(r) \/ HostAnswers(r)
      PROVE  Flags'
  BY <1>3 DEF DialogStep, HostAnswers, Call, CallCancelled, Returns, Reply, Unregister
<1>4. ASSUME Cancel \/ CancelSweep \/ InterruptEnds
      PROVE  Flags'
  <2>1. CASE Cancel
    BY Zenon, <2>1 DEF Cancel, Foreground
  <2>2. CASE CancelSweep
    BY Zenon, <2>2 DEF CancelSweep
  <2>3. CASE InterruptEnds
    BY Zenon, <2>3 DEF InterruptEnds
  <2> QED
    BY <1>4, <2>1, <2>2, <2>3
<1>5. ASSUME Native
      PROVE  Flags'
  <2>1. CASE Exit
    BY Zenon, <2>1 DEF Exit, Nothing
  <2>2. CASE TurnResult
    BY Zenon, <2>2 DEF TurnResult, Nothing, Settled
  <2>3. CASE CycleResult
    BY Zenon, <2>3 DEF CycleResult, Nothing
  <2>4. CASE OpenWorkCycle
    BY Zenon, <2>4 DEF OpenWorkCycle, Nothing
  <2>5. ASSUME NEW r \in Requests, HandleControl(r)
        PROVE  Flags'
    BY Zenon, <2>5 DEF HandleControl, Nothing, Foreground
  <2>6. ASSUME NEW r \in Requests, NativeCancel(r)
        PROVE  Flags'
    BY Zenon, <2>6 DEF NativeCancel, Nothing
  <2> QED
    BY <1>5, <2>1, <2>2, <2>3, <2>4, <2>5, <2>6 DEF Native
<1>6. ASSUME Admission
      PROVE  Flags'
  BY <1>6 DEF Admission, OpenAgentCycle, CycleOpened, CheckCancelled, Deny,
             RegisterDialog, PumpAt, Nothing
<1>7. ASSUME PumpStep, ~Admission
      PROVE  Flags'
  <2>1. CASE FinishDelivery
    BY Zenon, <2>1 DEF FinishDelivery, PumpAt, Nothing, Finished
  <2>2. CASE CycleSweep
    BY Zenon, <2>2 DEF CycleSweep, PumpAt, Nothing
  <2>3. CASE SettleCycle
    BY Zenon, <2>3 DEF SettleCycle, PumpAt, Nothing
  <2>4. CASE ClearCycle
    BY Zenon, <2>4 DEF ClearCycle, PumpAt, Nothing
  <2>5. CASE RuntimeEnded
    BY Zenon, <2>5 DEF RuntimeEnded, PumpAt, Nothing
  <2>6. CASE EndSweep
    BY Zenon, <2>6 DEF EndSweep, PumpAt, Nothing
  <2>7. CASE EndForeground
    BY Zenon, <2>7 DEF EndForeground, PumpAt, Nothing, Settled
  <2>8. CASE RetireRuntime
    BY Zenon, <2>8 DEF RetireRuntime, PumpAt, Nothing
  <2> QED
    BY <1>7, <2>1, <2>2, <2>3, <2>4, <2>5, <2>6, <2>7, <2>8 DEF PumpStep, Admission
<1>8. ASSUME BeginClose \/ CloseStep
      PROVE  Flags'
  <2>1. CASE BeginClose
    BY Zenon, <2>1 DEF BeginClose, CloseAt
  <2>2. CASE CloseSweep
    BY Zenon, <2>2 DEF CloseSweep, CloseAt
  <2>3. CASE CloseJoin
    BY Zenon, <2>3 DEF CloseJoin, CloseAt
  <2>4. CASE CloseStop
    BY Zenon, <2>4 DEF CloseStop, CloseAt
  <2>5. CASE CloseJoinPump
    BY Zenon, <2>5 DEF CloseJoinPump, CloseAt
  <2>6. CASE CloseCycle
    BY Zenon, <2>6 DEF CloseCycle, CloseAt
  <2> QED
    BY <1>8, <2>1, <2>2, <2>3, <2>4, <2>5, <2>6 DEF CloseStep
<1> QED
  BY <1>1, <1>2, <1>3, <1>4, <1>5, <1>6, <1>7, <1>8 DEF Next

\* s.turn is set and cleared with the prompt that holds it.
LEMMA HeldStep ==
  ASSUME Types, Held, Next
  PROVE  Held'
<1> USE DialogsAssumption DEF
        Types, Held, InSettlement, Running, Admitting, Open, fgVars, nativeVars,
        pumpVars, closeVars, joinVars, dialogVars
<1>1. ASSUME NEW p \in Prompts, InstallTurn(p)
      PROVE  Held'
  BY <1>1 DEF InstallTurn, Step
<1>2. ASSUME NEW p \in Prompts, TurnStep(p)
      PROVE  Held'
  BY <1>2 DEF TurnStep, Step, Dispatch, AbortExpires, Settled, BeginSettlement,
             SettlementSweep, SettlementJoin, CommitTurn, PublishTurnIdle, ClearTurn
<1>3. ASSUME NEW r \in Requests, DialogStep(r) \/ HostAnswers(r)
      PROVE  Held'
  BY <1>3 DEF DialogStep, HostAnswers, Call, CallCancelled, Returns, Reply, Unregister
<1>4. ASSUME Cancel \/ CancelSweep \/ InterruptEnds
      PROVE  Held'
  BY <1>4 DEF Cancel, CancelSweep, InterruptEnds, Foreground
<1>5. ASSUME Native
      PROVE  Held'
  BY <1>5 DEF Native, Exit, TurnResult, Settled, CycleResult, OpenWorkCycle, HandleControl,
             NativeCancel, Foreground, Nothing
<1>6. ASSUME Admission
      PROVE  Held'
  BY <1>6 DEF Admission, OpenAgentCycle, CycleOpened, CheckCancelled, Deny,
             RegisterDialog, PumpAt, Nothing
<1>7. ASSUME PumpStep, ~Admission
      PROVE  Held'
  BY <1>7 DEF PumpStep, Admission, FinishDelivery, Finished, CycleSweep, SettleCycle,
             ClearCycle, RuntimeEnded, EndSweep, EndForeground, Settled,
             RetireRuntime, PumpAt, Nothing
<1>8. ASSUME BeginClose \/ CloseStep
      PROVE  Held'
  BY <1>8 DEF BeginClose, CloseStep, CloseAt, CloseSweep, CloseJoin, CloseStop,
             CloseJoinPump, CloseCycle
<1> QED
  BY <1>1, <1>2, <1>3, <1>4, <1>5, <1>6, <1>7, <1>8 DEF Next

\* A settlement and a close mark before they sweep, and no mark is taken back.
LEMMA RefusingStep ==
  ASSUME Types, Held, Refusing, Next
  PROVE  Refusing'
<1> USE DialogsAssumption DEF
        Types, Refusing, InSettlement, Running, Admitting, Open, Held, fgVars,
        nativeVars, pumpVars, closeVars, joinVars, dialogVars
<1>1. ASSUME NEW p \in Prompts, InstallTurn(p)
      PROVE  Refusing'
  BY <1>1 DEF InstallTurn, Step
<1>2. ASSUME NEW p \in Prompts, TurnStep(p)
      PROVE  Refusing'
  BY <1>2 DEF TurnStep, Step, Dispatch, AbortExpires, Settled, BeginSettlement,
             SettlementSweep, SettlementJoin, CommitTurn, PublishTurnIdle, ClearTurn
<1>3. ASSUME NEW r \in Requests, DialogStep(r) \/ HostAnswers(r)
      PROVE  Refusing'
  BY <1>3 DEF DialogStep, HostAnswers, Call, CallCancelled, Returns, Reply, Unregister
<1>4. ASSUME Cancel \/ CancelSweep \/ InterruptEnds
      PROVE  Refusing'
  BY <1>4 DEF Cancel, CancelSweep, InterruptEnds, Foreground
<1>5. ASSUME Native
      PROVE  Refusing'
  BY <1>5 DEF Native, Exit, TurnResult, Settled, CycleResult, OpenWorkCycle, HandleControl,
             NativeCancel, Foreground, Nothing
<1>6. ASSUME Admission
      PROVE  Refusing'
  BY <1>6 DEF Admission, OpenAgentCycle, CycleOpened, CheckCancelled, Deny,
             RegisterDialog, PumpAt, Nothing
<1>7. ASSUME PumpStep, ~Admission
      PROVE  Refusing'
  BY <1>7 DEF PumpStep, Admission, FinishDelivery, Finished, CycleSweep, SettleCycle,
             ClearCycle, RuntimeEnded, EndSweep, EndForeground, Settled,
             RetireRuntime, PumpAt, Nothing
<1>8. ASSUME BeginClose \/ CloseStep
      PROVE  Refusing'
  BY <1>8 DEF BeginClose, CloseStep, CloseAt, CloseSweep, CloseJoin, CloseStop,
             CloseJoinPump, CloseCycle
<1> QED
  BY <1>1, <1>2, <1>3, <1>4, <1>5, <1>6, <1>7, <1>8 DEF Next

\* Only the pump admits, one request at a time, and only a request's own
\* goroutine unregisters it.
LEMMA AdmittedStep ==
  ASSUME Types, Admitted, Next
  PROVE  Admitted'
<1> USE DialogsAssumption DEF
        Types, Admitted, InSettlement, Running, Admitting, Open, fgVars, nativeVars,
        pumpVars, closeVars, joinVars, dialogVars
<1>1. ASSUME NEW p \in Prompts, InstallTurn(p)
      PROVE  Admitted'
  BY <1>1 DEF InstallTurn, Step
<1>2. ASSUME NEW p \in Prompts, TurnStep(p)
      PROVE  Admitted'
  BY <1>2 DEF TurnStep, Step, Dispatch, AbortExpires, Settled, BeginSettlement,
             SettlementSweep, SettlementJoin, CommitTurn, PublishTurnIdle, ClearTurn
<1>3. ASSUME NEW r \in Requests, DialogStep(r) \/ HostAnswers(r)
      PROVE  Admitted'
  BY <1>3 DEF DialogStep, HostAnswers, Call, CallCancelled, Returns, Reply, Unregister
<1>4. ASSUME Cancel \/ CancelSweep \/ InterruptEnds
      PROVE  Admitted'
  BY <1>4 DEF Cancel, CancelSweep, InterruptEnds, Foreground
<1>5. ASSUME Native
      PROVE  Admitted'
  BY <1>5 DEF Native, Exit, TurnResult, Settled, CycleResult, OpenWorkCycle, HandleControl,
             NativeCancel, Foreground, Nothing
<1>6. ASSUME Admission
      PROVE  Admitted'
  BY <1>6 DEF Admission, OpenAgentCycle, CycleOpened, CheckCancelled, Deny,
             RegisterDialog, PumpAt, Nothing
<1>7. ASSUME PumpStep, ~Admission
      PROVE  Admitted'
  BY <1>7 DEF PumpStep, Admission, FinishDelivery, Finished, CycleSweep, SettleCycle,
             ClearCycle, RuntimeEnded, EndSweep, EndForeground, Settled,
             RetireRuntime, PumpAt, Nothing
<1>8. ASSUME BeginClose \/ CloseStep
      PROVE  Admitted'
  BY <1>8 DEF BeginClose, CloseStep, CloseAt, CloseSweep, CloseJoin, CloseStop,
             CloseJoinPump, CloseCycle
<1> QED
  BY <1>1, <1>2, <1>3, <1>4, <1>5, <1>6, <1>7, <1>8 DEF Next

\* No step starts a process, so what was gone stays gone.
LEMMA LostStep ==
  ASSUME Types, Lost, Next
  PROVE  Lost'
<1> USE DialogsAssumption DEF
        Types, Lost, InSettlement, Running, Admitting, Open, fgVars, nativeVars,
        pumpVars, closeVars, joinVars, dialogVars
<1>1. ASSUME NEW p \in Prompts, InstallTurn(p)
      PROVE  Lost'
  BY <1>1 DEF InstallTurn, Step
<1>2. ASSUME NEW p \in Prompts, TurnStep(p)
      PROVE  Lost'
  BY <1>2 DEF TurnStep, Step, Dispatch, AbortExpires, Settled, BeginSettlement,
             SettlementSweep, SettlementJoin, CommitTurn, PublishTurnIdle, ClearTurn
<1>3. ASSUME NEW r \in Requests, DialogStep(r) \/ HostAnswers(r)
      PROVE  Lost'
  BY <1>3 DEF DialogStep, HostAnswers, Call, CallCancelled, Returns, Reply, Unregister
<1>4. ASSUME Cancel \/ CancelSweep \/ InterruptEnds
      PROVE  Lost'
  BY <1>4 DEF Cancel, CancelSweep, InterruptEnds, Foreground
<1>5. ASSUME Native
      PROVE  Lost'
  BY <1>5 DEF Native, Exit, TurnResult, Settled, CycleResult, OpenWorkCycle, HandleControl,
             NativeCancel, Foreground, Nothing
<1>6. ASSUME Admission
      PROVE  Lost'
  BY <1>6 DEF Admission, OpenAgentCycle, CycleOpened, CheckCancelled, Deny,
             RegisterDialog, PumpAt, Nothing
<1>7. ASSUME PumpStep, ~Admission
      PROVE  Lost'
  BY <1>7 DEF PumpStep, Admission, FinishDelivery, Finished, CycleSweep, SettleCycle,
             ClearCycle, RuntimeEnded, EndSweep, EndForeground, Settled,
             RetireRuntime, PumpAt, Nothing
<1>8. ASSUME BeginClose \/ CloseStep
      PROVE  Lost'
  BY <1>8 DEF BeginClose, CloseStep, CloseAt, CloseSweep, CloseJoin, CloseStop,
             CloseJoinPump, CloseCycle
<1> QED
  BY <1>1, <1>2, <1>3, <1>4, <1>5, <1>6, <1>7, <1>8 DEF Next

\* The pump reads no record while a prompt it settled is not over.
LEMMA DeliversStep ==
  ASSUME Types, Held, Lost, Begun, Delivers, Next
  PROVE  Delivers'
<1> USE DialogsAssumption DEF
        Types, Delivers, InSettlement, Running, Admitting, Open, Held, Lost, Begun,
        fgVars, nativeVars, pumpVars, closeVars, joinVars, dialogVars
<1>1. ASSUME NEW p \in Prompts, InstallTurn(p)
      PROVE  Delivers'
  BY <1>1 DEF InstallTurn, Step
<1>2. ASSUME NEW p \in Prompts, TurnStep(p)
      PROVE  Delivers'
  BY <1>2 DEF TurnStep, Step, Dispatch, AbortExpires, Settled, BeginSettlement,
             SettlementSweep, SettlementJoin, CommitTurn, PublishTurnIdle, ClearTurn
<1>3. ASSUME NEW r \in Requests, DialogStep(r) \/ HostAnswers(r)
      PROVE  Delivers'
  BY <1>3 DEF DialogStep, HostAnswers, Call, CallCancelled, Returns, Reply, Unregister
<1>4. ASSUME Cancel \/ CancelSweep \/ InterruptEnds
      PROVE  Delivers'
  BY <1>4 DEF Cancel, CancelSweep, InterruptEnds, Foreground
<1>5. ASSUME Native
      PROVE  Delivers'
  BY <1>5 DEF Native, Exit, TurnResult, Settled, CycleResult, OpenWorkCycle, HandleControl,
             NativeCancel, Foreground, Nothing
<1>6. ASSUME Admission
      PROVE  Delivers'
  BY <1>6 DEF Admission, OpenAgentCycle, CycleOpened, CheckCancelled, Deny,
             RegisterDialog, PumpAt, Nothing
<1>7. ASSUME PumpStep, ~Admission
      PROVE  Delivers'
  <2>1. CASE FinishDelivery
    BY <2>1 DEF FinishDelivery, PumpAt, Nothing, Finished, Lost
  <2>2. CASE CycleSweep
    BY <2>2 DEF CycleSweep, PumpAt, Nothing, Lost
  <2>3. CASE SettleCycle
    BY <2>3 DEF SettleCycle, PumpAt, Nothing, Lost
  <2>4. CASE ClearCycle
    BY <2>4 DEF ClearCycle, PumpAt, Nothing, Lost
  <2>5. CASE RuntimeEnded
    BY <2>5 DEF RuntimeEnded, PumpAt, Nothing, Lost
  <2>6. CASE EndSweep
    BY <2>6 DEF EndSweep, PumpAt, Nothing, Lost
  <2>7. CASE EndForeground
    BY <2>7 DEF EndForeground, PumpAt, Nothing, Settled, Lost
  <2>8. CASE RetireRuntime
    BY <2>8 DEF RetireRuntime, PumpAt, Nothing, Lost
  <2> QED
    BY <1>7, <2>1, <2>2, <2>3, <2>4, <2>5, <2>6, <2>7, <2>8 DEF PumpStep, Admission
<1>8. ASSUME BeginClose \/ CloseStep
      PROVE  Delivers'
  BY <1>8 DEF BeginClose, CloseStep, CloseAt, CloseSweep, CloseJoin, CloseStop,
             CloseJoinPump, CloseCycle
<1> QED
  BY <1>1, <1>2, <1>3, <1>4, <1>5, <1>6, <1>7, <1>8 DEF Next

\* A cycle is opened once.
LEMMA BegunStep ==
  ASSUME Types, Admitted, Begun, Next
  PROVE  Begun'
<1> USE DialogsAssumption DEF
        Types, Begun, InSettlement, Running, Admitting, Open, Admitted, fgVars,
        nativeVars, pumpVars, closeVars, joinVars, dialogVars
<1>1. ASSUME NEW p \in Prompts, InstallTurn(p)
      PROVE  Begun'
  BY <1>1 DEF InstallTurn, Step
<1>2. ASSUME NEW p \in Prompts, TurnStep(p)
      PROVE  Begun'
  BY <1>2 DEF TurnStep, Step, Dispatch, AbortExpires, Settled, BeginSettlement,
             SettlementSweep, SettlementJoin, CommitTurn, PublishTurnIdle, ClearTurn
<1>3. ASSUME NEW r \in Requests, DialogStep(r) \/ HostAnswers(r)
      PROVE  Begun'
  BY <1>3 DEF DialogStep, HostAnswers, Call, CallCancelled, Returns, Reply, Unregister
<1>4. ASSUME Cancel \/ CancelSweep \/ InterruptEnds
      PROVE  Begun'
  BY <1>4 DEF Cancel, CancelSweep, InterruptEnds, Foreground
<1>5. ASSUME Native
      PROVE  Begun'
  BY <1>5 DEF Native, Exit, TurnResult, Settled, CycleResult, OpenWorkCycle, HandleControl,
             NativeCancel, Foreground, Nothing
<1>6. ASSUME Admission
      PROVE  Begun'
  BY <1>6 DEF Admission, OpenAgentCycle, CycleOpened, CheckCancelled, Deny,
             RegisterDialog, PumpAt, Nothing
<1>7. ASSUME PumpStep, ~Admission
      PROVE  Begun'
  BY <1>7 DEF PumpStep, Admission, FinishDelivery, Finished, CycleSweep, SettleCycle,
             ClearCycle, RuntimeEnded, EndSweep, EndForeground, Settled,
             RetireRuntime, PumpAt, Nothing
<1>8. ASSUME BeginClose \/ CloseStep
      PROVE  Begun'
  BY <1>8 DEF BeginClose, CloseStep, CloseAt, CloseSweep, CloseJoin, CloseStop,
             CloseJoinPump, CloseCycle
<1> QED
  BY <1>1, <1>2, <1>3, <1>4, <1>5, <1>6, <1>7, <1>8 DEF Next

\* While the process lives, only the pump settles the foreground it serves.
LEMMA ServingStep ==
  ASSUME Types, Held, Delivers, Begun, Lost, Serving, Next
  PROVE  Serving'
<1> USE DialogsAssumption DEF
        Types, Serving, InSettlement, Running, Admitting, Open, Held, Delivers, Begun,
        Lost, fgVars, nativeVars, pumpVars, closeVars, joinVars, dialogVars
<1>1. ASSUME NEW p \in Prompts, InstallTurn(p)
      PROVE  Serving'
  BY <1>1 DEF InstallTurn, Step
<1>2. ASSUME NEW p \in Prompts, TurnStep(p)
      PROVE  Serving'
  <2>1. CASE Dispatch(p)
    BY <2>1 DEF Dispatch, Step
  <2>2. CASE AbortExpires(p)
    BY <2>2 DEF AbortExpires, Step, Settled
  <2>3. CASE BeginSettlement(p)
    BY <2>3 DEF BeginSettlement, Step
  <2>4. CASE SettlementSweep(p)
    BY <2>4 DEF SettlementSweep, Step
  <2>5. CASE SettlementJoin(p)
    BY <2>5 DEF SettlementJoin, Step
  <2>6. CASE CommitTurn(p)
    BY <2>6 DEF CommitTurn, Step
  <2>7. CASE PublishTurnIdle(p)
    BY <2>7 DEF PublishTurnIdle, Step
  <2>8. CASE ClearTurn(p)
    BY <2>8 DEF ClearTurn, Step
  <2> QED
    BY <1>2, <2>1, <2>2, <2>3, <2>4, <2>5, <2>6, <2>7, <2>8 DEF TurnStep
<1>3. ASSUME NEW r \in Requests, DialogStep(r) \/ HostAnswers(r)
      PROVE  Serving'
  <2>1. CASE Call(r)
    BY <2>1 DEF Call, Returns
  <2>2. CASE CallCancelled(r)
    BY <2>2 DEF CallCancelled, Returns
  <2>3. CASE HostAnswers(r)
    BY <2>3 DEF HostAnswers, Returns
  <2>4. CASE Reply(r)
    BY <2>4 DEF Reply, Returns
  <2>5. CASE Unregister(r)
    BY <2>5 DEF Unregister, Returns
  <2> QED
    BY <1>3, <2>1, <2>2, <2>3, <2>4, <2>5 DEF DialogStep
<1>4. ASSUME Cancel \/ CancelSweep \/ InterruptEnds
      PROVE  Serving'
  <2>1. CASE Cancel
    BY <2>1 DEF Cancel, Foreground
  <2>2. CASE CancelSweep
    BY <2>2 DEF CancelSweep
  <2>3. CASE InterruptEnds
    BY <2>3 DEF InterruptEnds
  <2> QED
    BY <1>4, <2>1, <2>2, <2>3
<1>5. ASSUME Native
      PROVE  Serving'
  <2>1. CASE Exit
    BY <2>1 DEF Exit, Nothing
  <2>2. CASE TurnResult
    BY <2>2 DEF TurnResult, Nothing, Settled
  <2>3. CASE CycleResult
    BY <2>3 DEF CycleResult, Nothing
  <2>4. CASE OpenWorkCycle
    BY <2>4 DEF OpenWorkCycle, Nothing
  <2>5. ASSUME NEW r \in Requests, HandleControl(r)
        PROVE  Serving'
    BY <2>5 DEF HandleControl, Nothing, Foreground
  <2>6. ASSUME NEW r \in Requests, NativeCancel(r)
        PROVE  Serving'
    BY <2>6 DEF NativeCancel, Nothing
  <2> QED
    BY <1>5, <2>1, <2>2, <2>3, <2>4, <2>5, <2>6 DEF Native
<1>6. ASSUME Admission
      PROVE  Serving'
  <2>1. CASE OpenAgentCycle
    BY <2>1 DEF OpenAgentCycle, PumpAt, Nothing
  <2>2. CASE CycleOpened
    BY <2>2 DEF CycleOpened, PumpAt, Nothing
  <2>3. CASE CheckCancelled
    BY <2>3 DEF CheckCancelled, PumpAt, Nothing
  <2>4. CASE Deny
    BY <2>4 DEF Deny, PumpAt, Nothing
  <2>5. CASE RegisterDialog
    BY <2>5 DEF RegisterDialog, PumpAt, Nothing
  <2> QED
    BY <1>6, <2>1, <2>2, <2>3, <2>4, <2>5 DEF Admission
<1>7. ASSUME PumpStep, ~Admission
      PROVE  Serving'
  BY <1>7 DEF PumpStep, Admission, FinishDelivery, Finished, CycleSweep, SettleCycle,
             ClearCycle, RuntimeEnded, EndSweep, EndForeground, Settled,
             RetireRuntime, PumpAt, Nothing
<1>8. ASSUME BeginClose \/ CloseStep
      PROVE  Serving'
  <2>1. CASE BeginClose
    BY <2>1 DEF BeginClose, CloseAt
  <2>2. CASE CloseSweep
    BY <2>2 DEF CloseSweep, CloseAt
  <2>3. CASE CloseJoin
    BY <2>3 DEF CloseJoin, CloseAt
  <2>4. CASE CloseStop
    BY <2>4 DEF CloseStop, CloseAt
  <2>5. CASE CloseJoinPump
    BY <2>5 DEF CloseJoinPump, CloseAt
  <2>6. CASE CloseCycle
    BY <2>6 DEF CloseCycle, CloseAt
  <2> QED
    BY <1>8, <2>1, <2>2, <2>3, <2>4, <2>5, <2>6 DEF CloseStep
<1> QED
  BY <1>1, <1>2, <1>3, <1>4, <1>5, <1>6, <1>7, <1>8 DEF Next

-----------------------------------------------------------------------------
(* The counters.                                                           *)

\* The WaitGroup counts the open dialogs and the interrupts under way.
Counted == interrupts \in Nat /\ callbacks = Cardinality(dialogs) + interrupts

\* The budget of calls counts the dialogs inside one.
Waiting     == {r \in Requests : pc[r] = "wait"}
CallsCounted == calls = Cardinality(Waiting)

\* What is counted is finite.
LEMMA FiniteDialogs ==
  ASSUME Types
  PROVE  /\ IsFiniteSet(dialogs) /\ IsFiniteSet(Waiting)
         /\ Cardinality(dialogs) \in Nat /\ Cardinality(Waiting) \in Nat
<1>1. dialogs \in SUBSET Requests /\ Waiting \in SUBSET Requests
  BY DEF Types, Waiting
<1>2. IsFiniteSet(dialogs) /\ IsFiniteSet(Waiting)
  BY <1>1, DialogsAssumption, FS_Subset
<1> QED
  BY <1>2, FS_CardinalityType

\* Who has waited for the WaitGroup finds no dialog open.
LEMMA JoinedEmpty ==
  ASSUME Types, Counted, Joined
  PROVE  dialogs = {}
<1>1. Cardinality(dialogs) = 0
  BY FiniteDialogs DEF Counted, Joined
<1> QED
  BY <1>1, FiniteDialogs, FS_EmptySet

\* An admission counts what it registers, a refusal counts nothing.
LEMMA RegisterCounts ==
  ASSUME Types, Admitted, Counted, RegisterDialog
  PROVE  Counted'
<1>1. CASE UNCHANGED joinVars
  BY <1>1 DEF Counted, joinVars
<1>2. CASE dialogs' = dialogs \cup {work.request} /\ callbacks' = callbacks + 1
  <2>1. work.request \notin dialogs /\ UNCHANGED interrupts
    BY DEF RegisterDialog, PumpAt, Admitted, Admitting, Open
  <2>2. Cardinality(dialogs \cup {work.request}) = Cardinality(dialogs) + 1
    BY <2>1, FiniteDialogs, FS_AddElement
  <2> QED
    BY <1>2, <2>1, <2>2, FiniteDialogs DEF Counted
<1> QED
  BY <1>1, <1>2 DEF RegisterDialog, joinVars

\* The end of a request gives back what its admission counted.
LEMMA UnregisterCounts ==
  ASSUME Types, Counted, NEW r \in Requests, Unregister(r)
  PROVE  Counted'
<1>1. dialogs' = dialogs \ {r} /\ UNCHANGED interrupts
  BY DEF Unregister
<1>2. callbacks' = IF r \in dialogs THEN callbacks - 1 ELSE callbacks
  BY DEF Unregister, Done
<1>3. Cardinality(dialogs \ {r}) =
        IF r \in dialogs THEN Cardinality(dialogs) - 1 ELSE Cardinality(dialogs)
  BY FiniteDialogs, FS_RemoveElement
<1> QED
  BY <1>1, <1>2, <1>3, FiniteDialogs DEF Counted

\* Every step keeps the WaitGroup at what it joins.
LEMMA CountedStep ==
  ASSUME Types, Admitted, Counted, Next
  PROVE  Counted'
<1> USE DEF
        Types, Counted, fgVars, nativeVars, pumpVars, closeVars, joinVars, dialogVars
<1>1. ASSUME NEW p \in Prompts, InstallTurn(p)
      PROVE  Counted'
  BY <1>1 DEF InstallTurn, Step
<1>2. ASSUME NEW p \in Prompts, TurnStep(p)
      PROVE  Counted'
  BY <1>2 DEF TurnStep, Step, Dispatch, AbortExpires, Settled, BeginSettlement,
             SettlementSweep, SettlementJoin, CommitTurn, PublishTurnIdle, ClearTurn
<1>3. ASSUME NEW r \in Requests, DialogStep(r) \/ HostAnswers(r)
      PROVE  Counted'
  <2>1. CASE Unregister(r)
    BY <2>1, UnregisterCounts
  <2>2. CASE ~Unregister(r)
    BY <1>3, <2>2 DEF DialogStep, HostAnswers, Call, CallCancelled, Returns, Reply
  <2> QED
    BY <2>1, <2>2
<1>4. ASSUME Cancel \/ CancelSweep \/ InterruptEnds
      PROVE  Counted'
  <2>1. CASE Cancel
    <3>1. /\ (interrupts' = interrupts + 1 /\ callbacks' = callbacks + 1) \/ UNCHANGED joinVars
          /\ UNCHANGED dialogs
      BY <2>1 DEF Cancel, Counted
    <3> QED
      BY <3>1, FiniteDialogs
  <2>2. CASE CancelSweep
    BY <2>2 DEF CancelSweep
  <2>3. CASE InterruptEnds
    BY <2>3, FiniteDialogs DEF InterruptEnds
  <2> QED
    BY <1>4, <2>1, <2>2, <2>3
<1>5. ASSUME Native
      PROVE  Counted'
  BY <1>5 DEF Native, Exit, TurnResult, Settled, CycleResult, OpenWorkCycle, HandleControl,
             NativeCancel, Foreground, Nothing
<1>6. ASSUME Admission
      PROVE  Counted'
  <2>1. CASE RegisterDialog
    BY <2>1, RegisterCounts
  <2>2. CASE ~RegisterDialog
    BY <1>6, <2>2 DEF Admission, OpenAgentCycle, CycleOpened, CheckCancelled, Deny
  <2> QED
    BY <2>1, <2>2
<1>7. ASSUME PumpStep, ~Admission
      PROVE  Counted'
  BY <1>7 DEF PumpStep, Admission, FinishDelivery, Finished, CycleSweep, SettleCycle,
             ClearCycle, RuntimeEnded, EndSweep, EndForeground, Settled,
             RetireRuntime, PumpAt, Nothing
<1>8. ASSUME BeginClose \/ CloseStep
      PROVE  Counted'
  BY <1>8 DEF BeginClose, CloseStep, CloseAt, CloseSweep, CloseJoin, CloseStop,
             CloseJoinPump, CloseCycle
<1> QED
  BY <1>1, <1>2, <1>3, <1>4, <1>5, <1>6, <1>7, <1>8 DEF Next

\* Every step keeps the budget at the calls under way.
LEMMA CallsStep ==
  ASSUME Types, Admitted, CallsCounted, Next
  PROVE  CallsCounted'
<1> USE DEF
        Types, CallsCounted, Waiting, fgVars, nativeVars, pumpVars, closeVars,
        joinVars, dialogVars
<1>1. ASSUME NEW p \in Prompts, InstallTurn(p)
      PROVE  CallsCounted'
  BY <1>1 DEF InstallTurn, Step
<1>2. ASSUME NEW p \in Prompts, TurnStep(p)
      PROVE  CallsCounted'
  BY <1>2 DEF TurnStep, Step, Dispatch, AbortExpires, Settled, BeginSettlement,
             SettlementSweep, SettlementJoin, CommitTurn, PublishTurnIdle, ClearTurn
<1>3. ASSUME NEW r \in Requests, DialogStep(r) \/ HostAnswers(r)
      PROVE  CallsCounted'
  <2>1. CASE Call(r) /\ pc'[r] = "wait"
    <3>1. r \notin Waiting /\ Waiting' = Waiting \cup {r}
      BY <2>1 DEF Call
    <3>2. Cardinality(Waiting \cup {r}) = Cardinality(Waiting) + 1
      BY <3>1, FiniteDialogs, FS_AddElement
    <3> QED
      BY <2>1, <3>1, <3>2 DEF Call
  <2>2. CASE Returns(r)
    <3>1. r \in Waiting /\ Waiting' = Waiting \ {r}
      BY <2>2 DEF Returns
    <3>2. Cardinality(Waiting \ {r}) = Cardinality(Waiting) - 1
      BY <3>1, FiniteDialogs, FS_RemoveElement
    <3> QED
      BY <2>2, <3>1, <3>2 DEF Returns
  <2>3. CASE Reply(r) \/ Unregister(r) \/ (Call(r) /\ pc'[r] # "wait")
    <3>1. Waiting' = Waiting /\ UNCHANGED calls
      BY <2>3 DEF Call, Reply, Unregister
    <3> QED
      BY <3>1
  <2> QED
    BY <1>3, <2>1, <2>2, <2>3 DEF DialogStep, HostAnswers, CallCancelled, Call
<1>4. ASSUME Cancel \/ CancelSweep \/ InterruptEnds
      PROVE  CallsCounted'
  BY <1>4 DEF Cancel, CancelSweep, InterruptEnds, Foreground
<1>5. ASSUME Native
      PROVE  CallsCounted'
  <2>1. UNCHANGED calls /\ Waiting' = Waiting
    BY <1>5 DEF Native, Exit, TurnResult, CycleResult, OpenWorkCycle, HandleControl, NativeCancel
  <2> QED
    BY <2>1
<1>6. ASSUME Admission
      PROVE  CallsCounted'
  <2>1. UNCHANGED calls /\ Waiting' = Waiting
    BY <1>6 DEF Admission, OpenAgentCycle, CycleOpened, CheckCancelled, Deny,
                RegisterDialog, PumpAt, Admitted, Admitting
  <2> QED
    BY <2>1
<1>7. ASSUME PumpStep, ~Admission
      PROVE  CallsCounted'
  BY <1>7 DEF PumpStep, Admission, FinishDelivery, Finished, CycleSweep, SettleCycle,
             ClearCycle, RuntimeEnded, EndSweep, EndForeground, Settled,
             RetireRuntime, PumpAt, Nothing
<1>8. ASSUME BeginClose \/ CloseStep
      PROVE  CallsCounted'
  BY <1>8 DEF BeginClose, CloseStep, CloseAt, CloseSweep, CloseJoin, CloseStop,
             CloseJoinPump, CloseCycle
<1> QED
  BY <1>1, <1>2, <1>3, <1>4, <1>5, <1>6, <1>7, <1>8 DEF Next

-----------------------------------------------------------------------------
(* What the host and claude see.                                           *)

\* Between its join and its terminal idle a settlement finds no dialog.
Emptied == \A p \in Prompts : prompt[p] \in {"commit", "claim"} => dialogs = {}

\* What a settlement has joined stays empty: it refuses every admission until
\* its turn is cleared.
LEMMA EmptiedStep ==
  ASSUME Types, Held, Refusing, Counted, Emptied, Next
  PROVE  Emptied'
<1> USE DEF
        Types, Emptied, fgVars, nativeVars, pumpVars, closeVars, joinVars, dialogVars
<1>1. ASSUME NEW p \in Prompts, InstallTurn(p)
      PROVE  Emptied'
  BY <1>1 DEF InstallTurn, Step
<1>2. ASSUME NEW p \in Prompts, TurnStep(p)
      PROVE  Emptied'
  <2>1. CASE Dispatch(p)
    BY <2>1 DEF Dispatch, Step
  <2>2. CASE AbortExpires(p)
    BY <2>2 DEF AbortExpires, Step, Settled
  <2>3. CASE BeginSettlement(p)
    BY <2>3 DEF BeginSettlement, Step
  <2>4. CASE SettlementSweep(p)
    BY <2>4 DEF SettlementSweep, Step
  <2>5. CASE SettlementJoin(p)
    BY <2>5, JoinedEmpty DEF SettlementJoin, Step
  <2>6. CASE CommitTurn(p)
    BY <2>6 DEF CommitTurn, Step
  <2>7. CASE PublishTurnIdle(p)
    BY <2>7 DEF PublishTurnIdle, Step
  <2>8. CASE ClearTurn(p)
    BY <2>8 DEF ClearTurn, Step
  <2> QED
    BY <1>2, <2>1, <2>2, <2>3, <2>4, <2>5, <2>6, <2>7, <2>8 DEF TurnStep
<1>3. ASSUME NEW r \in Requests, DialogStep(r) \/ HostAnswers(r)
      PROVE  Emptied'
  <2>1. UNCHANGED prompt /\ dialogs' \subseteq dialogs
    BY <1>3 DEF DialogStep, HostAnswers, Call, CallCancelled, Returns, Reply, Unregister
  <2> QED
    BY <2>1
<1>4. ASSUME Cancel \/ CancelSweep \/ InterruptEnds
      PROVE  Emptied'
  BY <1>4 DEF Cancel, CancelSweep, InterruptEnds, Foreground
<1>5. ASSUME Native
      PROVE  Emptied'
  BY <1>5 DEF Native, Exit, TurnResult, Settled, CycleResult, OpenWorkCycle, HandleControl,
             NativeCancel, Foreground, Nothing
<1>6. ASSUME Admission
      PROVE  Emptied'
  <2>1. CASE OpenAgentCycle
    BY <2>1 DEF OpenAgentCycle, PumpAt, Nothing
  <2>2. CASE CycleOpened
    BY <2>2 DEF CycleOpened, PumpAt, Nothing
  <2>3. CASE CheckCancelled
    BY <2>3 DEF CheckCancelled, PumpAt, Nothing
  <2>4. CASE Deny
    BY <2>4 DEF Deny, PumpAt, Nothing
  <2>5. CASE RegisterDialog
    <3>1. \A p \in Prompts : prompt[p] \in {"commit", "claim"} => Refused
      BY DEF Held, Refusing, Running, InSettlement, Refused, Over
    <3>2. UNCHANGED prompt /\ (Refused => UNCHANGED dialogs)
      BY <2>5 DEF RegisterDialog
    <3> QED
      BY <3>1, <3>2
  <2> QED
    BY <1>6, <2>1, <2>2, <2>3, <2>4, <2>5 DEF Admission
<1>7. ASSUME PumpStep, ~Admission
      PROVE  Emptied'
  BY <1>7 DEF PumpStep, Admission, FinishDelivery, Finished, CycleSweep, SettleCycle,
             ClearCycle, RuntimeEnded, EndSweep, EndForeground, Settled,
             RetireRuntime, PumpAt, Nothing
<1>8. ASSUME BeginClose \/ CloseStep
      PROVE  Emptied'
  BY <1>8 DEF BeginClose, CloseStep, CloseAt, CloseSweep, CloseJoin, CloseStop,
             CloseJoinPump, CloseCycle
<1> QED
  BY <1>1, <1>2, <1>3, <1>4, <1>5, <1>6, <1>7, <1>8 DEF Next

\* The admission of one dialog: its foreground is not settled, and is not
\* cancelled either unless it left.
LEMMA AdmittedServed ==
  ASSUME Types, Held, Delivers, Serving, alive, RegisterDialog, ~Refused
  PROVE  /\ work.fg \notin ended
         /\ work.fg \in cancelled => Left(work.fg)
<1>1. pump = "register"
  BY DEF RegisterDialog, PumpAt
<1>2. CASE /\ work.fg \in Prompts /\ settled[work.fg] = "no"
           /\ prompt[work.fg] \in Running \cup {"over"}
  <2>1. work.fg \notin ended
    BY <1>2 DEF Delivers
  <2>2. turn = work.fg \/ prompt[work.fg] = "over"
    BY <1>2 DEF Held
  <2> QED
    BY <1>2, <2>1, <2>2 DEF Refused, Over, Left
<1>3. CASE work.fg \in Cycles /\ work.fg = cycle
  BY <1>1, <1>3, DialogsAssumption DEF Serving, Refused, Over
<1> QED
  BY <1>1, <1>2, <1>3 DEF Serving

\* A terminal idle goes out behind a join, and what the pump admits afterwards
\* is for a foreground that has not ended.
LEMMA HasForegroundStep ==
  ASSUME Types, Held, Admitted, Lost, Delivers, Begun, Serving, Counted, Emptied,
        DialogHasForeground, Next
  PROVE  DialogHasForeground'
<1> USE DEF
        Types, DialogHasForeground, Lost, fgVars, nativeVars, pumpVars, closeVars,
        joinVars, dialogVars
<1>1. ASSUME NEW p \in Prompts, InstallTurn(p)
      PROVE  DialogHasForeground'
  BY <1>1 DEF InstallTurn, Step
<1>2. ASSUME NEW p \in Prompts, TurnStep(p)
      PROVE  DialogHasForeground'
  <2>1. CASE Dispatch(p)
    BY <2>1 DEF Dispatch, Step
  <2>2. CASE AbortExpires(p)
    BY <2>2 DEF AbortExpires, Step, Settled
  <2>3. CASE BeginSettlement(p)
    BY <2>3 DEF BeginSettlement, Step
  <2>4. CASE SettlementSweep(p)
    BY <2>4 DEF SettlementSweep, Step
  <2>5. CASE SettlementJoin(p)
    BY <2>5 DEF SettlementJoin, Step
  <2>6. CASE CommitTurn(p)
    BY <2>6 DEF CommitTurn, Step
  <2>7. CASE PublishTurnIdle(p)
    BY <2>7 DEF PublishTurnIdle, Step, Emptied
  <2>8. CASE ClearTurn(p)
    BY <2>8 DEF ClearTurn, Step
  <2> QED
    BY <1>2, <2>1, <2>2, <2>3, <2>4, <2>5, <2>6, <2>7, <2>8 DEF TurnStep
<1>3. ASSUME NEW r \in Requests, DialogStep(r) \/ HostAnswers(r)
      PROVE  DialogHasForeground'
  BY <1>3 DEF DialogStep, HostAnswers, Call, CallCancelled, Returns, Reply, Unregister
<1>4. ASSUME Cancel \/ CancelSweep \/ InterruptEnds
      PROVE  DialogHasForeground'
  BY <1>4 DEF Cancel, CancelSweep, InterruptEnds, Foreground
<1>5. ASSUME Native
      PROVE  DialogHasForeground'
  BY <1>5 DEF Native, Exit, TurnResult, Settled, CycleResult, OpenWorkCycle, HandleControl,
             NativeCancel, Foreground, Nothing
<1>6. ASSUME Admission
      PROVE  DialogHasForeground'
  <2>1. CASE OpenAgentCycle
    BY <2>1 DEF OpenAgentCycle, PumpAt, Nothing
  <2>2. CASE CycleOpened
    BY <2>2 DEF CycleOpened, PumpAt, Nothing
  <2>3. CASE CheckCancelled
    BY <2>3 DEF CheckCancelled, PumpAt, Nothing
  <2>4. CASE Deny
    BY <2>4 DEF Deny, PumpAt, Nothing
  <2>5. CASE RegisterDialog
    <3> SUFFICES ASSUME alive', NEW r \in dialogs' PROVE owner'[r] \notin ended'
      BY DEF DialogHasForeground
    <3>1. UNCHANGED <<alive, ended>> /\ owner' = [owner EXCEPT ![work.request] = work.fg]
      BY <2>5 DEF RegisterDialog
    <3>2. work.request \in Requests /\ work.request \notin dialogs
      BY <2>5 DEF RegisterDialog, PumpAt, Admitted, Admitting, Open
    <3>3. dialogs' = dialogs \/ (~Refused /\ dialogs' = dialogs \cup {work.request})
      BY <2>5 DEF RegisterDialog
    <3> QED
      BY <2>5, <3>1, <3>2, <3>3, AdmittedServed
  <2> QED
    BY <1>6, <2>1, <2>2, <2>3, <2>4, <2>5 DEF Admission
<1>7. ASSUME PumpStep, ~Admission
      PROVE  DialogHasForeground'
  <2>1. CASE FinishDelivery
    BY <2>1 DEF FinishDelivery, PumpAt, Nothing, Finished
  <2>2. CASE CycleSweep
    BY <2>2 DEF CycleSweep, PumpAt, Nothing
  <2>3. CASE SettleCycle
    BY <2>3, JoinedEmpty DEF SettleCycle
  <2>4. CASE ClearCycle
    BY <2>4 DEF ClearCycle, PumpAt, Nothing
  <2>5. CASE RuntimeEnded
    BY <2>5 DEF RuntimeEnded, PumpAt, Nothing
  <2>6. CASE EndSweep
    BY <2>6 DEF EndSweep, PumpAt, Nothing
  <2>7. CASE EndForeground
    BY <2>7 DEF EndForeground, PumpAt, Nothing, Settled
  <2>8. CASE RetireRuntime
    BY <2>8 DEF RetireRuntime, PumpAt, Nothing
  <2> QED
    BY <1>7, <2>1, <2>2, <2>3, <2>4, <2>5, <2>6, <2>7, <2>8 DEF PumpStep, Admission
<1>8. ASSUME BeginClose \/ CloseStep
      PROVE  DialogHasForeground'
  <2>1. CASE BeginClose
    BY <2>1 DEF BeginClose, CloseAt
  <2>2. CASE CloseSweep
    BY <2>2 DEF CloseSweep, CloseAt
  <2>3. CASE CloseJoin
    BY <2>3 DEF CloseJoin, CloseAt
  <2>4. CASE CloseStop
    BY <2>4 DEF CloseStop, CloseAt
  <2>5. CASE CloseJoinPump
    BY <2>5 DEF CloseJoinPump, CloseAt
  <2>6. CASE CloseCycle
    BY <2>6 DEF CloseCycle, CloseAt
  <2> QED
    BY <1>8, <2>1, <2>2, <2>3, <2>4, <2>5, <2>6 DEF CloseStep
<1> QED
  BY <1>1, <1>2, <1>3, <1>4, <1>5, <1>6, <1>7, <1>8 DEF Next

\* A dialog of a cancelled foreground was there for the sweep, or was refused,
\* or its prompt has left.
LEMMA CancelledStep ==
  ASSUME Types, Held, Admitted, Lost, Delivers, Begun, Serving, CancelledDialogsEnd,
        Next
  PROVE  CancelledDialogsEnd'
<1> USE DialogsAssumption DEF
        Types, CancelledDialogsEnd, Lost, Left, fgVars, nativeVars, pumpVars,
        closeVars, joinVars, dialogVars
<1>1. ASSUME NEW p \in Prompts, InstallTurn(p)
      PROVE  CancelledDialogsEnd'
  BY <1>1 DEF InstallTurn, Step
<1>2. ASSUME NEW p \in Prompts, TurnStep(p)
      PROVE  CancelledDialogsEnd'
  <2>1. CASE Dispatch(p)
    BY <2>1 DEF Dispatch, Step, Swept
  <2>2. CASE AbortExpires(p)
    BY <2>2 DEF AbortExpires, Step, Settled, Swept
  <2>3. CASE BeginSettlement(p)
    BY <2>3 DEF BeginSettlement, Step, Swept
  <2>4. CASE SettlementSweep(p)
    BY <2>4 DEF SettlementSweep, Step, Swept
  <2>5. CASE SettlementJoin(p)
    BY <2>5 DEF SettlementJoin, Step, Swept
  <2>6. CASE CommitTurn(p)
    BY <2>6 DEF CommitTurn, Step, Swept
  <2>7. CASE PublishTurnIdle(p)
    BY <2>7 DEF PublishTurnIdle, Step, Swept
  <2>8. CASE ClearTurn(p)
    BY <2>8 DEF ClearTurn, Step, Swept
  <2> QED
    BY <1>2, <2>1, <2>2, <2>3, <2>4, <2>5, <2>6, <2>7, <2>8 DEF TurnStep
<1>3. ASSUME NEW r \in Requests, DialogStep(r) \/ HostAnswers(r)
      PROVE  CancelledDialogsEnd'
  BY <1>3 DEF DialogStep, HostAnswers, Call, CallCancelled, Returns, Reply, Unregister
<1>4. ASSUME Cancel \/ CancelSweep \/ InterruptEnds
      PROVE  CancelledDialogsEnd'
  <2>1. CASE Cancel
    BY <2>1 DEF Cancel, Foreground, CancelSwept
  <2>2. CASE CancelSweep
    BY <2>2 DEF CancelSweep, CancelSwept
  <2>3. CASE InterruptEnds
    BY <2>3 DEF InterruptEnds, CancelSwept
  <2> QED
    BY <1>4, <2>1, <2>2, <2>3
<1>5. ASSUME Native
      PROVE  CancelledDialogsEnd'
  <2>1. CASE Exit
    BY <2>1 DEF Exit, Nothing
  <2>2. CASE TurnResult
    BY <2>2 DEF TurnResult, Nothing, Settled
  <2>3. CASE CycleResult
    BY <2>3 DEF CycleResult, Nothing
  <2>4. CASE OpenWorkCycle
    BY <2>4 DEF OpenWorkCycle, Nothing
  <2>5. ASSUME NEW r \in Requests, HandleControl(r)
        PROVE  CancelledDialogsEnd'
    BY <2>5 DEF HandleControl, Nothing, Foreground
  <2>6. ASSUME NEW r \in Requests, NativeCancel(r)
        PROVE  CancelledDialogsEnd'
    BY <2>6 DEF NativeCancel, Nothing
  <2> QED
    BY <1>5, <2>1, <2>2, <2>3, <2>4, <2>5, <2>6 DEF Native
<1>6. ASSUME Admission
      PROVE  CancelledDialogsEnd'
  <2>1. CASE OpenAgentCycle
    BY <2>1 DEF OpenAgentCycle, PumpAt, Nothing
  <2>2. CASE CycleOpened
    BY <2>2 DEF CycleOpened, PumpAt, Nothing
  <2>3. CASE CheckCancelled
    BY <2>3 DEF CheckCancelled, PumpAt, Nothing
  <2>4. CASE Deny
    BY <2>4 DEF Deny, PumpAt, Nothing
  <2>5. CASE RegisterDialog
    <3>1. /\ UNCHANGED <<alive, ended, cancelled, sweep, close, prompt>>
          /\ owner' = [owner EXCEPT ![work.request] = work.fg] /\ dead \subseteq dead'
      BY <2>5 DEF RegisterDialog
    <3> SUFFICES ASSUME alive, ~sweep, close.at # "sweep", NEW r \in dialogs',
                        owner'[r] \in cancelled
                 PROVE  r \in dead' \/ Left(owner'[r])
      BY <3>1 DEF CancelledDialogsEnd, Left
    <3>2. work.request \in Requests /\ work.request \notin dialogs
      BY <2>5 DEF RegisterDialog, PumpAt, Admitted, Admitting, Open
    <3>3. dialogs' = dialogs \/ (~Refused /\ dialogs' = dialogs \cup {work.request})
      BY <2>5 DEF RegisterDialog
    <3>4. CASE r \in dialogs
      BY <3>1, <3>2, <3>4 DEF CancelledDialogsEnd, Left
    <3>5. CASE r \notin dialogs
      BY <2>5, <3>1, <3>2, <3>3, <3>5, AdmittedServed DEF Left
    <3> QED
      BY <3>4, <3>5
  <2> QED
    BY <1>6, <2>1, <2>2, <2>3, <2>4, <2>5 DEF Admission
<1>7. ASSUME PumpStep, ~Admission
      PROVE  CancelledDialogsEnd'
  <2>1. CASE FinishDelivery
    BY <2>1 DEF FinishDelivery, PumpAt, Nothing, Finished, Swept, Begun
  <2>2. CASE CycleSweep
    BY <2>2 DEF CycleSweep, PumpAt, Nothing, Swept, Begun
  <2>3. CASE SettleCycle
    BY <2>3 DEF SettleCycle, PumpAt, Nothing, Swept, Begun
  <2>4. CASE ClearCycle
    BY <2>4 DEF ClearCycle, PumpAt, Nothing, Swept, Begun
  <2>5. CASE RuntimeEnded
    BY <2>5 DEF RuntimeEnded, PumpAt, Nothing, Swept, Begun
  <2>6. CASE EndSweep
    BY <2>6 DEF EndSweep, PumpAt, Nothing, Swept, Begun
  <2>7. CASE EndForeground
    BY <2>7 DEF EndForeground, PumpAt, Nothing, Settled, Swept, Begun
  <2>8. CASE RetireRuntime
    BY <2>8 DEF RetireRuntime, PumpAt, Nothing, Swept, Begun
  <2> QED
    BY <1>7, <2>1, <2>2, <2>3, <2>4, <2>5, <2>6, <2>7, <2>8 DEF PumpStep, Admission
<1>8. ASSUME BeginClose \/ CloseStep
      PROVE  CancelledDialogsEnd'
  <2>1. CASE BeginClose
    BY <2>1 DEF BeginClose, CloseAt, Swept
  <2>2. CASE CloseSweep
    BY <2>2 DEF CloseSweep, CloseAt, Swept
  <2>3. CASE CloseJoin
    BY <2>3 DEF CloseJoin, CloseAt, Swept
  <2>4. CASE CloseStop
    BY <2>4 DEF CloseStop, CloseAt, Swept
  <2>5. CASE CloseJoinPump
    BY <2>5 DEF CloseJoinPump, CloseAt, Swept
  <2>6. CASE CloseCycle
    BY <2>6 DEF CloseCycle, CloseAt, Swept
  <2> QED
    BY <1>8, <2>1, <2>2, <2>3, <2>4, <2>5, <2>6 DEF CloseStep
<1> QED
  BY <1>1, <1>2, <1>3, <1>4, <1>5, <1>6, <1>7, <1>8 DEF Next

\* Between a sweep and its join nothing is admitted.
LEMMA JoinedStep ==
  ASSUME Types, Held, Refusing, JoinedAreCancelled, Next
  PROVE  JoinedAreCancelled'
<1> USE DEF
        Types, JoinedAreCancelled, Joining, fgVars, nativeVars, pumpVars, closeVars,
        joinVars, dialogVars
<1>1. ASSUME NEW p \in Prompts, InstallTurn(p)
      PROVE  JoinedAreCancelled'
  BY <1>1 DEF InstallTurn, Step
<1>2. ASSUME NEW p \in Prompts, TurnStep(p)
      PROVE  JoinedAreCancelled'
  <2>1. CASE Dispatch(p)
    BY <2>1 DEF Dispatch, Step, Swept
  <2>2. CASE AbortExpires(p)
    BY <2>2 DEF AbortExpires, Step, Settled, Swept
  <2>3. CASE BeginSettlement(p)
    BY <2>3 DEF BeginSettlement, Step, Swept
  <2>4. CASE SettlementSweep(p)
    BY <2>4 DEF SettlementSweep, Step, Swept
  <2>5. CASE SettlementJoin(p)
    BY <2>5 DEF SettlementJoin, Step, Swept
  <2>6. CASE CommitTurn(p)
    BY <2>6 DEF CommitTurn, Step, Swept
  <2>7. CASE PublishTurnIdle(p)
    BY <2>7 DEF PublishTurnIdle, Step, Swept
  <2>8. CASE ClearTurn(p)
    BY <2>8 DEF ClearTurn, Step, Swept
  <2> QED
    BY <1>2, <2>1, <2>2, <2>3, <2>4, <2>5, <2>6, <2>7, <2>8 DEF TurnStep
<1>3. ASSUME NEW r \in Requests, DialogStep(r) \/ HostAnswers(r)
      PROVE  JoinedAreCancelled'
  BY <1>3 DEF DialogStep, HostAnswers, Call, CallCancelled, Returns, Reply, Unregister
<1>4. ASSUME Cancel \/ CancelSweep \/ InterruptEnds
      PROVE  JoinedAreCancelled'
  <2>1. CASE Cancel
    BY <2>1 DEF Cancel, Foreground, CancelSwept
  <2>2. CASE CancelSweep
    BY <2>2 DEF CancelSweep, CancelSwept
  <2>3. CASE InterruptEnds
    BY <2>3 DEF InterruptEnds, CancelSwept
  <2> QED
    BY <1>4, <2>1, <2>2, <2>3
<1>5. ASSUME Native
      PROVE  JoinedAreCancelled'
  <2>1. CASE Exit
    BY <2>1 DEF Exit, Nothing
  <2>2. CASE TurnResult
    BY <2>2 DEF TurnResult, Nothing, Settled
  <2>3. CASE CycleResult
    BY <2>3 DEF CycleResult, Nothing
  <2>4. CASE OpenWorkCycle
    BY <2>4 DEF OpenWorkCycle, Nothing
  <2>5. ASSUME NEW r \in Requests, HandleControl(r)
        PROVE  JoinedAreCancelled'
    BY <2>5 DEF HandleControl, Nothing, Foreground
  <2>6. ASSUME NEW r \in Requests, NativeCancel(r)
        PROVE  JoinedAreCancelled'
    BY <2>6 DEF NativeCancel, Nothing
  <2> QED
    BY <1>5, <2>1, <2>2, <2>3, <2>4, <2>5, <2>6 DEF Native
<1>6. ASSUME Admission
      PROVE  JoinedAreCancelled'
  <2>1. CASE OpenAgentCycle
    BY <2>1 DEF OpenAgentCycle, PumpAt, Nothing
  <2>2. CASE CycleOpened
    BY <2>2 DEF CycleOpened, PumpAt, Nothing
  <2>3. CASE CheckCancelled
    BY <2>3 DEF CheckCancelled, PumpAt, Nothing
  <2>4. CASE Deny
    BY <2>4 DEF Deny, PumpAt, Nothing
  <2>5. CASE RegisterDialog
    <3>1. UNCHANGED <<prompt, close>> /\ pump' = "read" /\ pump = "register"
      BY <2>5 DEF RegisterDialog, PumpAt
    <3>2. Joining' => Joining /\ Refused
      BY <3>1 DEF Joining, Held, Refusing, Running, InSettlement, Refused, Over
    <3>3. dead \subseteq dead' /\ (Refused => UNCHANGED dialogs)
      BY <2>5 DEF RegisterDialog
    <3> QED
      BY <3>2, <3>3
  <2> QED
    BY <1>6, <2>1, <2>2, <2>3, <2>4, <2>5 DEF Admission
<1>7. ASSUME PumpStep, ~Admission
      PROVE  JoinedAreCancelled'
  <2>1. CASE FinishDelivery
    BY <2>1 DEF FinishDelivery, PumpAt, Nothing, Finished, Swept
  <2>2. CASE CycleSweep
    BY <2>2 DEF CycleSweep, PumpAt, Nothing, Swept
  <2>3. CASE SettleCycle
    BY <2>3 DEF SettleCycle, PumpAt, Nothing, Swept
  <2>4. CASE ClearCycle
    BY <2>4 DEF ClearCycle, PumpAt, Nothing, Swept
  <2>5. CASE RuntimeEnded
    BY <2>5 DEF RuntimeEnded, PumpAt, Nothing, Swept
  <2>6. CASE EndSweep
    BY <2>6 DEF EndSweep, PumpAt, Nothing, Swept
  <2>7. CASE EndForeground
    BY <2>7 DEF EndForeground, PumpAt, Nothing, Settled, Swept
  <2>8. CASE RetireRuntime
    BY <2>8 DEF RetireRuntime, PumpAt, Nothing, Swept
  <2> QED
    BY <1>7, <2>1, <2>2, <2>3, <2>4, <2>5, <2>6, <2>7, <2>8 DEF PumpStep, Admission
<1>8. ASSUME BeginClose \/ CloseStep
      PROVE  JoinedAreCancelled'
  <2>1. CASE BeginClose
    BY <2>1 DEF BeginClose, CloseAt, Swept
  <2>2. CASE CloseSweep
    BY <2>2 DEF CloseSweep, CloseAt, Swept
  <2>3. CASE CloseJoin
    BY <2>3 DEF CloseJoin, CloseAt, Swept
  <2>4. CASE CloseStop
    BY <2>4 DEF CloseStop, CloseAt, Swept
  <2>5. CASE CloseJoinPump
    BY <2>5 DEF CloseJoinPump, CloseAt, Swept
  <2>6. CASE CloseCycle
    BY <2>6 DEF CloseCycle, CloseAt, Swept
  <2> QED
    BY <1>8, <2>1, <2>2, <2>3, <2>4, <2>5, <2>6 DEF CloseStep
<1> QED
  BY <1>1, <1>2, <1>3, <1>4, <1>5, <1>6, <1>7, <1>8 DEF Next

-----------------------------------------------------------------------------
(* The invariant and what it shows.                                        *)

Safe ==
  /\ Types /\ Flags /\ Counted /\ CallsCounted
  /\ Held /\ Refusing /\ Admitted /\ Lost /\ Delivers /\ Begun /\ Serving /\ Emptied
  /\ DialogHasForeground /\ CancelledDialogsEnd /\ JoinedAreCancelled

\* A fresh session satisfies the invariant.
LEMMA SafeInit == Init => Safe
<1> SUFFICES ASSUME Init PROVE Safe
  OBVIOUS
<1>1. Types
  BY DEF Init, Types, Nothing
<1>2. Flags
  BY Zenon DEF Init, Flags
<1>3. dialogs = {} /\ Waiting = {} /\ calls = 0 /\ callbacks = 0 /\ interrupts = 0
  BY DEF Init, Waiting
<1>4. Counted /\ CallsCounted
  BY <1>3, FS_EmptySet DEF Counted, CallsCounted
<1>5. Held /\ Refusing /\ Admitted /\ Lost /\ Delivers /\ Begun /\ Serving /\ Emptied
  BY DialogsAssumption
     DEF Init, Held, Refusing, Admitted, Lost, Delivers, Begun, Serving, Emptied, Running,
         InSettlement, Admitting, Open, Nothing
<1>6. DialogHasForeground /\ CancelledDialogsEnd /\ JoinedAreCancelled
  BY <1>3 DEF DialogHasForeground, CancelledDialogsEnd, JoinedAreCancelled
<1> QED
  BY <1>1, <1>2, <1>4, <1>5, <1>6 DEF Safe

\* Every step keeps the invariant.
LEMMA SafeStep == Safe /\ [Next]_vars => Safe'
<1> SUFFICES ASSUME Safe, [Next]_vars PROVE Safe'
  OBVIOUS
<1>1. CASE Next
  <2> USE <1>1 DEF Safe
  <2>1. Types' /\ Flags' /\ Counted' /\ CallsCounted'
    BY TypesStep, FlagsStep, CountedStep, CallsStep
  <2>2. Held' /\ Refusing' /\ Admitted' /\ Lost'
    BY HeldStep, RefusingStep, AdmittedStep, LostStep
  <2>3. Delivers' /\ Begun' /\ Serving' /\ Emptied'
    BY DeliversStep, BegunStep, ServingStep, EmptiedStep
  <2>4. DialogHasForeground' /\ CancelledDialogsEnd' /\ JoinedAreCancelled'
    BY HasForegroundStep, CancelledStep, JoinedStep
  <2> QED
    BY <2>1, <2>2, <2>3, <2>4
<1>2. CASE UNCHANGED vars
  <2> USE <1>2 DEF Safe, vars, fgVars, nativeVars, pumpVars, closeVars, joinVars, dialogVars
  <2>1. Types' /\ Counted' /\ CallsCounted'
    BY DEF Types, Counted, CallsCounted, Waiting
  <2>2. Flags'
    BY Zenon DEF Flags
  <2>3. /\ Held' /\ Refusing' /\ Admitted' /\ Lost' /\ Delivers' /\ Begun' /\ Serving'
        /\ Emptied'
    BY DEF Held, Refusing, Admitted, Lost, Delivers, Begun, Serving, Emptied
  <2>4. DialogHasForeground' /\ CancelledDialogsEnd' /\ JoinedAreCancelled'
    BY DEF DialogHasForeground, CancelledDialogsEnd, JoinedAreCancelled, Joining, Left
  <2> QED
    BY <2>1, <2>2, <2>3, <2>4
<1> QED
  BY <1>1, <1>2

\* Safe is inductive.
LEMMA SafeAlways == Spec => []Safe
BY SafeInit, SafeStep, PTL DEF Spec

\* Every variable keeps its type, the WaitGroup is what it joins and the budget
\* of calls is returned on every path.
THEOREM DialogTypesCorrect == Spec => []TypeOK
<1>1. ASSUME Safe PROVE TypeOK
  <2>1. {cancelled, settling, ended, begun} \subseteq SUBSET Foregrounds
    BY <1>1 DEF Safe, Types
  <2>2. {bound, ending, alive, closing, sweep} \subseteq BOOLEAN
    BY Zenon, <1>1 DEF Safe, Flags
  <2> QED
    BY <1>1, <2>1, <2>2 DEF Safe, Types, Counted, CallsCounted, Waiting, TypeOK
<1> QED
  BY <1>1, SafeAlways, PTL

\* While the process lives, no admitted dialog outlives the terminal idle of its
\* foreground.
THEOREM DialogsHaveForegrounds == Spec => []DialogHasForeground
<1>1. Safe => DialogHasForeground
  BY DEF Safe
<1> QED
  BY <1>1, SafeAlways, PTL

\* The dialogs of a cancelled foreground are cancelled, in every interleaving of
\* the cancel, the admission and the settlement.
THEOREM CancelledDialogsCancelled == Spec => []CancelledDialogsEnd
<1>1. Safe => CancelledDialogsEnd
  BY DEF Safe
<1> QED
  BY <1>1, SafeAlways, PTL

\* Nobody joins a dialog that still waits for the host.
THEOREM NobodyJoinsTheHost == Spec => []JoinedAreCancelled
<1>1. Safe => JoinedAreCancelled
  BY DEF Safe
<1> QED
  BY <1>1, SafeAlways, PTL
=============================================================================
