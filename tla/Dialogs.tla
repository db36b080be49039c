------------------------------- MODULE Dialogs -------------------------------
(***************************************************************************)
(* Native callbacks of one session (session_permissions.go, session.go):   *)
(* the pump admits each control request claude writes, a goroutine asks    *)
(* the host within the agent's budget of calls and replies to claude, and  *)
(* a cancellation, a settlement, the end of the process and a close each   *)
(* cancel the dialogs that are open and join them.                         *)
(*                                                                         *)
(* A critical section of session.mu is one action.  A foreground is a      *)
(* prompt or an agent-origin cycle; what it publishes is in module         *)
(* Session.  One process generation: a session whose process is gone       *)
(* starts no other here.  The host may never answer.                       *)
(*                                                                         *)
(* An operator Wrong... is a faulty variant of the operator after it: no   *)
(* action uses it, it is there to show that a property notices the fault.  *)
(***************************************************************************)
EXTENDS Naturals, FiniteSets

CONSTANTS
  Requests,       \* the control requests that ask for a dialog
  Prompts,        \* the session/prompt requests
  Cycles,         \* the agent-origin cycles, a bound on their number
  MaxClientCalls, \* ConcurrencyLimits.MaxConcurrentClientCalls
  None            \* nil

Foregrounds == Prompts \cup Cycles

ASSUME DialogsAssumption ==
  /\ IsFiniteSet(Requests)
  /\ MaxClientCalls \in Nat
  /\ Prompts \cap Cycles = {}
  /\ None \notin Foregrounds \cup Requests

VARIABLES
  turn, cycle, \* s.turn, s.cycle
  cancelled, settling, \* the foregrounds with each flag
  settled,     \* t.ended of the prompts: "no", "result" or "lost"
  ended,       \* the foregrounds past claimCancellation or failed by the loss
               \*   of the process: their terminal idle is out
  begun,       \* the foregrounds there have been
  prompt,      \* the goroutine of each prompt
  bound,       \* s.runtime # nil
  ending,      \* rt.ending
  alive,       \* the claude process runs
  pump, work,  \* the pump, and the request and the foregrounds it works on
  closing,     \* s.closing
  close,       \* the shutdown ladder, and the turn it waits for
  dialogs,     \* s.dialogs
  callbacks,   \* s.callbacks
  interrupts,  \* the interrupts under way
  sweep,       \* a cancel has marked its foreground, not yet its dialogs
  dead,        \* the requests whose dialog context is cancelled
  pc, owner,   \* the goroutine of each request, and the foreground it serves
  calls        \* Agent.clientCalls in use

fgVars     == <<turn, cycle, cancelled, settling, settled, ended, begun>>
nativeVars == <<bound, ending, alive>>
pumpVars   == <<pump, work>>
closeVars  == <<closing, close>>
joinVars   == <<dialogs, callbacks, interrupts>>
dialogVars == <<pc, owner, calls>>

vars == <<fgVars, prompt, nativeVars, pumpVars, closeVars, joinVars, sweep, dead,
          dialogVars>>

Nothing == [request |-> None, fg |-> None, turn |-> None]

Init ==
  /\ turn = None /\ cycle = None
  /\ cancelled = {} /\ settling = {} /\ ended = {} /\ begun = {}
  /\ settled = [p \in Prompts |-> "no"]
  /\ prompt = [p \in Prompts |-> "idle"]
  /\ bound = TRUE /\ ending = FALSE /\ alive = TRUE
  /\ pump = "read" /\ work = Nothing
  /\ closing = FALSE /\ close = [at |-> "open", turn |-> None]
  /\ dialogs = {} /\ callbacks = 0 /\ interrupts = 0 /\ sweep = FALSE
  /\ dead = {}
  /\ pc = [r \in Requests |-> "unsent"]
  /\ owner = [r \in Requests |-> None]
  /\ calls = 0

-----------------------------------------------------------------------------
(* What the four closers of dialogs share.                                 *)

\* The contexts cancelDialogs ends for cancel, and for the others.
WrongCancelSwept == {}
CancelSwept      == dialogs

Swept == dialogs

\* s.callbacks.Wait returns.
WrongJoined == interrupts = 0
Joined      == callbacks = 0

\* What registerDialog refuses: it looks at the foreground installed now.
Over(f) == f \in cancelled \/ f \in settling

WrongRefused == closing \/ ~bound
Refused      == closing \/ ~bound \/ Over(turn) \/ Over(cycle)

Foreground == IF turn # None THEN turn ELSE cycle

\* t.finished is closed, or there was no turn to wait for.
Finished(t) == t # None => prompt[t] = "over"

\* Only the first settle of a turn counts.
Settled(t, how) ==
  settled' = IF t # None /\ settled[t] = "no" THEN [settled EXCEPT ![t] = how]
             ELSE settled

-----------------------------------------------------------------------------
(* A prompt, from its installation to its answer.                          *)

Step(p, from, to) == prompt[p] = from /\ prompt' = [prompt EXCEPT ![p] = to]

\* The gate is free and no cycle is open.  Whether the session closes was looked
\* at before, with the gate: a close may have begun since, without this turn.
InstallTurn(p) ==
  /\ Step(p, "idle", "installed")
  /\ turn = None /\ cycle = None
  /\ turn' = p
  /\ begun' = begun \cup {p}
  /\ UNCHANGED <<cycle, cancelled, settling, settled, ended, nativeVars, pumpVars,
                 closeVars, joinVars, sweep, dead, dialogVars>>

\* The prompt is written and waits, or it is cancelled or fails before and is
\* answered without a settlement.  A cancelled one goes on when native work
\* had it accepted already.
Dispatch(p) ==
  /\ \/ Step(p, "installed", "sent") /\ bound /\ ~ending
     \/ Step(p, "installed", "clear")
  /\ UNCHANGED <<fgVars, nativeVars, pumpVars, closeVars, joinVars, sweep, dead,
                 dialogVars>>

\* The interrupt did not settle the run within sessionAbortTimeout.
AbortExpires(p) ==
  /\ prompt[p] = "sent" /\ p \in cancelled /\ settled[p] = "no"
  /\ alive' = FALSE
  /\ Settled(p, "lost")
  /\ UNCHANGED <<turn, cycle, cancelled, settling, ended, begun, prompt, bound, ending,
                 pumpVars, closeVars, joinVars, sweep, dead, dialogVars>>

\* settleTurn, entered once the turn is settled.
BeginSettlement(p) ==
  /\ Step(p, "sent", "sweep") /\ settled[p] # "no"
  /\ settling' = settling \cup {p}
  /\ UNCHANGED <<turn, cycle, cancelled, settled, ended, begun, nativeVars, pumpVars,
                 closeVars, joinVars, sweep, dead, dialogVars>>

SettlementSweep(p) ==
  /\ Step(p, "sweep", "join")
  /\ dead' = dead \cup Swept
  /\ UNCHANGED <<fgVars, nativeVars, pumpVars, closeVars, joinVars, sweep, dialogVars>>

SettlementJoin(p) ==
  /\ Step(p, "join", "commit") /\ Joined
  /\ UNCHANGED <<fgVars, nativeVars, pumpVars, closeVars, joinVars, sweep, dead,
                 dialogVars>>

\* A run that ended is committed, and a failed commit ends the process; a lost
\* one only leaves its runtime.
CommitTurn(p) ==
  /\ Step(p, "commit", "claim")
  /\ \/ settled[p] = "result" /\ UNCHANGED <<bound, alive>>
     \/ settled[p] = "result" /\ bound' = FALSE /\ alive' = FALSE
     \/ settled[p] = "lost" /\ bound' = FALSE /\ UNCHANGED alive
  /\ UNCHANGED <<fgVars, ending, pumpVars, closeVars, joinVars, sweep, dead, dialogVars>>

\* claimCancellation and the terminal idle.
PublishTurnIdle(p) ==
  /\ Step(p, "claim", "clear")
  /\ ended' = ended \cup {p}
  /\ UNCHANGED <<turn, cycle, cancelled, settling, settled, begun, nativeVars, pumpVars,
                 closeVars, joinVars, sweep, dead, dialogVars>>

\* The deferred s.turn = nil and close(t.finished).
ClearTurn(p) ==
  /\ Step(p, "clear", "over")
  /\ turn' = None
  /\ UNCHANGED <<cycle, cancelled, settling, settled, ended, begun, nativeVars, pumpVars,
                 closeVars, joinVars, sweep, dead, dialogVars>>

-----------------------------------------------------------------------------
(* session/cancel and the interrupt it starts.                             *)

Cancel ==
  LET f == Foreground IN
  /\ f # None /\ f \notin cancelled \cup ended
  /\ cancelled' = cancelled \cup {f}
  /\ LET interrupt == IF f \notin settling /\ bound /\ ~closing /\ ~ending THEN 1 ELSE 0
     IN interrupts' = interrupts + interrupt /\ callbacks' = callbacks + interrupt
  /\ sweep' = TRUE
  /\ UNCHANGED <<turn, cycle, settling, settled, ended, begun, prompt, nativeVars,
                 pumpVars, closeVars, dialogs, dead, dialogVars>>

CancelSweep ==
  /\ sweep
  /\ sweep' = FALSE
  /\ dead' = dead \cup CancelSwept
  /\ UNCHANGED <<fgVars, prompt, nativeVars, pumpVars, closeVars, joinVars, dialogVars>>

\* claude answers the interrupt or sessionAbortTimeout passes.
InterruptEnds ==
  /\ interrupts > 0
  /\ interrupts' = interrupts - 1 /\ callbacks' = callbacks - 1
  /\ UNCHANGED <<fgVars, prompt, nativeVars, pumpVars, closeVars, dialogs, sweep, dead,
                 dialogVars>>

-----------------------------------------------------------------------------
(* The pump: handleEvent for the records that concern dialogs.             *)

PumpAt(from, to) == pump = from /\ pump' = to

\* handleControl samples the foreground.  A record of a runtime that is no
\* longer the session's is dropped.
HandleControl(r) ==
  /\ pump = "read" /\ pc[r] = "unsent"
  /\ Foreground = None => Cycles \ begun # {}   \* the bound on cycles
  /\ IF ~bound
     THEN pc' = [pc EXCEPT ![r] = "done"] /\ UNCHANGED pumpVars
     ELSE /\ pump' = IF closing THEN "deny" ELSE IF Foreground = None THEN "open" ELSE "check"
          /\ work' = [request |-> r, fg |-> Foreground, turn |-> None]
          /\ UNCHANGED pc
  /\ UNCHANGED <<fgVars, prompt, nativeVars, closeVars, joinVars, sweep, dead, owner, calls>>

\* openAgentCycle, up to the publication of the cycle.
OpenAgentCycle ==
  /\ pump = "open"
  /\ IF turn # None \/ cycle # None \/ closing \/ ~bound
     THEN pump' = "deny" /\ UNCHANGED <<cycle, begun, work>>
     ELSE \E c \in Cycles \ begun :
            /\ cycle' = c /\ begun' = begun \cup {c}
            /\ work' = [work EXCEPT !.fg = c]
            /\ pump' = "opened"
  /\ UNCHANGED <<turn, cancelled, settling, settled, ended, prompt, nativeVars, closeVars,
                 joinVars, sweep, dead, dialogVars>>

\* openAgentCycle, after it.
CycleOpened ==
  /\ pump = "opened"
  /\ pump' = IF bound /\ cycle = work.fg /\ ~closing THEN "check" ELSE "deny"
  /\ UNCHANGED <<fgVars, prompt, nativeVars, work, closeVars, joinVars, sweep, dead,
                 dialogVars>>

\* A record that bears work opens a cycle too; what it projects is not modelled.
OpenWorkCycle ==
  /\ pump = "read" /\ turn = None /\ cycle = None /\ ~closing /\ bound
  /\ \E c \in Cycles \ begun : cycle' = c /\ begun' = begun \cup {c}
  /\ UNCHANGED <<turn, cancelled, settling, settled, ended, prompt, nativeVars, pumpVars,
                 closeVars, joinVars, sweep, dead, dialogVars>>

\* A cancelled foreground is denied; the pending tool of another is published.
CheckCancelled ==
  /\ pump = "check"
  /\ pump' = IF work.fg \in cancelled THEN "deny" ELSE "register"
  /\ UNCHANGED <<fgVars, prompt, nativeVars, work, closeVars, joinVars, sweep, dead,
                 dialogVars>>

Deny ==
  /\ PumpAt("deny", "read")
  /\ work' = Nothing
  /\ pc' = [pc EXCEPT ![work.request] = "done"]
  /\ UNCHANGED <<fgVars, prompt, nativeVars, closeVars, joinVars, sweep, dead, owner, calls>>

\* A refused dialog runs with its context cancelled and is joined by nobody.
RegisterDialog ==
  LET r == work.request IN
  /\ PumpAt("register", "read")
  /\ work' = Nothing
  /\ IF Refused
     THEN dead' = dead \cup {r} /\ UNCHANGED <<dialogs, callbacks>>
     ELSE dialogs' = dialogs \cup {r} /\ callbacks' = callbacks + 1 /\ UNCHANGED dead
  /\ pc' = [pc EXCEPT ![r] = "call"]
  /\ owner' = [owner EXCEPT ![r] = work.fg]
  /\ UNCHANGED <<fgVars, prompt, nativeVars, closeVars, interrupts, sweep, calls>>

\* control_cancel_request
NativeCancel(r) ==
  /\ pump = "read" /\ bound /\ r \in dialogs
  /\ dead' = dead \cup {r}
  /\ UNCHANGED <<fgVars, prompt, nativeVars, pumpVars, closeVars, joinVars, sweep, dialogVars>>

\* The result record of the turn; finishDelivery then holds what follows.
TurnResult ==
  /\ pump = "read" /\ bound /\ turn # None
  /\ Settled(turn, "result")
  /\ pump' = "deliver" /\ work' = [Nothing EXCEPT !.turn = turn]
  /\ UNCHANGED <<turn, cycle, cancelled, settling, ended, begun, prompt, nativeVars,
                 closeVars, joinVars, sweep, dead, dialogVars>>

FinishDelivery ==
  /\ PumpAt("deliver", "read") /\ (Finished(work.turn) \/ ~alive)
  /\ work' = Nothing
  /\ UNCHANGED <<fgVars, prompt, nativeVars, closeVars, joinVars, sweep, dead, dialogVars>>

\* The result record of a cycle: settleAgentCycle, on the pump.
CycleResult ==
  /\ pump = "read" /\ bound /\ turn = None /\ cycle # None
  /\ pump' = "sweep" /\ work' = [Nothing EXCEPT !.fg = cycle]
  /\ settling' = settling \cup {cycle}
  /\ UNCHANGED <<turn, cycle, cancelled, settled, ended, begun, prompt, nativeVars,
                 closeVars, joinVars, sweep, dead, dialogVars>>

CycleSweep ==
  /\ PumpAt("sweep", "join")
  /\ dead' = dead \cup Swept
  /\ UNCHANGED <<fgVars, prompt, nativeVars, work, closeVars, joinVars, sweep, dialogVars>>

\* The join, the commit and the terminal idle.
SettleCycle ==
  /\ PumpAt("join", "clear") /\ Joined
  /\ \/ UNCHANGED <<bound, alive>>
     \/ bound' = FALSE /\ alive' = FALSE
  /\ ended' = ended \cup {work.fg}
  /\ UNCHANGED <<turn, cycle, cancelled, settling, settled, begun, prompt, ending, work,
                 closeVars, joinVars, sweep, dead, dialogVars>>

ClearCycle ==
  /\ PumpAt("clear", "read")
  /\ work' = Nothing
  /\ cycle' = IF cycle = work.fg THEN None ELSE cycle
  /\ UNCHANGED <<turn, cancelled, settling, settled, ended, begun, prompt, nativeVars,
                 closeVars, joinVars, sweep, dead, dialogVars>>

-----------------------------------------------------------------------------
(* The end of the process: runtimeEnded, on the pump.                      *)

Exit ==
  /\ alive /\ alive' = FALSE
  /\ UNCHANGED <<fgVars, prompt, bound, ending, pumpVars, closeVars, joinVars, sweep, dead,
                 dialogVars>>

RuntimeEnded ==
  /\ pump = "read" /\ ~alive
  /\ IF ~bound
     THEN pump' = "done" /\ UNCHANGED <<cycle, ending, work>>
     ELSE /\ pump' = "end-sweep" /\ ending' = TRUE
          /\ work' = [request |-> None, fg |-> IF closing THEN None ELSE cycle, turn |-> turn]
          /\ cycle' = IF closing THEN cycle ELSE None
  /\ UNCHANGED <<turn, cancelled, settling, settled, ended, begun, prompt, bound, alive,
                 closeVars, joinVars, sweep, dead, dialogVars>>

EndSweep ==
  /\ PumpAt("end-sweep", "end-join")
  /\ dead' = dead \cup Swept
  /\ UNCHANGED <<fgVars, prompt, nativeVars, work, closeVars, joinVars, sweep, dialogVars>>

EndForeground ==
  /\ PumpAt("end-join", "end-wait") /\ Joined
  /\ ended' = ended \cup ({work.fg} \ {None})
  /\ Settled(work.turn, "lost")
  /\ UNCHANGED <<turn, cycle, cancelled, settling, begun, prompt, nativeVars, work,
                 closeVars, joinVars, sweep, dead, dialogVars>>

\* The turn is over or sessionSettleTimeout passes.
RetireRuntime ==
  /\ PumpAt("end-wait", "done")
  /\ bound' = FALSE /\ work' = Nothing
  /\ UNCHANGED <<fgVars, prompt, ending, alive, closeVars, joinVars, sweep, dead, dialogVars>>

-----------------------------------------------------------------------------
(* The goroutine of one admitted request.                                  *)

\* acquireClientCall does not wait: without a call the answer is a denial, as
\* it is without a connection or the capability.
MayCall == calls < MaxClientCalls

Call(r) ==
  /\ pc[r] = "call"
  /\ \/ MayCall /\ pc' = [pc EXCEPT ![r] = "wait"] /\ calls' = calls + 1
     \/ pc' = [pc EXCEPT ![r] = "reply"] /\ UNCHANGED calls
  /\ UNCHANGED <<fgVars, prompt, nativeVars, pumpVars, closeVars, joinVars, sweep, dead,
                 owner>>

\* The call returns: the action is resolved and the call given back.
Returns(r) ==
  /\ pc[r] = "wait"
  /\ pc' = [pc EXCEPT ![r] = "reply"]
  /\ calls' = calls - 1
  /\ UNCHANGED <<fgVars, prompt, nativeVars, pumpVars, closeVars, joinVars, sweep, dead,
                 owner>>

HostAnswers(r)   == r \in dialogs /\ Returns(r)
CallCancelled(r) == r \in dead /\ Returns(r)

\* The answer is written to claude, or lost with its process.
Reply(r) ==
  /\ pc[r] = "reply"
  /\ pc' = [pc EXCEPT ![r] = "unregister"]
  /\ UNCHANGED <<fgVars, prompt, nativeVars, pumpVars, closeVars, joinVars, sweep, dead,
                 owner, calls>>

\* What registerDialog returns gives back what it counted, nothing when it
\* refused.
WrongDone(r) == callbacks' = callbacks - 1
Done(r)      == callbacks' = IF r \in dialogs THEN callbacks - 1 ELSE callbacks

Unregister(r) ==
  /\ pc[r] = "unregister"
  /\ pc' = [pc EXCEPT ![r] = "done"]
  /\ dialogs' = dialogs \ {r}
  /\ Done(r)
  /\ UNCHANGED <<fgVars, prompt, nativeVars, pumpVars, closeVars, interrupts, sweep, dead,
                 owner, calls>>

-----------------------------------------------------------------------------
(* The shutdown ladder: session.close.                                     *)

CloseAt(from, to) == close.at = from /\ close' = [close EXCEPT !.at = to]

BeginClose ==
  /\ ~closing
  /\ closing' = TRUE
  /\ close' = [at |-> "sweep", turn |-> turn]
  /\ cancelled' = cancelled \cup ({turn} \ {None})
  /\ UNCHANGED <<turn, cycle, settling, settled, ended, begun, prompt, nativeVars,
                 pumpVars, joinVars, sweep, dead, dialogVars>>

CloseSweep ==
  /\ CloseAt("sweep", "join")
  /\ dead' = dead \cup Swept
  /\ UNCHANGED <<fgVars, prompt, nativeVars, pumpVars, closing, joinVars, sweep, dialogVars>>

CloseJoin ==
  /\ CloseAt("join", "wait") /\ Joined
  /\ UNCHANGED <<fgVars, prompt, nativeVars, pumpVars, closing, joinVars, sweep, dead,
                 dialogVars>>

\* The turn is over or sessionSettleTimeout passes; the process is stopped.
CloseStop ==
  /\ CloseAt("wait", "stop")
  /\ alive' = FALSE
  /\ UNCHANGED <<fgVars, prompt, bound, ending, pumpVars, closing, joinVars, sweep, dead,
                 dialogVars>>

\* The pump is done or sessionShutdownTimeout passes.
CloseJoinPump ==
  /\ CloseAt("stop", "final")
  /\ bound' = FALSE
  /\ UNCHANGED <<fgVars, prompt, ending, alive, pumpVars, closing, joinVars, sweep, dead,
                 dialogVars>>

CloseCycle ==
  /\ CloseAt("final", "closed")
  /\ ended' = ended \cup ({cycle} \ {None}) /\ cycle' = None
  /\ UNCHANGED <<turn, cancelled, settling, settled, begun, prompt, nativeVars, pumpVars,
                 closing, joinVars, sweep, dead, dialogVars>>

-----------------------------------------------------------------------------
TurnStep(p) ==
  \/ Dispatch(p) \/ AbortExpires(p) \/ BeginSettlement(p)
  \/ SettlementSweep(p) \/ SettlementJoin(p) \/ CommitTurn(p) \/ PublishTurnIdle(p)
  \/ ClearTurn(p)

PumpStep ==
  \/ OpenAgentCycle \/ CycleOpened \/ CheckCancelled \/ Deny \/ RegisterDialog
  \/ FinishDelivery \/ CycleSweep \/ SettleCycle \/ ClearCycle
  \/ RuntimeEnded \/ EndSweep \/ EndForeground \/ RetireRuntime

DialogStep(r) == Call(r) \/ CallCancelled(r) \/ Reply(r) \/ Unregister(r)

CloseStep == CloseSweep \/ CloseJoin \/ CloseStop \/ CloseJoinPump \/ CloseCycle

Native ==
  \/ Exit \/ TurnResult \/ CycleResult \/ OpenWorkCycle
  \/ \E r \in Requests : HandleControl(r) \/ NativeCancel(r)

Next ==
  \/ \E p \in Prompts : InstallTurn(p) \/ TurnStep(p)
  \/ \E r \in Requests : DialogStep(r) \/ HostAnswers(r)
  \/ Cancel \/ CancelSweep \/ InterruptEnds
  \/ Native \/ PumpStep
  \/ BeginClose \/ CloseStep

Spec == Init /\ [][Next]_vars
=============================================================================
