------------------------------- MODULE Session -------------------------------
(***************************************************************************)
(* One ACP session of the adapter: the foreground gate, the prompt turn,   *)
(* the agent-origin cycle, the claude process generations and the pump of  *)
(* each, cancellation and its asynchronous interrupt, settlement with the  *)
(* durable commit, the lifecycle stream and the shutdown ladder            *)
(* (session.go, session_prompt.go, session_lifecycle.go and the            *)
(* establishment tail of agent_session.go).                                *)
(*                                                                         *)
(* A critical section of session.mu is one action; a wait of a goroutine   *)
(* is the guard of the action after it.  Two sections are one action only  *)
(* where nothing another goroutine does between them can be told apart;    *)
(* the poison check of a request and its acquisition of the gate are one,  *)
(* so a session poisoned between the two refuses the request here.         *)
(* The claude process, the durable store and the lifecycle publisher are   *)
(* external and modelled from use.                                         *)
(*                                                                         *)
(* An operator Wrong... is a faulty variant of the operator after it: no   *)
(* action uses it, it is there to show that a property notices the fault.  *)
(***************************************************************************)
EXTENDS Naturals, FiniteSets, Sequences

CONSTANTS
  Prompts,     \* session/prompt requests the host sends
  Reads,       \* requests that take the gate without a turn: setConfigOption,
               \*   accountUsage, gatewayUsage
  Establish,   \* the session/new or session/load request that installs the session
  Closer,      \* the caller that runs the shutdown ladder
  None,        \* nil
  Agent,       \* the run claude starts on its own
  Ephemeral,   \* TRUE for a session that is never written to the store
  HostCloses,  \* TRUE when the host may close the session
  MaxGen,      \* bound: process generations
  MaxEvents,   \* bound: native frames over the whole behaviour
  MaxQueue,    \* bound: frames written and not yet handled, per process
  MaxCancels,  \* bound: session/cancel notifications
  MaxFaults,   \* bound: failures of the process, the store and the launch
  Drift,       \* TRUE when claude may report another session id
  EarlyWork,   \* TRUE when a process may start a run of its own while no
               \*   incarnation of it is open
  Expiring     \* the bounded joins that may expire: "pump" (stopRuntime's wait
               \*   for rt.done), "turn" (the waits for t.finished), "exit"
               \*   (signalRuntime: the child outlives Shutdown and Kill)

Ops    == Prompts \cup Reads \cup {Establish}
Gens   == 1..MaxGen
Cycles == 1..MaxEvents          \* names of agent-origin cycles
Foregrounds == Prompts \cup Cycles
Runs   == Prompts \cup {Agent}

NoGen  == 0                     \* a nil *runtime, and a fenced stream
NotYet == MaxGen + 1            \* acceptedIn of a foreground never published

ASSUME BoundsAssumption ==
  /\ MaxGen \in Nat \ {0}
  /\ {MaxEvents, MaxQueue, MaxCancels, MaxFaults} \subseteq Nat
  /\ {Ephemeral, HostCloses, Drift, EarlyWork} \subseteq BOOLEAN
  /\ Expiring \subseteq {"pump", "turn", "exit"}

ASSUME NamesAssumption ==
  /\ Prompts \cap Reads = {}
  /\ Establish \notin Prompts \cup Reads
  /\ Closer \notin Ops
  /\ None \notin Ops \cup {Closer} \cup Foregrounds
  /\ Agent \notin Prompts
  /\ Prompts \cap Nat = {}

VARIABLES
  (* session, under session.mu *)
  gate,        \* holder of the one-slot gate channel, or None
  turn,        \* s.turn
  cycle,       \* s.cycle
  runtime,     \* s.runtime
  retired,     \* s.retired
  closing,     \* s.closing
  persisted,   \* s.persisted
  poisoned,    \* s.poison # ""
  callbacks,   \* the interrupt goroutines joined by the callbacks WaitGroup
  (* cycle and turn fields, per foreground *)
  cancelled, settling, terminal,
  ctxDone,     \* the turn's own context has ended
  ended,       \* t.ended
  finished,    \* t.finished is closed
  (* lifecycle.Publisher *)
  stream,      \* generation whose incarnation is open, NoGen when fenced
  acceptedIn,  \* stream at the publication of prompt_accepted or cycle start
  terminals,   \* the terminal idles that reached an open stream
  dirty,       \* foregrounds whose rows, up to the result that settled them, no
               \*   commit has stored yet
  (* the goroutine of each request *)
  pc, bound, answer,
  (* process generations *)
  gens,        \* number of processes started
  proc, ending, done,
  pump,        \* where the pump of the generation stands
  held,        \* foreground the pump attributed its frame to
  out,         \* frames written by claude and not yet handled, the one the pump
               \*   holds first
  runs,        \* native runs in stdin order, the current one first
  (* session.close *)
  closePc, closeTurn, closeRt, closeJoins,
  (* bounds and histories *)
  cancels, emitted, cycles, faults,
  foreign,     \* prompts settled by the result of another native run
  strays       \* pairs <<foreground cancelled, prompt its interrupt reached>>

sessionVars == <<turn, cycle, runtime, retired, closing, persisted, poisoned>>
fgVars      == <<cancelled, settling, terminal, ctxDone, ended, finished>>
pubVars     == <<stream, acceptedIn, terminals, dirty>>
opVars      == <<pc, bound, answer>>
pumpVars    == <<ending, done, pump, held>>
nativeVars  == <<gens, proc, out, runs>>
closeVars   == <<closePc, closeTurn, closeRt, closeJoins>>
ghostVars   == <<cancels, emitted, cycles, foreign, strays>>

vars == <<gate, sessionVars, callbacks, fgVars, pubVars, opVars, pumpVars,
          nativeVars, closeVars, ghostVars, faults>>

Frames  == [kind : {"work", "result", "drift"}, run : Runs]
OpPc    == {"idle", "gated", "ensuring", "joining", "launching", "binding",
            "configuring", "stopping", "stopJoin", "dispatching", "accepting",
            "running", "settling", "signalling", "dropping", "claiming",
            "claimFailed", "publishing", "unwinding", "leaving", "using",
            "commit", "open", "abandoned", "answered"}
Answers == {"none", "refused", "cancelled", "success", "failed"}
PumpPc  == {"none", "ready", "opening", "opened", "apply", "delivering",
            "settling", "signalling", "dropping", "claiming",
            "publishing", "clearing", "endJoin", "endWait", "releasing",
            "done"}
ClosePc == {"none", "abort", "stop", "pump", "commit", "cycle", "fence", "closed"}

-----------------------------------------------------------------------------
(* Shared steps of the code, each the body of one method.                  *)

\* One more failure of the world, while the bound allows it.
Fault   == faults < MaxFaults /\ faults' = faults + 1
NoFault == UNCHANGED faults

\* A bounded join that gives up before what it waits for.
Expires(join) == join \in Expiring /\ Fault

\* proc.Shutdown, then Kill: the child is gone unless both ran out of time.
Signal(g) ==
  \/ proc' = [proc EXCEPT ![g] = "exited"]
  \/ "exit" \in Expiring /\ UNCHANGED proc

WrongDropRuntime(g) ==
  /\ runtime' = IF runtime = g THEN NoGen ELSE runtime
  /\ UNCHANGED retired

\* dropRuntime unbinds the generation only while it is still the bound one.
DropRuntime(g) ==
  IF runtime = g
  THEN runtime' = NoGen /\ retired' = g
  ELSE UNCHANGED <<runtime, retired>>

WrongFence == UNCHANGED stream

\* Publisher.Fence under openMu.
Fence == stream' = NoGen

\* The interrupt is ordered after everything written to stdin before it, so it
\* reaches the run claude is executing at that point of its input.
Interrupt(g, f) ==
  strays' = IF proc[g] = "running" /\ runs[g] # <<>> /\ Head(runs[g]) \in Prompts \ {f}
            THEN strays \cup {<<f, Head(runs[g])>>}
            ELSE strays

\* Publisher.Idle: dropped when no incarnation is open.
PublishIdle(f, outcome) ==
  terminals' = IF stream = NoGen THEN terminals
               ELSE terminals \cup {[fg |-> f, inc |-> stream,
                                     outcome |-> outcome,
                                     durable |-> f \notin dirty]}

\* acceptTurn, and Publisher.OpenAgentCycle for a cycle: published once.
Accept(f) ==
  acceptedIn' = IF acceptedIn[f] = NotYet
                THEN [acceptedIn EXCEPT ![f] = stream] ELSE acceptedIn

WrongSettle(p, end) ==
  ended' = IF ended[p] = "running" /\ end = "settled"
           THEN [ended EXCEPT ![p] = end] ELSE ended

\* t.settle closes t.settled once.
Settle(p, end) ==
  ended' = IF ended[p] = "running" THEN [ended EXCEPT ![p] = end] ELSE ended

\* commitMirror that succeeds: all rows so far are durable and the session is
\* marked persisted; an ephemeral session commits nothing.
CommitOk ==
  IF Ephemeral THEN UNCHANGED <<dirty, persisted>>
  ELSE dirty' = {} /\ persisted' = TRUE

CommitFails == ~Ephemeral /\ Fault /\ UNCHANGED <<dirty, persisted>>

\* openStream refuses a closing session and a generation that is not the live one.
Openable(g) == ~closing /\ runtime = g /\ ~ending[g] /\ proc[g] = "running"

\* The host addresses a session once its establishment was answered and its
\* opening publication is out.
Opened == pc[Establish] = "answered"

WrongAdmissible == ~poisoned /\ ~closing

\* acquireGate and admissionError: one operation, and none on a closing or a
\* poisoned session.
Admissible == ~poisoned /\ ~closing /\ gate = None

At(o, from, to)     == pc[o] = from /\ pc' = [pc EXCEPT ![o] = to]
PumpAt(g, from, to) == pump[g] = from /\ pump' = [pump EXCEPT ![g] = to]
CloseAt(from, to)   == closePc = from /\ closePc' = to

-----------------------------------------------------------------------------
Init ==
  /\ gate = Establish
  /\ turn = None /\ cycle = None
  /\ runtime = 1 /\ retired = NoGen
  /\ closing = FALSE /\ persisted = FALSE /\ poisoned = FALSE
  /\ callbacks = {}
  /\ cancelled = [f \in Foregrounds |-> FALSE]
  /\ settling  = [f \in Foregrounds |-> FALSE]
  /\ terminal  = [f \in Foregrounds |-> FALSE]
  /\ ctxDone   = [p \in Prompts |-> FALSE]
  /\ ended     = [p \in Prompts |-> "running"]
  /\ finished  = [p \in Prompts |-> FALSE]
  /\ stream = NoGen
  /\ acceptedIn = [f \in Foregrounds |-> NotYet]
  /\ terminals = {} /\ dirty = {}
  /\ pc     = [o \in Ops |-> IF o = Establish THEN "commit" ELSE "idle"]
  /\ bound  = [o \in Ops |-> NoGen]
  /\ answer = [o \in Ops |-> "none"]
  /\ gens = 1
  /\ proc   = [g \in Gens |-> IF g = 1 THEN "running" ELSE "none"]
  /\ ending = [g \in Gens |-> FALSE]
  /\ done   = [g \in Gens |-> FALSE]
  /\ pump   = [g \in Gens |-> IF g = 1 THEN "ready" ELSE "none"]
  /\ held   = [g \in Gens |-> None]
  /\ out    = [g \in Gens |-> <<>>]
  /\ runs   = [g \in Gens |-> <<>>]
  /\ closePc = "none" /\ closeTurn = None /\ closeRt = NoGen
  /\ closeJoins = FALSE
  /\ cancels = 0 /\ emitted = 0 /\ cycles = 0 /\ faults = 0
  /\ foreign = {} /\ strays = {}

-----------------------------------------------------------------------------
(* The claude process (external).  It runs what stdin gives it in order,   *)
(* starts a run of its own when it has nothing to do, and may exit.        *)

Write(g, kind, run) ==
  out' = [out EXCEPT ![g] = Append(@, [kind |-> kind, run |-> run])]

Emit(g) ==
  /\ proc[g] = "running"
  /\ emitted < MaxEvents /\ Len(out[g]) < MaxQueue
  /\ emitted' = emitted + 1
  /\ \/ /\ runs[g] = <<>> /\ (EarlyWork \/ stream = g)
        /\ runs' = [runs EXCEPT ![g] = <<Agent>>]
        /\ Write(g, "work", Agent)
     \/ /\ runs[g] # <<>>
        /\ UNCHANGED runs
        /\ Write(g, "work", Head(runs[g]))
     \/ /\ runs[g] # <<>>
        /\ runs' = [runs EXCEPT ![g] = Tail(@)]
        /\ Write(g, "result", Head(runs[g]))
     \/ /\ Drift /\ runs[g] # <<>>
        /\ UNCHANGED runs
        /\ Write(g, "drift", Head(runs[g]))
  /\ UNCHANGED <<gate, sessionVars, callbacks, fgVars, pubVars, opVars,
                 pumpVars, gens, proc, closeVars, cancels, cycles, foreign,
                 strays, faults>>

\* A process whose pipes were closed by release ends by itself.
Exit(g) ==
  /\ proc[g] = "running"
  /\ IF done[g] THEN NoFault ELSE Fault
  /\ proc' = [proc EXCEPT ![g] = "exited"]
  /\ UNCHANGED <<gate, sessionVars, callbacks, fgVars, pubVars, opVars,
                 pumpVars, gens, out, runs, closeVars, ghostVars>>

-----------------------------------------------------------------------------
(* Establishment: the session is installed, its gate held, its process     *)
(* bound and configured; the first commit and the opening follow.  A       *)
(* failure releases the gate and runs the shutdown ladder.                 *)

WrongAbandonedGate == gate

\* close joins the gate, so the hold ends before the ladder runs.
AbandonedGate == None

EstablishCommit ==
  /\ pc[Establish] = "commit"
  /\ \/ /\ CommitOk /\ NoFault
        /\ pc' = [pc EXCEPT ![Establish] = "open"]
        /\ UNCHANGED gate
     \/ /\ CommitFails
        /\ pc' = [pc EXCEPT ![Establish] = "abandoned"]
        /\ gate' = AbandonedGate
  /\ UNCHANGED <<turn, cycle, runtime, retired, closing, poisoned, callbacks,
                 fgVars, stream, acceptedIn, terminals, bound, answer,
                 pumpVars, nativeVars, closeVars, ghostVars>>

\* openStream publishes the opening and then the command snapshot.  A failure
\* abandons the session only while its runtime is still the bound one and nobody
\* closes it.
EstablishOpen ==
  /\ pc[Establish] = "open"
  /\ stream' = IF Openable(1) THEN 1 ELSE stream
  /\ \/ /\ Openable(1) \/ closing \/ runtime # 1
        /\ pc' = [pc EXCEPT ![Establish] = "answered"]
        /\ gate' = None
        /\ NoFault
     \/ /\ ~closing /\ runtime = 1
        /\ IF Openable(1) THEN Fault ELSE NoFault
        /\ pc' = [pc EXCEPT ![Establish] = "abandoned"]
        /\ gate' = AbandonedGate
  /\ UNCHANGED <<sessionVars, callbacks, fgVars, acceptedIn, terminals, dirty,
                 bound, answer, pumpVars, nativeVars, closeVars, ghostVars>>

-----------------------------------------------------------------------------
(* Requests: admission and the runtime.                                    *)

AcquireGate(o) ==
  /\ o \in Prompts \cup Reads /\ pc[o] = "idle" /\ Opened
  /\ IF Admissible
     THEN /\ pc' = [pc EXCEPT ![o] = "gated"]
          /\ gate' = o
          /\ UNCHANGED answer
     ELSE /\ pc' = [pc EXCEPT ![o] = "answered"]
          /\ answer' = [answer EXCEPT ![o] = "refused"]
          /\ UNCHANGED gate
  /\ UNCHANGED <<sessionVars, callbacks, fgVars, pubVars, bound, pumpVars,
                 nativeVars, closeVars, ghostVars, faults>>

\* The way out of a request that still holds the gate: a prompt unwinds its
\* turn first.
Leave(o, a) ==
  /\ pc' = [pc EXCEPT ![o] = IF o \in Prompts THEN "unwinding" ELSE "leaving"]
  /\ answer' = [answer EXCEPT ![o] = a]

\* An error before dispatch answers cancelled when the turn's context ended.
Fail(o) ==
  Leave(o, IF o \in Prompts /\ ctxDone[o] THEN "cancelled" ELSE "refused")

WrongBusy == FALSE

\* The busy check of a prompt and its installation share one critical section.
Busy == cycle # None

InstallTurn(p) ==
  /\ p \in Prompts /\ pc[p] = "gated"
  /\ IF Busy
     THEN /\ pc' = [pc EXCEPT ![p] = "leaving"]
          /\ answer' = [answer EXCEPT ![p] = "refused"]
          /\ UNCHANGED turn
     ELSE /\ turn' = p
          /\ pc' = [pc EXCEPT ![p] = "ensuring"]
          /\ UNCHANGED answer
  /\ UNCHANGED <<gate, cycle, runtime, retired, closing, persisted, poisoned,
                 callbacks, fgVars, pubVars, bound, pumpVars, nativeVars,
                 closeVars, ghostVars, faults>>

\* setConfigOption refuses while an agent-origin cycle is open; the account
\* reads do not look.
CheckBusy(r) ==
  /\ r \in Reads /\ pc[r] = "gated"
  /\ \/ Busy /\ Leave(r, "refused")
     \/ pc' = [pc EXCEPT ![r] = "ensuring"] /\ UNCHANGED answer
  /\ UNCHANGED <<gate, sessionVars, callbacks, fgVars, pubVars, bound,
                 pumpVars, nativeVars, closeVars, ghostVars, faults>>

\* Where a request goes with the runtime ensureRuntime returned.
Served(o) == IF o \in Prompts THEN "dispatching" ELSE "using"

\* A prompt maps its content first, and a cancellation that landed by then
\* answers before any native work.
EnsureRuntime(o) ==
  /\ pc[o] = "ensuring"
  /\ \/ /\ o \in Prompts
        /\ IF ctxDone[o] THEN NoFault ELSE Fault
        /\ Fail(o)
        /\ UNCHANGED bound
     \/ /\ ~(o \in Prompts /\ ctxDone[o])
        /\ bound' = [bound EXCEPT ![o] = runtime]
        /\ pc' = [pc EXCEPT ![o] = IF runtime = NoGen THEN "launching"
                                   ELSE IF ending[runtime] THEN "joining"
                                   ELSE Served(o)]
        /\ UNCHANGED answer /\ NoFault
  /\ UNCHANGED <<gate, sessionVars, callbacks, fgVars, pubVars, pumpVars,
                 nativeVars, closeVars, ghostVars>>

JoinEnding(o) ==
  /\ pc[o] = "joining"
  /\ \/ done[bound[o]] /\ pc' = [pc EXCEPT ![o] = "launching"] /\ UNCHANGED answer
     \/ (o \in Prompts => ctxDone[o]) /\ Fail(o)
  /\ UNCHANGED <<gate, sessionVars, callbacks, fgVars, pubVars, bound,
                 pumpVars, nativeVars, closeVars, ghostVars, faults>>

WrongPredecessorGone == TRUE

\* awaitRetired: the previous process has exited before its transcript is
\* repaired and continued.
PredecessorGone == retired # NoGen => proc[retired] = "exited"

\* The bounded wait, a seed file, the transcript or the start itself may fail.
Launch(o) ==
  /\ pc[o] = "launching"
  /\ \/ /\ PredecessorGone
        /\ retired' = NoGen
        /\ \/ /\ gens < MaxGen /\ NoFault
              /\ gens' = gens + 1
              /\ proc' = [proc EXCEPT ![gens + 1] = "running"]
              /\ bound' = [bound EXCEPT ![o] = gens + 1]
              /\ pc' = [pc EXCEPT ![o] = "binding"]
              /\ UNCHANGED answer
           \/ /\ IF gens < MaxGen THEN Fault ELSE NoFault
              /\ Fail(o) /\ UNCHANGED <<gens, proc, bound>>
     \/ /\ ~PredecessorGone
        /\ Fail(o) /\ NoFault /\ UNCHANGED <<retired, gens, proc, bound>>
  /\ UNCHANGED <<gate, turn, cycle, runtime, closing, persisted, poisoned,
                 callbacks, fgVars, pubVars, pumpVars, out, runs, closeVars,
                 ghostVars>>

WrongBindRefused == FALSE

\* launch rereads s.closing in the critical section that binds the process.
BindRefused == closing

\* A launch that finds the session closing closes rt.done itself and stops the
\* process it never bound.
Bind(o) ==
  /\ pc[o] = "binding"
  /\ IF BindRefused
     THEN /\ done' = [done EXCEPT ![bound[o]] = TRUE]
          /\ pc' = [pc EXCEPT ![o] = "stopping"]
          /\ UNCHANGED <<runtime, pump>>
     ELSE /\ runtime' = bound[o]
          /\ pump' = [pump EXCEPT ![bound[o]] = "ready"]
          /\ pc' = [pc EXCEPT ![o] = "configuring"]
          /\ UNCHANGED done
  /\ UNCHANGED <<gate, turn, cycle, retired, closing, persisted, poisoned,
                 callbacks, fgVars, pubVars, bound, answer, ending, held,
                 nativeVars, closeVars, ghostVars, faults>>

\* configureRuntime, a round trip with the process, then openStream.  A failed
\* configuration stops the process; a refused opening, or one whose command
\* snapshot cannot be delivered, leaves it bound.
OpenStream(o) ==
  /\ pc[o] = "configuring"
  /\ \/ /\ Openable(bound[o]) /\ NoFault
        /\ stream' = bound[o]
        /\ pc' = [pc EXCEPT ![o] = Served(o)]
        /\ UNCHANGED answer
     \/ Openable(bound[o]) /\ Fault /\ stream' = bound[o] /\ Fail(o)
     \/ ~Openable(bound[o]) /\ NoFault /\ Fail(o) /\ UNCHANGED stream
     \/ /\ IF proc[bound[o]] = "running" THEN Fault ELSE NoFault
        /\ pc' = [pc EXCEPT ![o] = "stopping"]
        /\ UNCHANGED <<stream, answer>>
  /\ UNCHANGED <<gate, sessionVars, callbacks, fgVars, acceptedIn, terminals,
                 dirty, bound, pumpVars, nativeVars, closeVars, ghostVars>>

StopSignal(o) ==
  /\ At(o, "stopping", "stopJoin")
  /\ Signal(bound[o])
  /\ UNCHANGED <<gate, sessionVars, callbacks, fgVars, pubVars, bound, answer,
                 pumpVars, gens, out, runs, closeVars, ghostVars, faults>>

StopJoin(o) ==
  /\ pc[o] = "stopJoin"
  /\ (done[bound[o]] /\ NoFault) \/ Expires("pump")
  /\ DropRuntime(bound[o])
  /\ Fail(o)
  /\ UNCHANGED <<gate, turn, cycle, closing, persisted, poisoned, callbacks,
                 fgVars, pubVars, bound, pumpVars, nativeVars, closeVars,
                 ghostVars>>

\* A read or a config change uses the process; a config change also commits.
UseRuntime(r) ==
  /\ r \in Reads /\ pc[r] = "using"
  /\ \/ CommitOk /\ Leave(r, "success")
     \/ Leave(r, "failed") /\ UNCHANGED <<dirty, persisted>>
  /\ UNCHANGED <<gate, turn, cycle, runtime, retired, closing, poisoned,
                 callbacks, fgVars, stream, acceptedIn, terminals, bound,
                 pumpVars, nativeVars, closeVars, ghostVars, faults>>

ReleaseGate(o) ==
  /\ At(o, "leaving", "answered")
  /\ gate' = None
  /\ bound' = [bound EXCEPT ![o] = NoGen]
  /\ UNCHANGED <<sessionVars, callbacks, fgVars, pubVars, answer, pumpVars,
                 nativeVars, closeVars, ghostVars, faults>>

-----------------------------------------------------------------------------
(* The turn: dispatch, settlement, answer.                                 *)

\* A failed write is forgiven when native work already had the turn accepted.
Dispatch(p) ==
  /\ pc[p] = "dispatching"
  /\ \/ /\ ~ctxDone[p] /\ proc[bound[p]] = "running"
        /\ runs' = [runs EXCEPT ![bound[p]] = Append(@, p)]
        /\ pc' = [pc EXCEPT ![p] = "accepting"]
        /\ UNCHANGED answer
     \/ /\ ctxDone[p] \/ proc[bound[p]] = "exited"
        /\ UNCHANGED runs
        /\ IF acceptedIn[p] # NotYet
           THEN pc' = [pc EXCEPT ![p] = "accepting"] /\ UNCHANGED answer
           ELSE Leave(p, IF ctxDone[p] THEN "cancelled" ELSE "failed")
  /\ UNCHANGED <<gate, sessionVars, callbacks, fgVars, pubVars, bound,
                 pumpVars, gens, proc, out, closeVars, ghostVars, faults>>

AcceptTurn(p) ==
  /\ At(p, "accepting", "running")
  /\ Accept(p)
  /\ UNCHANGED <<gate, sessionVars, callbacks, fgVars, stream, terminals,
                 dirty, bound, answer, pumpVars, nativeVars, closeVars,
                 ghostVars, faults>>

WrongAbortUnanswered(p) == FALSE

\* sessionAbortTimeout after the context ended, the run has still not settled.
AbortUnanswered(p) == ctxDone[p] /\ ended[p] = "running"

\* Then the generation is signalled and the turn's transport is over.  Both are
\* one action: a result the pump reads between them is one it reads just before.
AbortExpires(p) ==
  /\ pc[p] = "running" /\ AbortUnanswered(p)
  /\ Signal(bound[p])
  /\ Settle(p, "transport")
  /\ UNCHANGED <<gate, sessionVars, callbacks, cancelled, settling, terminal,
                 ctxDone, finished, pubVars, opVars, pumpVars, gens, out, runs,
                 closeVars, ghostVars, faults>>

\* The run settled: no new interrupt may start for this turn.
BeginSettlement(p) ==
  /\ At(p, "running", "settling")
  /\ ended[p] # "running"
  /\ settling' = [settling EXCEPT ![p] = TRUE]
  /\ UNCHANGED <<gate, sessionVars, callbacks, cancelled, terminal, ctxDone,
                 ended, finished, pubVars, bound, answer, pumpVars,
                 nativeVars, closeVars, ghostVars, faults>>

WrongCallbacksJoined == TRUE

\* callbacks.Wait of beginSettlement and of close.
CallbacksJoined == callbacks = {}

\* judgeCycle: a natively settled run ends as claude reports it, the token limit
\* being a success here, unless a cancellation was claimed.
Verdicts(f) ==
  IF cancelled[f] THEN {"cancelled"} ELSE {"success", "failed", "cancelled"}

CommitTurn(p) ==
  /\ pc[p] = "settling" /\ ended[p] = "settled" /\ CallbacksJoined
  /\ \/ /\ CommitOk /\ NoFault
        /\ pc' = [pc EXCEPT ![p] = "claiming"]
        /\ \E v \in Verdicts(p) : answer' = [answer EXCEPT ![p] = v]
        /\ UNCHANGED stream
     \/ /\ CommitFails
        /\ Fence
        /\ pc' = [pc EXCEPT ![p] = "signalling"]
        /\ answer' = [answer EXCEPT ![p] = "failed"]
  /\ UNCHANGED <<gate, turn, cycle, runtime, retired, closing, poisoned,
                 callbacks, fgVars, acceptedIn, terminals, bound, pumpVars,
                 nativeVars, closeVars, ghostVars>>

SignalTurnRuntime(p) ==
  /\ At(p, "signalling", "dropping")
  /\ Signal(bound[p])
  /\ UNCHANGED <<gate, sessionVars, callbacks, fgVars, pubVars, bound, answer,
                 pumpVars, gens, out, runs, closeVars, ghostVars, faults>>

DropTurnRuntime(p) ==
  /\ At(p, "dropping", "claimFailed")
  /\ DropRuntime(bound[p])
  /\ UNCHANGED <<gate, turn, cycle, closing, persisted, poisoned, callbacks,
                 fgVars, pubVars, bound, answer, pumpVars, nativeVars,
                 closeVars, ghostVars, faults>>

\* A turn whose transport ended holds no commit: fenced and unbound before its
\* idle.
FenceLostTransport(p) ==
  /\ At(p, "settling", "claiming")
  /\ ended[p] = "transport" /\ CallbacksJoined
  /\ Fence
  /\ DropRuntime(bound[p])
  /\ answer' = [answer EXCEPT ![p] = IF cancelled[p] THEN "cancelled" ELSE "failed"]
  /\ UNCHANGED <<gate, turn, cycle, closing, persisted, poisoned, callbacks,
                 fgVars, acceptedIn, terminals, dirty, bound, pumpVars,
                 nativeVars, closeVars, ghostVars, faults>>

\* claimCancellation fixes the verdict: a commit failure outranks a late
\* cancellation.
ClaimTurn(p) ==
  /\ pc[p] \in {"claiming", "claimFailed"}
  /\ pc' = [pc EXCEPT ![p] = "publishing"]
  /\ terminal' = [terminal EXCEPT ![p] = TRUE]
  /\ answer' = IF cancelled[p] /\ pc[p] = "claiming"
               THEN [answer EXCEPT ![p] = "cancelled"] ELSE answer
  /\ UNCHANGED <<gate, sessionVars, callbacks, cancelled, settling, ctxDone,
                 ended, finished, pubVars, bound, pumpVars, nativeVars,
                 closeVars, ghostVars, faults>>

\* The delivery of the idle does not fail here; in the code that makes the answer a
\* failure.
PublishTurnIdle(p) ==
  /\ At(p, "publishing", "unwinding")
  /\ PublishIdle(p, answer[p])
  /\ UNCHANGED <<gate, sessionVars, callbacks, fgVars, stream, acceptedIn,
                 dirty, bound, answer, pumpVars, nativeVars, closeVars,
                 ghostVars, faults>>

\* The deferred s.turn = nil, then close(t.finished); the gate comes last.
Unwind(p) ==
  /\ At(p, "unwinding", "leaving")
  /\ turn' = IF turn = p THEN None ELSE turn
  /\ finished' = [finished EXCEPT ![p] = TRUE]
  /\ UNCHANGED <<gate, cycle, runtime, retired, closing, persisted, poisoned,
                 callbacks, cancelled, settling, terminal, ctxDone, ended,
                 pubVars, bound, answer, pumpVars, nativeVars, closeVars,
                 ghostVars, faults>>

-----------------------------------------------------------------------------
(* session/cancel, and the interrupt it leaves running.                    *)

Foreground == IF turn # None THEN turn ELSE cycle

WrongCancellable(f) == ~cancelled[f]

\* A foreground is cancelled once, and never after its verdict is fixed.
Cancellable(f) == ~cancelled[f] /\ ~terminal[f]

WrongInterruptible(f) == ~settling[f] /\ ~closing

\* Only a foreground that is not settling is interrupted, on a live runtime.
Interruptible(f) ==
  ~settling[f] /\ runtime # NoGen /\ ~closing /\ ~ending[runtime]

Cancel ==
  /\ cancels < MaxCancels /\ Opened
  /\ LET f == Foreground IN
     /\ f # None /\ Cancellable(f)
     /\ cancelled' = [cancelled EXCEPT ![f] = TRUE]
     /\ ctxDone' = IF f \in Prompts THEN [ctxDone EXCEPT ![f] = TRUE] ELSE ctxDone
     /\ callbacks' = IF Interruptible(f)
                     THEN callbacks \cup {[fg |-> f, gen |-> runtime]}
                     ELSE callbacks
  /\ cancels' = cancels + 1
  /\ UNCHANGED <<gate, sessionVars, settling, terminal, ended, finished,
                 pubVars, opVars, pumpVars, nativeVars, closeVars, emitted,
                 cycles, foreign, strays, faults>>

\* The goroutine of cancel: abort writes the interrupt and is answered, or its
\* bounded context ends.
Abort(i) ==
  /\ i \in callbacks
  /\ Interrupt(i.gen, i.fg)
  /\ callbacks' = callbacks \ {i}
  /\ UNCHANGED <<gate, sessionVars, fgVars, pubVars, opVars, pumpVars,
                 nativeVars, closeVars, cancels, emitted, cycles, foreign,
                 faults>>

-----------------------------------------------------------------------------
(* The pump of one generation.                                             *)

\* The pump is done with its frame and takes the next.
Routed(g) ==
  /\ out' = [out EXCEPT ![g] = Tail(@)]
  /\ pump' = [pump EXCEPT ![g] = "ready"]
  /\ held' = [held EXCEPT ![g] = None]

\* handleEvent up to the attribution: a frame of an unbound generation is
\* dropped, another session id poisons, anything else goes to the turn, the open
\* cycle, or a new agent-origin cycle.
PumpTake(g) ==
  /\ pump[g] = "ready" /\ out[g] # <<>>
  /\ LET drift == Head(out[g]).kind = "drift" IN
     /\ poisoned' = (poisoned \/ (runtime = g /\ drift))
     /\ IF runtime # g \/ drift \/ (Foreground = None /\ closing)
        THEN Routed(g)
        ELSE /\ held' = [held EXCEPT ![g] = Foreground]
             /\ pump' = [pump EXCEPT ![g] =
                           IF Foreground = None THEN "opening" ELSE "apply"]
             /\ UNCHANGED out
  /\ UNCHANGED <<gate, turn, cycle, runtime, retired, closing, persisted,
                 callbacks, fgVars, pubVars, opVars, ending, done, gens, proc,
                 runs, closeVars, ghostVars, faults>>

WrongMayOpenCycle(g) == cycle = None /\ ~closing /\ runtime = g

\* openAgentCycle reserves the foreground under the lock it checks it under.
MayOpenCycle(g) == turn = None /\ cycle = None /\ ~closing /\ runtime = g

OpenCycle(g) ==
  /\ pump[g] = "opening" /\ cycles < MaxEvents
  /\ IF MayOpenCycle(g)
     THEN /\ cycles' = cycles + 1
          /\ cycle' = cycles + 1
          /\ Accept(cycles + 1)
          /\ held' = [held EXCEPT ![g] = cycles + 1]
          /\ pump' = [pump EXCEPT ![g] = "opened"]
          /\ UNCHANGED out
     ELSE Routed(g) /\ UNCHANGED <<cycle, cycles, acceptedIn>>
  /\ UNCHANGED <<gate, turn, runtime, retired, closing, persisted, poisoned,
                 callbacks, fgVars, stream, terminals, dirty, opVars, ending,
                 done, gens, proc, runs, closeVars, cancels, emitted, foreign,
                 strays, faults>>

\* After the publication the pump keeps the cycle only if it is still the
\* foreground; a close in between owns it.
CycleLost(g) ==
  pump[g] = "opened" /\ (runtime # g \/ cycle # held[g] \/ closing)

LoseCycle(g) ==
  /\ CycleLost(g)
  /\ Routed(g)
  /\ UNCHANGED <<gate, sessionVars, callbacks, fgVars, pubVars, opVars, ending,
                 done, gens, proc, runs, closeVars, ghostVars, faults>>

\* projectEvent on the foreground the frame was attributed to.  A top-level
\* result settles the turn, whose delivery the pump then waits for, or starts the
\* settlement of the cycle on the pump itself.
Apply(g) ==
  /\ pump[g] \in {"apply", "opened"} /\ ~CycleLost(g)
  /\ LET f == held[g]
         e == Head(out[g])
         settled == f \in Prompts /\ ended[f] # "running"
     IN
     /\ dirty' = IF settled THEN dirty ELSE dirty \cup {f}
     /\ IF f \in Prompts THEN Accept(f) ELSE UNCHANGED acceptedIn
     /\ IF e.kind = "result"
        THEN /\ UNCHANGED <<out, held>>
             /\ pump' = [pump EXCEPT ![g] =
                           IF f \in Prompts THEN "delivering" ELSE "settling"]
             /\ settling' = IF f \in Prompts THEN settling
                            ELSE [settling EXCEPT ![f] = TRUE]
             /\ IF f \in Prompts THEN Settle(f, "settled") ELSE UNCHANGED ended
             /\ foreign' = IF f \in Prompts /\ ~settled /\ e.run # f
                           THEN foreign \cup {f} ELSE foreign
        ELSE Routed(g) /\ UNCHANGED <<settling, ended, foreign>>
  /\ UNCHANGED <<gate, sessionVars, callbacks, cancelled, terminal, ctxDone,
                 finished, stream, terminals, opVars, ending, done, gens, proc,
                 runs, closeVars, cancels, emitted, cycles, strays, faults>>

\* finishDelivery holds the frames behind the result until the turn is finished.
FinishDelivery(g) ==
  /\ pump[g] = "delivering"
  /\ finished[held[g]] \/ proc[g] = "exited"
  /\ Routed(g)
  /\ UNCHANGED <<gate, sessionVars, callbacks, fgVars, pubVars, opVars, ending,
                 done, gens, proc, runs, closeVars, ghostVars, faults>>

(* settleAgentCycle, on the pump. *)

CommitCycle(g) ==
  /\ pump[g] = "settling" /\ CallbacksJoined
  /\ \/ /\ CommitOk /\ NoFault
        /\ pump' = [pump EXCEPT ![g] = "claiming"]
        /\ UNCHANGED stream
     \/ /\ CommitFails
        /\ Fence
        /\ pump' = [pump EXCEPT ![g] = "signalling"]
  /\ UNCHANGED <<gate, turn, cycle, runtime, retired, closing, poisoned,
                 callbacks, fgVars, acceptedIn, terminals, opVars, ending,
                 done, held, nativeVars, closeVars, ghostVars>>

SignalCycleRuntime(g) ==
  /\ PumpAt(g, "signalling", "dropping")
  /\ Signal(g)
  /\ UNCHANGED <<gate, sessionVars, callbacks, fgVars, pubVars, opVars, ending,
                 done, held, gens, out, runs, closeVars, ghostVars, faults>>

DropCycleRuntime(g) ==
  /\ PumpAt(g, "dropping", "claiming")
  /\ DropRuntime(g)
  /\ UNCHANGED <<gate, turn, cycle, closing, persisted, poisoned, callbacks,
                 fgVars, pubVars, opVars, ending, done, held, nativeVars,
                 closeVars, ghostVars, faults>>

ClaimCycle(g) ==
  /\ PumpAt(g, "claiming", "publishing")
  /\ terminal' = [terminal EXCEPT ![held[g]] = TRUE]
  /\ UNCHANGED <<gate, sessionVars, callbacks, cancelled, settling, ctxDone,
                 ended, finished, pubVars, opVars, ending, done, held,
                 nativeVars, closeVars, ghostVars, faults>>

PublishCycleIdle(g) ==
  /\ PumpAt(g, "publishing", "clearing")
  /\ \E v \in Verdicts(held[g]) : PublishIdle(held[g], v)
  /\ UNCHANGED <<gate, sessionVars, callbacks, fgVars, stream, acceptedIn,
                 dirty, opVars, ending, done, held, nativeVars, closeVars,
                 ghostVars, faults>>

ClearCycle(g) ==
  /\ pump[g] = "clearing"
  /\ cycle' = IF cycle = held[g] THEN None ELSE cycle
  /\ Routed(g)
  /\ UNCHANGED <<gate, turn, runtime, retired, closing, persisted, poisoned,
                 callbacks, fgVars, pubVars, opVars, ending, done, gens, proc,
                 runs, closeVars, ghostVars, faults>>

(* runtimeEnded, when the frames of the process are exhausted or its stream
   cannot be read. *)

WrongCycleAfterEnd == cycle

WrongCycleAfterEndClosing == None

\* The open cycle leaves the session with its runtime, unless a close owns it.
CycleAfterEnd == IF closing THEN cycle ELSE None

RuntimeEnded(g) ==
  /\ IF runtime # g
     THEN /\ pump' = [pump EXCEPT ![g] = "releasing"]
          /\ UNCHANGED <<ending, held, cycle>>
     ELSE /\ ending' = [ending EXCEPT ![g] = TRUE]
          /\ held' = [held EXCEPT ![g] = IF closing /\ turn = None THEN None
                                         ELSE Foreground]
          /\ cycle' = CycleAfterEnd
          /\ pump' = [pump EXCEPT ![g] = "endJoin"]
  /\ UNCHANGED <<gate, turn, runtime, retired, closing, persisted, poisoned,
                 callbacks, fgVars, pubVars, opVars, done, nativeVars,
                 closeVars, ghostVars>>

DrainRuntime(g) ==
  /\ pump[g] = "ready" /\ out[g] = <<>> /\ proc[g] = "exited"
  /\ RuntimeEnded(g) /\ NoFault

ReadFails(g) ==
  /\ pump[g] = "ready" /\ proc[g] = "running" /\ Fault
  /\ RuntimeEnded(g)

WrongEndsWithRuntime(f) == f # None

\* The open cycle ends failed; a turn only learns that its transport ended and
\* publishes its own terminal event.
EndsWithRuntime(f) == f \in Cycles

EndForeground(g) ==
  /\ PumpAt(g, "endJoin", "endWait")
  /\ CallbacksJoined
  /\ LET f == held[g] IN
     /\ IF EndsWithRuntime(f) THEN PublishIdle(f, "failed") ELSE UNCHANGED terminals
     /\ IF f \in Prompts
        THEN ctxDone' = [ctxDone EXCEPT ![f] = TRUE] /\ Settle(f, "transport")
        ELSE UNCHANGED <<ctxDone, ended>>
  /\ UNCHANGED <<gate, sessionVars, callbacks, cancelled, settling, terminal,
                 finished, stream, acceptedIn, dirty, opVars, ending, done,
                 held, nativeVars, closeVars, ghostVars, faults>>

WrongTurnJoined(g) == TRUE

\* runtimeEnded joins t.finished.
TurnJoined(g) == held[g] \in Prompts => finished[held[g]]

WrongStreamAfterEnd(g) == stream

\* A closing session keeps its stream for the ladder.
StreamAfterEnd(g) == IF runtime = g /\ ~closing THEN NoGen ELSE stream

\* The incarnation ends once the turn has published its terminal event.
RetireRuntime(g) ==
  /\ PumpAt(g, "endWait", "releasing")
  /\ (TurnJoined(g) /\ NoFault) \/ Expires("turn")
  /\ stream' = StreamAfterEnd(g)
  /\ DropRuntime(g)
  /\ UNCHANGED <<gate, turn, cycle, closing, persisted, poisoned, callbacks,
                 fgVars, acceptedIn, terminals, dirty, opVars, ending, done,
                 held, nativeVars, closeVars, ghostVars>>

\* release waits for the process only so long, then closes its pipes.
Release(g) ==
  /\ PumpAt(g, "releasing", "done")
  /\ done' = [done EXCEPT ![g] = TRUE]
  /\ held' = [held EXCEPT ![g] = None]
  /\ UNCHANGED <<gate, sessionVars, callbacks, fgVars, pubVars, opVars, ending,
                 nativeVars, closeVars, ghostVars, faults>>

-----------------------------------------------------------------------------
(* session.close: the shutdown ladder.                                     *)

WrongJoinsEstablishment == FALSE

\* joinEstablishment: a session not persisted yet may still be committing for the
\* first time.
JoinsEstablishment == ~persisted

\* Called by the host, or by an establishment that failed.
BeginClose ==
  /\ CloseAt("none", "abort")
  /\ HostCloses \/ pc[Establish] = "abandoned"
  /\ closing' = TRUE
  /\ closeTurn' = turn /\ closeRt' = runtime /\ closeJoins' = JoinsEstablishment
  /\ IF turn = None THEN UNCHANGED <<cancelled, ctxDone>>
     ELSE /\ cancelled' = [cancelled EXCEPT ![turn] = TRUE]
          /\ ctxDone' = [ctxDone EXCEPT ![turn] = TRUE]
  /\ UNCHANGED <<gate, turn, cycle, runtime, retired, persisted, poisoned,
                 callbacks, settling, terminal, ended, finished, pubVars,
                 opVars, pumpVars, nativeVars, ghostVars, faults>>

CloseAbort ==
  /\ CloseAt("abort", "stop")
  /\ CallbacksJoined
  /\ IF closeTurn # None /\ closeRt # NoGen THEN Interrupt(closeRt, closeTurn)
     ELSE UNCHANGED strays
  /\ UNCHANGED <<gate, sessionVars, callbacks, fgVars, pubVars, opVars,
                 pumpVars, nativeVars, closeTurn, closeRt, closeJoins,
                 cancels, emitted, cycles, foreign, faults>>

CloseStop ==
  /\ closePc = "stop"
  /\ ((closeTurn # None => finished[closeTurn]) /\ NoFault) \/ Expires("turn")
  /\ IF closeRt = NoGen
     THEN closePc' = "commit" /\ UNCHANGED proc
     ELSE closePc' = "pump" /\ Signal(closeRt)
  /\ UNCHANGED <<gate, sessionVars, callbacks, fgVars, pubVars, opVars,
                 pumpVars, gens, out, runs, closeTurn, closeRt, closeJoins,
                 ghostVars>>

CloseJoinPump ==
  /\ CloseAt("pump", "commit")
  /\ (done[closeRt] /\ NoFault) \/ Expires("pump")
  /\ DropRuntime(closeRt)
  /\ UNCHANGED <<gate, turn, cycle, closing, persisted, poisoned, callbacks,
                 fgVars, pubVars, opVars, pumpVars, nativeVars, closeTurn,
                 closeRt, closeJoins, ghostVars>>

\* The close joins the gate of a first commit, then commits what is owed.
CloseCommit ==
  /\ closePc = "commit"
  /\ IF closeJoins THEN gate = None /\ gate' = Closer ELSE UNCHANGED gate
  /\ \/ /\ IF persisted THEN CommitOk ELSE UNCHANGED <<dirty, persisted>>
        /\ closePc' = "cycle" /\ NoFault
     \/ /\ persisted /\ CommitFails
        /\ closePc' = "fence"
  /\ UNCHANGED <<turn, cycle, runtime, retired, closing, poisoned, callbacks,
                 fgVars, stream, acceptedIn, terminals, opVars, pumpVars,
                 nativeVars, closeTurn, closeRt, closeJoins, ghostVars>>

\* The open cycle is terminalized only when what the store owes is committed;
\* then the stream is fenced.
CloseFence ==
  /\ closePc \in {"cycle", "fence"} /\ closePc' = "closed"
  /\ cycle' = None
  /\ IF closePc = "cycle" /\ cycle # None THEN PublishIdle(cycle, "cancelled")
     ELSE UNCHANGED terminals
  /\ Fence
  /\ gate' = IF gate = Closer THEN None ELSE gate
  /\ UNCHANGED <<turn, runtime, retired, closing, persisted, poisoned,
                 callbacks, fgVars, acceptedIn, dirty, opVars, pumpVars,
                 nativeVars, closeTurn, closeRt, closeJoins, ghostVars, faults>>

-----------------------------------------------------------------------------
\* What a request's goroutine does once the host's call has been admitted.
RequestStep(o) ==
  \/ CheckBusy(o)   \/ EnsureRuntime(o) \/ JoinEnding(o) \/ Launch(o)
  \/ Bind(o)        \/ OpenStream(o)    \/ StopSignal(o) \/ StopJoin(o)
  \/ UseRuntime(o)  \/ ReleaseGate(o)

TurnStep(p) ==
  \/ InstallTurn(p) \/ Dispatch(p)      \/ AcceptTurn(p) \/ AbortExpires(p)
  \/ BeginSettlement(p) \/ CommitTurn(p) \/ SignalTurnRuntime(p)
  \/ DropTurnRuntime(p) \/ FenceLostTransport(p) \/ ClaimTurn(p)
  \/ PublishTurnIdle(p) \/ Unwind(p)

PumpStep(g) ==
  \/ PumpTake(g)    \/ OpenCycle(g)     \/ LoseCycle(g)  \/ Apply(g)
  \/ FinishDelivery(g) \/ CommitCycle(g) \/ SignalCycleRuntime(g)
  \/ DropCycleRuntime(g)
  \/ ClaimCycle(g)  \/ PublishCycleIdle(g) \/ ClearCycle(g)
  \/ DrainRuntime(g) \/ EndForeground(g) \/ RetireRuntime(g) \/ Release(g)

CloseStep ==
  \/ CloseAbort \/ CloseStop \/ CloseJoinPump \/ CloseCommit \/ CloseFence

Next ==
  \/ EstablishCommit \/ EstablishOpen
  \/ \E o \in Prompts \cup Reads : AcquireGate(o) \/ RequestStep(o)
  \/ \E p \in Prompts : TurnStep(p)
  \/ Cancel
  \/ \E i \in callbacks : Abort(i)
  \/ \E g \in Gens : PumpStep(g) \/ ReadFails(g) \/ Emit(g) \/ Exit(g)
  \/ BeginClose \/ CloseStep

Spec == Init /\ [][Next]_vars

\* Every goroutine of the adapter runs on; the process, the host and the failures
\* owe nothing.
Fairness ==
  /\ WF_vars(EstablishCommit \/ EstablishOpen)
  /\ \A o \in Prompts \cup Reads : WF_vars(RequestStep(o) \/ (o \in Prompts /\ TurnStep(o)))
  /\ \A i \in [fg : Foregrounds, gen : Gens] : WF_vars(Abort(i))
  /\ \A g \in Gens : WF_vars(PumpStep(g))
  /\ WF_vars(pc[Establish] = "abandoned" /\ BeginClose)
  /\ WF_vars(CloseStep)

FairSpec == Spec /\ Fairness
=============================================================================
