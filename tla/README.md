# A TLA+ model of acp-go-claude

`acp-go-claude` is an adapter: an ACP host speaks JSON-RPC to it, and it drives
one `claude` command-line process per session. The hard part of the adapter is
not the translation of messages. It is that one session is worked on by many
goroutines (the request handlers, one *pump* per claude process, the interrupt
goroutine of a cancellation, the shutdown ladder), that the process may exit,
hang or outlive its kill at any moment, and that what the host is told on the
lifecycle stream must agree with what the durable store holds.

This directory models that core, the dialogs a session opens with its host, the
agent's registry of sessions and the quota cache they share, checks them with
TLC and proves most of their safety with TLAPS.

    tlc -workers 4 -config SessionTurns.cfg MCSession     # any run below
    tlapm SessionProofs.tla                               # any proof module

The runs take from a few seconds to four minutes each, the proofs a few minutes.

## 1. Inventory

| Component | State | Operations | What is hard |
|---|---|---|---|
| Session core (`session.go`, `session_prompt.go`, `session_lifecycle.go`) | gate, turn, cycle, runtime, retired, closing, persisted, poison, the callbacks group; per runtime: ending, done | prompt, cancel, launch, pump, settlement, runtimeEnded, close | interleaving of four kinds of goroutine, process loss, failed commits, expiring joins |
| Establishment and registry (`agent_session.go`, `agent.go`) | sessions, starting, deleted, ephemeral, restores, closed | NewSession, LoadSession, ResumeSession, CloseSession, UnstableDeleteSession, ListSessions, Agent.Close | an establishment racing a delete, a close, another restore or the session limit; who runs the ladder and who waits for it |
| Store (`session_store.go`) | the mirror's committed rows, the session record | commitMirror, hydrate, cutTornTail | a commit that fails, a torn transcript |
| Config (`session_models.go`) | model, mode, effort, style | setConfigOption | shares the gate, relaunches |
| Control client (`internal/claude/client.go`) | pending replies, the event channel | Control, Prompt, Abort, Reply, read | a reply racing its timeout, the end of the read loop |
| Dialogs (`session_permissions.go`, `session.go`) | open dialogs, the callbacks group, the client-call budget | handleControl, registerDialog, requestPermission, elicit, cancelDialogs | an admission racing a cancel, a settlement, the end of the process or a close |
| Projection (`session_updates.go`, `session_compaction.go`, `session_replay.go`, `image_output.go`) | per-cycle text, tools, usage | projectEvent and its parts | streamed and completed text must add up once |
| Quota cache (`internal/claude/quota_cache.go`, `quota.go`) | per key: two lanes, windows, versions | Read, Observe | a shared probe, an older answer after a newer |
| Account usage (`agent_account_usage.go`, `session_account_usage.go`) | none of its own | accountUsage, gatewayUsage | relaunches without looking at an open cycle |
| Paths (`internal/claude/project_dir.go`, `sessionpath.go`) | none | ProjectDirName, TranscriptStarted, ValidateRows | 32-bit hash arithmetic |
| Metadata, options, launch arguments, probe relay, command line | construction-time values | parsing, formatting, one-shot I/O | nothing concurrent |

How they interact: every request handler reaches its session over the registry
(under the agent's lock), takes the session's one-slot *gate*, and works on the
session's *runtime*, the current claude process. The pump of that runtime reads
the process's records and attributes each to the *turn* (a prompt being
answered) or to a *cycle* (work claude started by itself). Turn and cycle end in
a settlement: join the interrupts, commit the transcript, publish the terminal
idle. Everything the host sees goes through `lifecycle.Publisher`, which has an
*incarnation* per process generation and drops whatever reaches none.

What makes the core correct:

- exclusion: one request past admission, one foreground, one process;
- the stream: every foreground announced on an incarnation ends there, once,
  and a terminal state the store does not back is never published as a success;
- cancellation: it is honoured exactly up to the verdict, its interrupt never
  outlives the settlement of its foreground;
- shutdown: a closed session has no process and nothing happens to it any more;
- progress: closes end; cancelled prompts and prompts whose process died are
  answered.

What makes the dialogs correct:

- no reply reaches a later foreground: an admitted dialog is over, or cancelled,
  before the idle of the foreground it was asked for is out;
- a cancellation reaches the dialogs of its foreground, admitted before or after;
- nobody waits for the host: who joins the dialogs has cancelled them;
- the budget of host calls is given back on every path.

What makes the registry correct:

- one process per session id, and no more processes than the limit, through
  restores, replacements, failed establishments and shutdowns;
- an answered close has stopped its process, whoever ran the ladder; a deleted id
  stays gone and unlisted;
- every request ends, and Agent.Close leaves nothing running, establishments in
  flight included.

What makes the quota cache correct:

- sharing: one refresh per account, and nobody waits for one that is over;
- restraint: no probe during a backoff, none for an exhausted window;
- freshness: an answer never replaces what a turn reported after the probe began,
  and a refusal makes its own window due, at once and nothing else.

`PROJECT.json` lists the hazards behind these at their lines, those of the parts
not modelled yet included.

## 2. The modules

| Module | Content |
|---|---|
| `Session` | the state of one session and one action per critical section |
| `SessionProperties` | its type invariant, safety, action and liveness properties |
| `HostStream` | what a host may rely on of the stream; `Session` implements it |
| `MCSession` | the instance TLC checks; the constants are in the `.cfg` files |
| `SessionTypeProofs` | `TypeOK` is an invariant; what the pumps hold |
| `SessionProofs` | `GateExclusive`, `OneForeground`, `InterruptJoined`, `OneProcess` |
| `StreamProofs` | `DurableTurns`, `CancelHonoured`, `OpensOnFencedStream`, `ClosedIsFinal`, `CycleHasOwner`, `CycleTerminalOwed` |
| `EndingProofs` | `TerminalOnce`, `TerminalWhereAccepted`, `TurnTerminalOwed`, `ClosedNoProcess`, `HostSeesTurnByTurn` |
| `AgentRegistry` | the agent's maps, every request on a session id, Agent.Close |
| `AgentRegistryProperties` | its type invariant, safety and liveness properties |
| `MCAgentRegistry` | the instance TLC checks |
| `RegistryTypeProofs` | `TypeOK` of the registry; who holds slots and gates |
| `RegistryProofs` | `DeletedIsGone`, `AnsweredCloseIsDone`, `ActiveWithinLimit`, `OneProcessPerId`, `ListTruthful` |
| `Dialogs` | the callbacks of one session and whatever cancels and joins them |
| `DialogsProperties` | its type invariant and safety properties |
| `MCDialogs` | the instance TLC checks |
| `DialogsProofs` | `TypeOK`, `DialogHasForeground`, `CancelledDialogsEnd`, `JoinedAreCancelled` |
| `QuotaCache` | the cache, its readers and the turns that report to it |
| `QuotaCacheProperties` | its type invariant, safety and action properties |
| `MCQuotaCache` | the instance TLC checks |
| `QuotaProofs` | `TypeOK`, `OneRefreshPerAccount`, `WaitersAreServed`, `ExhaustionSuppresses`, `NewerReadingWins`, `BackoffHolds` of the cache |

### How `Session` corresponds to the code

A section under `session.mu` is one action, and a blocking wait (`callbacks.Wait`,
`<-t.finished`, `<-rt.done`, the join of the gate) is the guard of the action
that follows it. So `settleTurn` is BeginSettlement, CommitTurn or
FenceLostTransport, SignalTurnRuntime, DropTurnRuntime, ClaimTurn,
PublishTurnIdle and Unwind, and any other goroutine may run between two of them.

- **Requests.** `pc[o]` says where the goroutine of request `o` stands,
  `bound[o]` which generation it got from `ensureRuntime`, `answer[o]` what the
  host is told. `Prompts` run a turn; `Reads` (setConfigOption, accountUsage,
  gatewayUsage) only use the runtime; `Establish` is the tail of the request
  that created the session: its first commit and the opening publication.
- **Foregrounds.** A turn is named by its prompt, a cycle by the number of its
  start. `cancelled`, `settling`, `terminal` are the flags of `cycle`; `ended`,
  `ctxDone`, `finished` those of `turn`.
- **Generations.** `runtime` and `retired` are `s.runtime` and `s.retired`, with
  generations numbered in launch order and `NoGen` for nil. `proc` is the child,
  `ending` and `done` are the runtime's, `pump[g]` says where the pump stands,
  `held[g]` which foreground it attributed its record to.
- **claude** (external). It runs what stdin gave it in order (`runs`), may start
  a run of its own when it has nothing to do, writes work, result and drifted
  records, and may exit. `Interrupt` records which run an interrupt reaches.
- **The stream** (external). `stream` is the generation whose incarnation is
  open, `acceptedIn` where a foreground was announced, `terminals` the idles that
  reached an incarnation, with their outcome and whether the store held every row
  (`dirty` has the foregrounds it owes rows to).
- **The ladder.** `closePc` and what `close` sampled (`closeTurn`, `closeRt`,
  `closeJoins`).
- **Bounded waits.** `Expiring` names the joins that may give up: of the pump in
  stopRuntime, of the turn in close and runtimeEnded, of the child in
  signalRuntime. Each expiry counts as a fault.

### What the host relies on: `HostStream`

`HostStream` is the stream without goroutines, gates or processes: incarnations
open one after the other with rising numbers, on the open one a foreground is
announced only when nothing is owed, and ended only where it was announced; a
fence makes what is still owed void. `SessionProperties!Host` maps `Session` to
it: the open incarnation is `stream`, a foreground is announced where
`acceptedIn` says (a publication that met no incarnation reached nobody), it has
ended once `terminals` has its idle, and a prompt that leaves without a verdict
is dropped. `HostSeesTurnByTurn` says that every step of `Session` is one of
`HostStream` or changes nothing the host sees. `ended` is a set, so an idle that is
published twice is no step of `HostStream`; that this does not happen is
`TerminalOnce`. Both, and `TerminalWhereAccepted`, are checked and proved without
reads: a read relaunches while a cycle settles (disagreement 3 of section 4).

### How `AgentRegistry` corresponds to the code

A section under `Agent.mu` or `session.mu` is one action; a call of the store,
the launch, a wait for the gate, for `closeDone` or for an owed opening lies
between two of them.

- **The agent.** `sessions`, `deleted`, `ephemeral`, `starting`, `closed` and
  `restores` are the fields of the same names; `slots` has the reservations whose
  once-only release has not run.
- **Sessions** are named by the request that builds them. Of what module
  `Session` says of one, there is left whether its process runs (`proc`), who
  holds its gate, how far its ladder is, what that sampled (`joins`) and whether
  it was persisted.
- **Requests.** `pc[q]` is the next section of the goroutine of `q`, `seen[q]`
  the session it looked up or built. `Entry` and `AfterClose` have the order of
  a handler's steps. A restore is Acquire, Sample, then either the live session
  (AcquireActive, Readmit, ReplayActive; or its close and LoadStored, when the
  carrier differs) or the store (LoadStored); an establishment is Reserve,
  Hydrate, Launch, Configure, Install, HandOver, FirstCommit, ScheduleOpen, and
  Drop for the deferred releases of one that fails.
- **The opening** of a session runs after the establishing response (`hook`) and
  may close the session. Requests on the id wait for it (`Await`) until their
  context ends (`ContextEnds`), which it need not.
- **The ladder** is run by its first caller; the others wait for it
  (`CloseReturned`). Ladder(i) has its steps for every caller.
- **A list** takes the live sessions in one section and looks at each stored id
  in one of its own.

### How `Dialogs` corresponds to the code

- **The pump** samples the foreground (HandleControl), opens a cycle when there
  is none, looks at the cancellation, publishes the pending tool, and registers
  the dialog, each a section of its own: the foreground it sampled may be
  cancelled, settled or gone at any of them. `work` is what it holds meanwhile.
- **A request's goroutine** (`pc[r]`): Call within the budget, the host's answer
  or the end of its context, Reply, Unregister. `dialogs` is `s.dialogs`,
  `callbacks` the WaitGroup, `dead` the requests whose context is cancelled;
  a refused dialog is dead from the start and counted by nobody.
- **The four closers** of dialogs are cancel (CancelSweep), a settlement
  (SettlementSweep, SettlementJoin and, on the pump, CycleSweep, SettleCycle),
  runtimeEnded (EndSweep, EndForeground) and close (CloseSweep, CloseJoin). Each
  marks its foreground or the session first and cancels what is registered in a
  later section.
- Turns, cycles and the ladder are those of `Session` without the stream.

### How `QuotaCache` corresponds to the code

A section under the cache's mutex is one action; the probe and the wait for
`running` lie between two of them.

- **The cache.** `table` is `c.entries`, a map from keys to heap cells, and `heap`
  holds the `quotaEntry` records: a reader keeps in `at` the cell it looked up,
  even after the table dropped it. `running` names the reader that refreshes,
  where the code has the channel it will close. `Enters` and `Entry` are
  `entry()`, the eviction of idle entries included; `Unblocked` and `IsDue` are
  `due()`, whose deletions are part of every action that calls it; `applyProbe`
  and `observed` are the code's functions on an entry.
- **Readers.** Read (which joins a refresh, answers from the cache, or begins a
  refresh), then per lane BeginLane, Answer and Apply, and Finish, which lets go
  of the waiting readers (`Released`). Leave is a waiting reader's return, Cancel
  the end of its context. A session's read holds its gate, so a session has at
  most one.
- **Turns.** Report and LimitError are `observeQuota` up to its call of Observe,
  which is an action of its own: two sessions may time-stamp their events in one
  order and observe them in the other. A session reports once a read of it has
  set `rt.quotaAccess`.
- **Probes** (external). `Answers` is what `forwardQuota` may return to
  applyProbe: an error, 403 or 404 (`unavailable`), 401 (`unauthenticated`), or
  the windows of a 200 or 429, with the window that is exhausted if any and a
  Retry-After. A failed clean-up, or credentials that changed during the probe,
  are an error like the others, but one that may end the refresh.

### Abstractions and assumptions

Of `QuotaCache`:

- Time counts ticks. Only the order of the durations and that of their sums
  with the clock matters to the code, so the durations are constants and small in
  the runs. 0 is Go's zero time.
- The windows of one answer or event share a reset time, so that the order in
  which a map iteration takes two windows of a lane makes no difference.
- Percentages and the snapshot a reader returns are data: nothing reads them back.
- Once a session reports (`access`) it keeps doing so: the relaunch that would
  forget `rt.quotaAccess` until the next read only takes behaviours away.
- The key of a session does not change. A session whose credentials change is
  another session of the model.
- A refresh may last any number of ticks, longer than the code's read timeout
  allows. The safety properties checked do not need that timeout.
- `failedUntil` is a history variable: the end of the backoff of the last failed
  probe of a key and lane.

Of `AgentRegistry`:

- The connection is a served one: the opening is a hook that runs after the
  response, and AwaitSession holds back requests on the id until it ran.
- The host sends a request on an id it was told: a stored one, or that of an
  answered session/new. The id a session/new draws is fresh (`FreshAssumption`).
- Whether a restore has the live session's carrier (`sameCarrier`) is free.
- What happens inside an installed session is `Session`'s: here nobody takes its
  gate but establishments, restores, the opening and the ladder; that a prompt may
  hold it is why a restore of a live session may always be refused. The brief hold
  before a changed carrier's close is part of that close. Only an
  unpersisted session's ladder joins the gate, and that a prompt gives it up under
  a close is CloseCompletes of `Session`.
- A commit that reaches the store after the delete of its id may or may not store
  the session again: the store is external.
- An ephemeral id that is deleted twice reaches the store the second time, as in
  the code (the first delete forgets that it is ephemeral).

Of `Dialogs`:

- One process generation; a session whose process is gone starts no other, and a
  prompt installed on it is answered without a dispatch.
- A record that bears work opens a cycle (OpenWorkCycle), like a control request;
  what it projects is left out, and a result on top of it is a CycleResult.
- The host may never answer; a call of the host whose context is cancelled
  returns. A reply to claude ends: a child that stops reading its input would
  hold the reply, and no bound of the code ends that.
- A hook callback is answered on the pump at once and is left out; the schemas
  and the shape of an answer are data.

Of `Session`:

- Records are reduced to work, result and a drifted session id, each with the
  run it belongs to. Records that carry no foreground work (control requests,
  system notices) change nothing of this state. A result settles whichever
  foreground holds the pump, as in the code, so the result of a run of claude's
  own may settle a prompt (`foreign` remembers it).
- The poison check of a request and its acquisition of the gate are two sections
  in the code and one action here.
- The host sends the next request only after the establishment was answered and
  its opening is out (`Opened`), as the served transport orders it.
- `EarlyWork = FALSE`: a process starts work of its own only once its incarnation
  is open. A claude that starts a run during its initialization would have
  that run announced on no incarnation.
- The reply of an interrupt is not followed to its source: `Abort` ends by
  itself, as its 5 s context guarantees.
- `ReadFails` is a malformed line: the read loop ends, the process lives.
- The delivery of a turn's idle does not fail: in the code that turns the answer
  into a failure (`session_prompt.go:329-331`).
- The signal and the settle of an expired abort are one action (AbortExpires).

## 3. The runs

All bounds are constants: generations, records, records in flight, cancellations
and failures of the world (a process exit, a failed commit, a failed launch, an
expired join). They are consumed by guards, so a bound cuts behaviours off and
adds none.

| Run | Instance | What it shows |
|---|---|---|
| `session_turns` | 2 prompts, 2 generations, 3 records, 2 cancellations, 1 failure, no close | exclusion, the stream, cancellation and settlement |
| `session_closing` | 1 prompt, 2 generations, 3 records, 1 cancellation, 2 failures, the host may close | the ladder at every point of a turn, a cycle, a relaunch and the establishment; `Session` implements `HostStream` |
| `session_slow` | 1 prompt, 1 read, 1 failure, every join may expire, drift | nothing but `awaitRetired`, the gate and the reread of closing is needed for exclusion when a join gives up |
| `session_live` | 1 prompt, 2 records, 1 failure, fair | progress |
| `session_stray`, `session_trace`, `session_read` | as small as the counterexample allows | the three disagreements of section 4 |

Why the bounds are enough for what is asked: a hazard here needs one predecessor
and one successor, so two generations and two prompts (or a prompt and a cycle)
meet every pair of goroutines; three records are one run of a prompt with work
and result, and the start of another; one failure is any single loss anywhere, and
`session_closing` has two because a failed commit followed by a loss takes
different ways out. Deadlock is not checked: the behaviours end when the host
has nothing more to ask and the bounds are used up.

`session_turns` permutes the prompts (symmetry), which the specification never
tells apart; the run with liveness properties uses none.

**Fairness.** Each goroutine of the adapter is weakly fair: the Go scheduler runs
a goroutine that can go on. The host, claude and the failures owe nothing:
CancelAnswered holds although claude may never write another record. The
properties hold with `Expiring = {}`, so no progress rests on a timer
but the 5 s after a cancellation (AbortExpires), which the code starts itself.

**Mutants.** Next to an operator there may be a `Wrong...` form of it: a plausible
fault of that code, used by no action. `PROJECT.json` pairs each property with the
fault that breaks it.

The cache has runs of its own:

| Run | Instance | What it shows |
|---|---|---|
| `quota_reads` | 2 sessions of one account, one of which reports once; session and Fable windows, a reset at tick 3; 2 reads, 3 ticks, 1 cancellation; every outcome of a probe | sharing, restraint, freshness |
| `quota_scoped` | the same with all windows, no resets, 2 windows per answer | disagreement 4 |

Two readers are enough for one to refresh while the other joins, is cancelled or
comes after; one report meets every point of a refresh; three ticks let a backoff,
a cooldown and a reset begin and end. The second window of the haiku lane matters
only to what the two violated properties say, so `quota_reads` leaves it out.
One account means that TLC never drops an idle entry: that
eviction breaks none of these properties is what the theorems show. Deadlock is not checked: the clock and the reads are bounded.

The registry and the dialogs:

| Run | Instance | What it shows |
|---|---|---|
| `registry_races` | 2 restores, a close, a delete and a list of one stored id | one process per id, deletion, truthful lists, whom an answered close waited for |
| `registry_shutdown` | an ephemeral session/new, a restore of another id, a close and Agent.Close, at most 1 session, fair | the limit; every request ends, openings included; nothing runs after Agent.Close |
| `dialogs` | 2 control requests, a prompt, a cycle, 1 host call at a time | the hazards of section 1, in every order of the four closers |

Two restores are enough for one to hold the id, replace the live session or reuse
it while the other is refused, waits or comes after; a close and a delete meet
every step of both. With a limit of one, the reservation of one establishment and
the installed session of the other contend for it, and `Agent.Close` meets each
at every step. Two control requests let one be open while the other is admitted,
and exhaust the budget; the prompt and the cycle each meet the cancel, the
settlement, the exit and the close. `registry_races` permutes the restores and
`dialogs` the requests. Deadlock is not checked: the requests are used up.

The fairness of `FairSpec` in `AgentRegistry` is weak fairness of each request's
goroutine, each ladder and each opening hook: Go schedules them, and the store,
the process and the transport answer within their timeouts (a failure is an
answer). No host has to send a request, and a list or restore need not succeed. The
end of a request's context (`ContextEnds`) is a step of its own and not fair:
AwaitSession has no bound but that context, and nothing has to end it. So
RequestsEnd says that the opening runs: its gate is given back by the establishment,
and neither a failed establishment nor the hook of a failed opening runs the ladder
under the hold that ladder joins. A mutant of each of the two breaks it.

The durations keep the code's order (backoff up to an hour < six hours, haiku <
Fable); `DurationsAssumption` states what is assumed of them.

## 4. Where the code and its comments disagree

1. *An interrupt may reach a later prompt* (`session_stray`). A comment at
   `session.go:779-780` says that beginSettlement joins the interrupts so that
   none can reach a later foreground. A prompt cancelled before its dispatch
   answers without a settlement, and its interrupt goroutine may write after the
   next prompt did.
2. *A prompt cancelled before dispatch may leave a trace* (`session_trace`).
   `session_prompt.go:160-161` says that it creates neither submission nor
   turn. Work of claude's own that arrives while the prompt is installed has it
   accepted on the stream, and no terminal idle follows.
3. *A cycle's success may be published without its rows* (`session_read`).
   `session.go:576-579` says that a failed commit fences the incarnation and that
   the next operation opens a new one while the cycle holds the foreground. A
   read does not look at the cycle; it may relaunch and open the new incarnation
   before the cycle's idle, which that incarnation then accepts.
4. *A refusal of one window makes another lane due* (`quota_scoped`). The README of
   the adapter (lines 152-153) and the comment of Observe say that a scoped refusal
   invalidates only its window. A Fable answer carries the haiku windows too; when
   one of those was refused during the probe, applyProbe puts the Fable lane's
   next probe back to what it was, so the Fable window that was just read is
   probed again at the next read.
Known, and shown by no run: a report of one window of a quota lane moves the
lane's next probe although the other was invalidated (`quota_cache.go:286`, against
the comment at `quota.go:27-28`); a dialog asked for a prompt that is answered
before its dispatch is cancelled by nobody (`session_permissions.go:63`, excepted
in CancelledDialogsEnd as `Left`), the third consequence of the cause of 1 and 2.

## 5. The proofs

The theorems hold for every number of prompts, reads, generations, records,
cancellations and failures and every set of expiring joins. They assume what
`Session` declares of its constants: the bounds are naturals
(`BoundsAssumption`) and the names are distinct (`NamesAssumption`). Whether claude
starts work early does not matter either, except in the theorems that state
`EarlyWork = FALSE`, the value of every run: `OpensOnlyFenced`,
`ClosedStaysClosed`, `CyclesHaveOwners` and those of `EndingProofs`. With a claude
that runs something by itself before its incarnation opens they fail (only
`ClosedIsStopped` does not, and needs the assumption for the lemmas it rests on), and
TLC shows how: an early cycle of a restored session is settled before the opening, its
commit fails and drops the generation the opening then names; an early cycle on a
launch that is being stopped loses its pump when the join of it expires.

The theorems of `EndingProofs` also name the reads and joins they exclude, with
the values of the runs that check the same properties (`Reads = {}`,
`Expiring = {}`). Each is needed, and TLC shows why: a read does not look at the
cycle, relaunches while it still settles, and the end of the new runtime ends the
same cycle on the new incarnation (the window of disagreement 3); a ladder
whose join of the pump expired ends a cycle that this pump has published; and a
pump whose join of the turn expired leaves that turn to publish on the next
incarnation, after a foreign result settled it. `ClosedIsStopped` holds with any reads
and with an expiring join of the pump; it excludes expiring joins of the turn and of
the child. The first leaves a turn that gives up its runtime while the ladder, or the
pump, has stopped waiting for it, the second a child that outlives its kill.

- `TypeCorrect`: `Spec => []TypeOK`. Not inductive alone: the pump's
  positions have to say that it holds a foreground and its record (`PumpHolds`).
  The proof has a lemma per group of actions and, for each action, the groups of
  variables it may change.
- `GateIsExclusive`: `Spec => []GateExclusive`, inductive with the types. What a
  request's step does to the gate is said once per goroutine
  (`RequestFootprint`, `TurnFootprint`, `PumpFootprint`).
- `ForegroundIsOne`: `Spec => []OneForeground`, inductive.
- `InterruptsAreJoined`: `Spec => []InterruptJoined`. The invariant
  `InterruptsJoined` follows a foreground through its settlement: `settling` is set
  before the wait, so what was empty at the wait stays empty for it.
- `ProcessIsOne`: `Spec => []OneProcess`, from `GateExclusive` and `ProcessInv`:
  `runtime` and `retired` never both name a process (`OneGeneration`), whoever
  launches finds the session bound to nothing (`LaunchesAlone`), a finished pump
  has left the session (`GoneIsUnbound`), and every running process is the
  session's, the one a request is launching or stopping, or is left on a closing
  session that launches no more (`RunningIsKnown`). A step that starts nothing
  keeps all of it by one lemma (`WindingKept`); Launch, Bind, StopJoin and the
  steps of ensureRuntime have their own.
- `TurnsAreDurable`, `CancellationsAreHonoured`: `Spec => []DurableTurns` and
  `[]CancelHonoured`. `VerdictInv` says what is fixed for a turn at each step of
  its settlement: after a failed commit the stream is fenced until the gate is
  free, a verdict that may be published is in the store, and a cancellation outranks
  everything but the failed commit unless the ladder aborted the turn.
- `OpensOnlyFenced`: `Spec => OpensOnFencedStream`, an action property. A
  generation that is launched and not open yet is not the one the stream names
  (`FreshStream`), and outside a closing session the stream names the bound runtime
  (`OpeningInv`), so whoever has just bound one finds the stream fenced. That
  the pump cannot settle anything in between needs `SilentFirst`: a process that has
  nothing to run says nothing before its incarnation opens.
- `ClosedStaysClosed`: `Spec => ClosedIsFinal`. `ClosedInv` goes down the rungs of the
  ladder: past the pump's join there is no runtime, past the last one no cycle and
  no incarnation. What remains is a pump that outlived its join; it holds no
  foreground of the session any more and publishes on a fenced stream.
- `CyclesHaveOwners`, `CyclesAreOwed`: `Spec => []CycleHasOwner` and
  `[]CycleTerminalOwed`. An installed cycle is being settled by the pump that holds
  it or its runtime serves and no launch is giving that runtime up (`CycleInv`).
  A foreground is announced once, on the open incarnation or on none
  (`AnnouncedInv`), and the incarnation that announced a cycle has its idle, or the
  cycle is still the session's, or its runtime is ending it (`CycleOwed`);
  whoever takes it away publishes or fences first.
- `EndsOnce`: `Spec => []TerminalOnce`, without reads and expiring joins of the pump.
  The idle of a turn is published by its own goroutine at one place; that of a cycle
  by the pump that settles it, by the end of its runtime or by the ladder. A cycle is
  worked on by one pump, that of the bound runtime until it gives it up
  (`CycleAlone`, `CycleLeaves`); its idle is out only when it has left the session or
  is about to (`CycleEnded`); and the ladder comes to it when the pump it joined is
  gone or the stream is fenced (`CloseJoined`). Nor does the session get another
  runtime in between: only the Bind of a request gives it one (`RuntimeBinds`), and
  without reads that is a prompt whose turn is the foreground, so no cycle is.
- `EndsWhereAccepted`: `Spec => []TerminalWhereAccepted`, without reads and expiring
  joins of the turn. An accepted turn launches nothing (`Reached`, `TurnFresh`), and
  while it may publish, the stream is the one that announced it or fenced
  (`TurnAccepted`): the pump of its runtime waits for it before it retires the runtime
  (`TurnAwaits`, `TurnServed`, `FinishedOut`), so nobody opens another. `CycleAccepted`
  is the same for the pump of a cycle.
- `TurnsAreOwed`: `Spec => []TurnTerminalOwed`, from the same. `TurnOpen` says more than
  `TurnAccepted`: while a settled turn owes its idle, its incarnation is open
  (`EndWaitsForTurn`, `Fences`: whoever fences is the turn itself, the ladder, or a
  pump that joined it); `TurnJudged` and `BoundIsRuntime` say which of its
  ways out it is on, and `TurnTold` that on this one the idle is out.
- `ClosedIsStopped`: `Spec => []ClosedNoProcess`. Every running process has somebody
  who will see to it (`Supervised`): it is the bound runtime, or its stream ended by
  itself, or the ladder found it and is coming to signal it, or the request that
  launched it will bind or stop it. Where signalRuntime has returned, the process has
  exited (`Signalled`). The step that could break this is a turn that lost its
  transport and gives up the runtime without a signal (`TurnLostStep`): the pump is
  working on that runtime's end, or its process was signalled when the abort
  expired (`TurnEnding`, `TurnLost`). What is left of a closed session's ladder is
  `ClosedInv`.
- `SessionImplementsHost`: `Spec => HostSeesTurnByTurn`, the refinement of
  `HostStream`, without reads and expiring joins of the turn; joins of the pump and
  of the child may expire. `StepMaps` goes by what a step changes. A stream that
  opens was fenced, and everything announced was announced on earlier generations,
  because a generation that is not open yet is the youngest (`Youngest`,
  `OpensLater`). An idle is owed by the incarnation it reaches (`EndMaps`, from
  `TerminalWhereAccepted`). The hard step is an announcement (`AnnounceMaps`), which
  must find nothing owed: another turn is over, and then ended on the open
  incarnation or dropped (`TurnSeen`, `PromptPlaces`), and a cycle is gone, unless
  its runtime is still ending it. That case is `EndsAlone`: until the idle of the
  cycle is out, its runtime stays bound, or a ladder that gave up joining it has
  left the session none, and a turn that is installed meanwhile waits without
  having been reached by a frame (`Behind`).

For the quota cache, with any number of sessions, accounts, cells, events, reads
and ticks, from `DurationsAssumption` and `ActorsAssumption`:

- `QuotaTypeCorrect`, `RefreshIsOne`, `WaitersHaveRefresh`:
  `Spec => []TypeOK`, `[]OneRefreshPerAccount`, `[]WaitersAreServed`, all from
  `TypeOK /\ RefreshInv`. `running` alone does not give one refresh per account,
  because entries come and go: the invariant says that a refreshing reader is the one
  its cell names and that the table still has that cell for its key
  (`RefreshNamed`), that whoever a cell of the table names is refreshing it
  (`NameRefreshes`), that no two keys share a cell (`CellsApart`) and who holds a
  cell at all (`Held`, on which the choice of a fresh cell rests). Eviction keeps
  it because it spares entries with a refresh, which is the case the checked
  instance does not reach (`EntersKeeps`).
- `NoProbeWhileExhausted`: `Spec => ExhaustionSuppresses`, from `RefreshInv`. A probe
  starts only in BeginLane (`ProbeStartsDue`), of a lane that is due, and `Unblocked`
  forgets no exhaustion whose reset is still to come (`UnblockedParts`).
- `NewerReadingStays`: `Spec => NewerReadingWins`. Comparing versions says nothing of
  times by itself. The invariant `ReadingInv` says that nothing was reported or
  answered later than now (`Past`) and that, while a probe is under way, a window that
  still has the version it was sampled with holds no reading newer than the answer
  (`Sampling`). A report moves the version of what it writes (`ObservedParts`), and
  nobody else writes the cell of a refreshing reader (`OwnCell`).
- `FailuresBackOff`: `Spec /\ []ReadsEnd => BackoffHolds`. A lane that backs off still
  has its entry, its failures and its next probe (`BackedOffLanes`): a report and a
  passed reset move only lanes without failures (`BacksOffAs`), a refused
  credential postpones the other lane further (`AppliedParts`), and an idle entry is
  dropped six hours after its last use, when the backoff is over
  (`LookupBackoffs`). The last needs `ReadsEnd`: a refresh ends while the longest
  backoff, an hour, fits into what is left of the six hours. The specification lets a
  probe take any time, and there a failure of an entry that has been idle for longer
  is forgotten with it, backoff and all: TLC finds this with two accounts and seven
  ticks, and no such case under `ReadsEnd`, with idle entries still being dropped. It
  is an assumption on time that the code's own timeouts justify: a refresh is two
  probes at most, each given 12 seconds, then 10 to stop its process and 5 to stop its
  relay (`quota_probe.go:25,73,162`), whose output and server then end.

For the registry, with any number of requests of each kind, ids and sessions and
any limit, from `RegistryAssumption`, `ActorsAssumption` and `FreshAssumption`:

- `RegistryTypesCorrect`: `Spec => []TypeOK`. That `starting` is the number of
  slots (`Counted`) needs to know who has one (`Holding`) and that a builder that
  closes its own session is not a restore closing another (`Own`).
- `DeletedStaysGone`, `AnsweredCloseStopped`, `ProcessesWithinLimit`,
  `OneProcessForEachId`, `ListsAreTruthful`. The invariant `Safe` goes from what a
  request knows to what the processes do: a session being built is known to its
  builder alone (`Private`), so nobody can have begun its ladder; who is past a
  close has its ladder behind it (`Stopped`, `Done`); so what leaves the registry
  has no process, and every process belongs to a registered session or to a
  reservation (`Housed`), whose sum the limit bounds (`Within`). For one id, a
  restore holds it alone (`Locks`, with `Begun`: a restore names an id no
  session/new in flight has drawn), what it sampled stays the registered session
  until it stopped it (`Sampled`), and so it is alone when it launches
  (`Alone`). `Gone` follows a delete from its mark to its answer, `Listed` a list
  from its beginning.

For the dialogs, with any number of control requests, prompts, cycles and calls,
from `DialogsAssumption`:

- `DialogTypesCorrect`, `DialogsHaveForegrounds`, `CancelledDialogsCancelled`,
  `NobodyJoinsTheHost`. The invariant follows a foreground from its mark
  (`Refusing`: from then on nothing new is admitted for it or for anyone while it
  is installed) over the sweep to the join (`Emptied`: what was joined stays
  joined), and says what the pump still holds while it admits (`Admitted`,
  `Delivers`, `Begun`), that a process gone stays gone (`Lost`), and that while it
  lives the foreground the pump admits for is not settled (`Serving`). `Counted` and `CallsCounted` are the WaitGroup and the budget.

Each strengthening was checked by TLC on the instances above before it was proved.

Only model-checked: the liveness properties (`CloseCompletes`, `CancelAnswered`,
`LossAnswered`, `RequestsEnd`, `ClosedDrains`). Out of the prover's reach: liveness
under fairness and ENABLED, induction over data, and anything stated with a
RECURSIVE operator.

## 6. Plan

Done: `Session` with `HostStream`, `AgentRegistry`, `Dialogs`, `QuotaCache` and the
proofs of section 5. Left, in this order:

1. `Dialogs` over two generations (a pump that outlives its bounded join and
   registers under the next prompt), and the liveness of an admitted dialog.
2. `ControlClient` and the delivery of held records: pending replies, the abort's
   reply through the pump, the nested replay of finishDelivery.
3. Streamed against completed text and the usage of a response
   (`session_updates.go`), the inherited carrier, ProjectDirName.

## 7. Not modelled

The projection of records to updates (streamed text, tools, usage): sequential, and
touching none of the state above. Pending replies of the control client. Options,
launch arguments, request builders, command line and telemetry
(construction-time values); the quota probe's relay, beyond what it may answer, and
the credentials it reads (one-shot I/O); image decoding and metadata parsing (pure data); the
content of updates beyond what settles a foreground; wall-clock durations, which
are nondeterministic expiries. `acp-go-core` (publisher, mirror, process,
transport) is external and modelled from its use.
