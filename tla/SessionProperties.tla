-------------------------- MODULE SessionProperties --------------------------
(***************************************************************************)
(* What one session promises, over the state of module Session.  Each      *)
(* property names the hazard it is about; the README says which run checks *)
(* it and under which bounds.                                              *)
(***************************************************************************)
EXTENDS Session

-----------------------------------------------------------------------------
(* Types.                                                                  *)

RequestTypes ==
  /\ gate \in Ops \cup {Closer, None}
  /\ pc \in [Ops -> OpPc]
  /\ bound \in [Ops -> Gens \cup {NoGen}]
  /\ answer \in [Ops -> Answers]
  /\ turn \in Prompts \cup {None}
  /\ cycle \in Cycles \cup {None}
  /\ closing \in BOOLEAN /\ persisted \in BOOLEAN /\ poisoned \in BOOLEAN

ForegroundTypes ==
  /\ callbacks \subseteq [fg : Foregrounds, gen : Gens]
  /\ cancelled \in [Foregrounds -> BOOLEAN]
  /\ settling \in [Foregrounds -> BOOLEAN]
  /\ terminal \in [Foregrounds -> BOOLEAN]
  /\ ctxDone \in [Prompts -> BOOLEAN]
  /\ ended \in [Prompts -> {"running", "settled", "transport"}]
  /\ finished \in [Prompts -> BOOLEAN]

StreamTypes ==
  /\ stream \in Gens \cup {NoGen}
  /\ acceptedIn \in [Foregrounds -> Gens \cup {NoGen, NotYet}]
  /\ terminals \subseteq [fg : Foregrounds, inc : Gens, outcome : Answers,
                          durable : BOOLEAN]
  /\ dirty \subseteq Foregrounds

RuntimeTypes ==
  /\ runtime \in Gens \cup {NoGen}
  /\ retired \in Gens \cup {NoGen}
  /\ gens \in Gens
  /\ proc \in [Gens -> {"none", "running", "exited"}]
  /\ ending \in [Gens -> BOOLEAN]
  /\ done \in [Gens -> BOOLEAN]
  /\ pump \in [Gens -> PumpPc]
  /\ held \in [Gens -> Foregrounds \cup {None}]
  /\ out \in [Gens -> Seq(Frames)]
  /\ runs \in [Gens -> Seq(Runs)]

CloseTypes ==
  /\ closePc \in ClosePc
  /\ closeTurn \in Prompts \cup {None}
  /\ closeRt \in Gens \cup {NoGen}
  /\ closeJoins \in BOOLEAN

BoundTypes ==
  /\ cancels \in 0..MaxCancels
  /\ emitted \in 0..MaxEvents
  /\ cycles \in 0..MaxEvents
  /\ faults \in 0..MaxFaults
  /\ foreign \subseteq Prompts
  /\ strays \subseteq Foregrounds \X Prompts

\* Every variable has its type: above all, an interrupt is only ever started on a
\* bound runtime (cancel reads s.runtime under the lock it admits it under).
TypeOK ==
  /\ RequestTypes /\ ForegroundTypes /\ StreamTypes
  /\ RuntimeTypes /\ CloseTypes /\ BoundTypes

-----------------------------------------------------------------------------
(* Exclusion.                                                              *)

\* The requests between their admission and the release of the gate.
Holding == {o \in Ops : pc[o] \notin {"idle", "answered", "abandoned"}}

\* At most one request works on the session: whoever is past admission holds the
\* gate (acquireGate, HoldSessionGate and every deferred release).
GateExclusive == \A o \in Holding : gate = o

\* A prompt's turn and an agent-origin cycle are never both installed, whichever
\* of the prompt and the pump reaches the session lock first.
OneForeground == turn = None \/ cycle = None

\* Two claude processes never run on one session, so no dying process writes into
\* the transcript its successor continues: whatever mixture of lost streams,
\* failed launches, surviving children and closing replaced the first one.
OneProcess ==
  \A g, h \in Gens : proc[g] = "running" /\ proc[h] = "running" => g = h

-----------------------------------------------------------------------------
(* The lifecycle stream.                                                   *)

\* A foreground ends at most once on the stream, although the turn, the pump,
\* runtimeEnded and close may each be the one that publishes its idle.  Checked
\* and proved without reads (Reads = {}): a read looks at no open cycle and may
\* relaunch while one settles (accountUsage, README section 4, item 3), and the end of
\* the new runtime then ends that cycle a second time.
TerminalOnce == \A s, t \in terminals : s.fg = t.fg => s = t

\* A terminal idle reaches the incarnation that announced its foreground, never a
\* later one that a relaunch opened while the settlement was under way.  Checked
\* and proved without reads (Reads = {}), for the same reason: with one, the idle
\* of a cycle may reach the incarnation the read opened.
TerminalWhereAccepted == \A t \in terminals : t.inc = acceptedIn[t.fg]

\* A new incarnation opens only after the previous one was fenced: every path
\* that gives up a runtime fences its stream before the next launch opens one.
OpensOnFencedStream == [][stream' \in {stream, NoGen} \/ stream = NoGen]_vars

\* A turn's idle that does not say failed is published only when every row of the
\* turn is in the store; a lost transport or a failed commit fences first.
DurableTurns ==
  \A t \in terminals :
    t.fg \in Prompts /\ t.outcome # "failed" /\ ~Ephemeral => t.durable

\* The same for an agent-origin cycle: settleAgentCycle fences the incarnation
\* when the commit fails, so its idle may not be seen.
DurableCycles ==
  \A t \in terminals :
    t.fg \in Cycles /\ t.outcome # "failed" /\ ~Ephemeral => t.durable

\* An open incarnation owes a terminal idle to every cycle it announced until the
\* idle is out: the cycle is still the session's, or a pump is ending it.
CycleTerminalOwed ==
  stream # NoGen =>
    \A c \in Cycles : acceptedIn[c] = stream =>
      \/ \E t \in terminals : t.fg = c
      \/ cycle = c
      \/ \E g \in Gens : held[g] = c

\* An installed cycle always has somebody who will clear it: a pump that holds
\* it, the live pump of the bound runtime, or the close.  Without one every later
\* prompt is refused with backpressure for good.
CycleHasOwner ==
  cycle # None =>
    \/ closing
    \/ \E g \in Gens : held[g] = cycle
    \/ runtime # NoGen /\ pump[runtime] \notin {"none", "releasing", "done"}

\* The stream the host sees: a publication made while no incarnation was open
\* reached nobody.
Seen == [f \in Foregrounds |-> IF acceptedIn[f] \in Gens THEN acceptedIn[f] ELSE NoGen]

\* The prompts that leave without a verdict.
Dropped == {p \in Prompts : /\ pc[p] \in {"unwinding", "leaving", "answered"}
                            /\ ~terminal[p]}

Host == INSTANCE HostStream
  WITH Last <- MaxGen, open <- stream, announced <- Seen,
       ended <- {t.fg : t \in terminals}, dropped <- Dropped

\* The session implements the stream its host relies on: whatever the pump, a
\* settlement, a lost transport, a relaunch and the close do together, the host
\* sees foregrounds one after the other, each announced and ended on one open
\* incarnation, and incarnations one after the other (lifecycle.Publisher as
\* session.go and session_prompt.go drive it).  Checked and proved without reads
\* (Reads = {}); with one it fails like TerminalWhereAccepted.
HostSeesTurnByTurn == Host!HostSpec

-----------------------------------------------------------------------------
(* Answers and cancellation.                                               *)

\* A turn announced on an incarnation and settled by claude is ended there, with
\* the outcome the prompt answers: a process that exits while the turn commits does
\* not end the incarnation first (runtimeEnded joins t.finished), and a late
\* cancellation changes neither.
TurnTerminalOwed ==
  \A p \in Prompts :
    /\ pc[p] = "answered" /\ terminal[p] /\ ended[p] = "settled" /\ ~closing
    /\ acceptedIn[p] \in Gens /\ answer[p] # "failed"
    => \E t \in terminals : t.fg = p /\ t.outcome = answer[p]

\* A turn that took a cancellation before its verdict was fixed answers
\* cancelled; only a commit that failed outranks it.  A close cancels without
\* looking at the verdict.
CancelHonoured ==
  \A p \in Prompts :
    pc[p] = "answered" /\ terminal[p] /\ cancelled[p] /\ closeTurn # p =>
      \/ answer[p] = "cancelled"
      \/ answer[p] = "failed" /\ ended[p] = "settled"

\* No interrupt is still on its way for a foreground whose verdict is fixed:
\* beginSettlement joined it, so it cannot hit what runs next.
InterruptJoined == \A i \in callbacks : ~terminal[i.fg]

\* An interrupt only reaches the native run of the foreground it was sent for
\* ("none can reach a later foreground on this runtime", session.go:779-780).
InterruptsStayHome == strays = {}

\* A prompt cancelled before native dispatch leaves nothing on the lifecycle
\* stream (session_prompt.go:160-161): answered cancelled without a verdict, it
\* was never announced on an incarnation.
CancelledLeavesNoTrace ==
  \A p \in Prompts :
    pc[p] = "answered" /\ answer[p] = "cancelled" /\ ~terminal[p] =>
      acceptedIn[p] \notin Gens

-----------------------------------------------------------------------------
(* The shutdown ladder.                                                    *)

\* Nothing happens to a closed session: no late pump, launch or first commit
\* moves its stream, its foreground, its runtime or what the store holds of it.
ClosedIsFinal ==
  [][closePc = "closed" =>
       UNCHANGED <<stream, cycle, runtime, terminals, persisted>>]_vars

\* A closed session with no request in flight has no process, but for one whose
\* output could not be read: runtimeEnded unbinds that one without a signal.
ClosedNoProcess ==
  closePc = "closed" /\ Holding = {} =>
    \A g \in Gens : proc[g] = "running" => ending[g]

-----------------------------------------------------------------------------
(* Liveness.                                                               *)

\* A close that began ends, without any of its bounded joins expiring: callbacks,
\* the turn, the pump and the gate are all joined and none waits for the close.
CloseCompletes == closing ~> closePc = "closed"

\* A cancelled prompt is answered, although claude may never answer the
\* interrupt.
CancelAnswered == \A p \in Prompts : cancelled[p] ~> pc[p] = "answered"

\* A prompt whose process is gone is answered, wherever the exit found the pump.
LossAnswered ==
  \A p \in Prompts :
    (pc[p] = "running" /\ proc[bound[p]] = "exited") ~> pc[p] = "answered"
=============================================================================
