-------------------------- MODULE DialogsProperties --------------------------
(***************************************************************************)
(* What a session promises about the dialogs of its native callbacks.      *)
(***************************************************************************)
EXTENDS Dialogs

\* Every variable keeps its type; the WaitGroup counts the open dialogs and
\* the interrupts under way, the budget the dialogs inside a call of the host.
TypeOK ==
  /\ turn \in Prompts \cup {None} /\ cycle \in Cycles \cup {None}
  /\ {cancelled, settling, ended, begun} \subseteq SUBSET Foregrounds
  /\ settled \in [Prompts -> {"no", "result", "lost"}]
  /\ prompt \in [Prompts -> {"idle", "installed", "sent", "sweep", "join",
                             "commit", "claim", "clear", "over"}]
  /\ {bound, ending, alive, closing, sweep} \subseteq BOOLEAN
  /\ pump \in {"read", "open", "opened", "check", "deny", "register", "deliver", "sweep",
               "join", "clear", "end-sweep", "end-join", "end-wait", "done"}
  /\ work \in [request : Requests \cup {None}, fg : Foregrounds \cup {None},
               turn : Prompts \cup {None}]
  /\ close \in [at : {"open", "sweep", "join", "wait", "stop", "final", "closed"},
                turn : Prompts \cup {None}]
  /\ dialogs \subseteq Requests /\ dead \subseteq Requests
  /\ interrupts \in Nat /\ callbacks = Cardinality(dialogs) + interrupts
  /\ pc \in [Requests -> {"unsent", "call", "wait", "reply", "unregister", "done"}]
  /\ owner \in [Requests -> Foregrounds \cup {None}]
  /\ calls = Cardinality({r \in Requests : pc[r] = "wait"})

\* No admitted dialog is open once the terminal idle of its foreground is out,
\* so its reply reaches no later foreground of the process (beginSettlement,
\* runtimeEnded and close against registerDialog).  Once the process is gone a
\* request held back by finishDelivery may still be admitted; runtimeEnded, which
\* is next on the pump, cancels it.
DialogHasForeground == alive => \A r \in dialogs : owner[r] \notin ended

\* A prompt that was answered before its dispatch.
Left(f) == f \in Prompts /\ prompt[f] \in {"clear", "over"} /\ f \notin ended

\* A dialog whose foreground is cancelled is cancelled too, however the cancel,
\* its registration and the settlement interleave; only a prompt that left
\* before its dispatch has nobody who does it (cancel against registerDialog).
CancelledDialogsEnd ==
  alive /\ ~sweep /\ close.at # "sweep" =>
    \A r \in dialogs : owner[r] \in cancelled => r \in dead \/ Left(owner[r])

\* Who joins the callbacks has cancelled every dialog that is open, so no
\* settlement, loss of the process or close ever waits for an answer of the
\* host (callbacks.Wait in beginSettlement, runtimeEnded and close).
Joining ==
  \/ \E p \in Prompts : prompt[p] = "join"
  \/ pump \in {"join", "end-join"}
  \/ close.at = "join"

JoinedAreCancelled == Joining => dialogs \subseteq dead
=============================================================================
