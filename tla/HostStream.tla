------------------------------ MODULE HostStream ------------------------------
(***************************************************************************)
(* The lifecycle stream of one session as its host may rely on it.  The    *)
(* stream is a succession of incarnations, later ones with higher numbers. *)
(* On the open one a foreground (a prompt's turn or a run claude starts on *)
(* its own) is announced, and ended before another is announced.  A fenced *)
(* incarnation says nothing more, and whatever it still owed is over with  *)
(* it; so is a turn that was dropped, its prompt answered without a        *)
(* verdict.  Nothing here names a process, a goroutine or a gate: module   *)
(* Session implements this specification, and SessionProperties holds the  *)
(* refinement mapping.                                                     *)
(***************************************************************************)
EXTENDS Naturals

CONSTANTS Foregrounds,  \* everything that may be announced
          Last          \* bound: incarnations

VARIABLES open,       \* the open incarnation, 0 when the stream is fenced
          announced,  \* incarnation a foreground was announced on, 0 before
          ended,      \* foregrounds whose terminal idle is out
          dropped     \* turns given up before a verdict

hostVars == <<open, announced, ended, dropped>>

\* What the open incarnation still owes a terminal idle.
Owed ==
  {f \in Foregrounds \ (ended \cup dropped) : open # 0 /\ announced[f] = open}

HostInit ==
  /\ open = 0
  /\ announced = [f \in Foregrounds |-> 0]
  /\ ended = {} /\ dropped = {}

Open(g) ==
  /\ open = 0
  /\ \A f \in Foregrounds : announced[f] < g
  /\ open' = g
  /\ UNCHANGED <<announced, ended>>

\* A dropped turn may still be announced, and then owes nothing.
Announce(f) ==
  /\ open # 0 /\ announced[f] = 0
  /\ Owed = {} \/ f \in dropped
  /\ announced' = [announced EXCEPT ![f] = open]
  /\ UNCHANGED <<open, ended>>

End(f) ==
  /\ f \in Owed
  /\ ended' = ended \cup {f}
  /\ UNCHANGED announced

StillOpen   == UNCHANGED open
FenceStream == open # 0 /\ open' = 0

HostNext ==
  /\ dropped \subseteq dropped'
  /\ \/ \E g \in 1..Last : Open(g)
     \/ \E f \in Foregrounds : Announce(f)
     \/ \E f \in Foregrounds : End(f) /\ (StillOpen \/ FenceStream)
     \/ FenceStream /\ UNCHANGED <<announced, ended>>
     \/ UNCHANGED <<open, announced, ended>>

HostSpec == HostInit /\ [][HostNext]_hostVars
=============================================================================
