------------------------ MODULE QuotaCacheProperties ------------------------
(***************************************************************************)
(* What the quota cache promises, over the state of module QuotaCache.     *)
(***************************************************************************)
EXTENDS QuotaCache

-----------------------------------------------------------------------------
(* Types.                                                                  *)

Windows == [ObservedAt : Nat, RefreshAt : Nat, ResetsAt : Nat]

Entries ==
  [windows : [Ids -> Windows], versions : [Ids -> Nat], dirty : [Ids -> BOOLEAN],
   invalidatedUntil : [Ids -> Nat], blocked : [Ids -> Nat],
   lanes : [Lanes -> [next : Nat, failures : Nat, err : BOOLEAN]],
   running : Sessions \cup {None}, lastUsed : Nat, notAuthenticated : BOOLEAN]

Results ==
  [kind : {"none", "error", "unavailable", "unauthenticated", "windows"},
   windows : [Ids -> Windows], exhausted : Ids \cup {None}, retry : Nat]

\* Every variable has its type: above all, a refresh never works on a third lane,
\* however many reasons it has to stop.
TypeOK ==
  /\ now \in Nat
  /\ table \in [Keys -> Slots \cup {Nil}]
  /\ heap \in [Slots -> Entries]
  /\ pc \in [Sessions -> {"idle", "waiting", "released", "lane", "probing", "applying"}]
  /\ ctxDone \in [Sessions -> BOOLEAN]
  /\ at \in [Sessions -> Slots \cup {Nil}]
  /\ due \in [Sessions -> [Lanes -> BOOLEAN]]
  /\ lane \in [Sessions -> 0..2]
  /\ sampled \in [Sessions -> [Ids -> Nat]]
  /\ result \in [Sessions -> Results]
  /\ access \in [Sessions -> BOOLEAN]
  /\ classified \in [Sessions -> BOOLEAN]
  /\ pending \in [Sessions -> [windows : [Ids -> Windows],
                               exhausted : Ids \cup {QuotaUnknown, None}]]
  /\ reads \in Nat /\ reports \in Nat /\ cancels \in Nat
  /\ failedUntil \in [Keys -> [Lanes -> Nat]]

-----------------------------------------------------------------------------
(* One refresh per account.                                                *)

\* The readers that work on a refresh.
Refreshing == {s \in Sessions : pc[s] \in {"lane", "probing", "applying"}}

\* At most one refresh per account is under way (Read's comment), whoever joins,
\* is cancelled, or looks up the key after its entry was dropped.
OneRefreshPerAccount ==
  \A r, s \in Refreshing : Account[r] = Account[s] => r = s

\* A reader that waits has a refresh to wait for, and the one of its entry: no close
\* of the channel is missed, so nobody waits for a refresh that is over.
WaitersAreServed ==
  \A s \in Sessions :
    pc[s] = "waiting" => \E r \in Refreshing : at[r] = at[s]

-----------------------------------------------------------------------------
(* Probes.                                                                 *)

ProbeStarts(s) == pc[s] = "lane" /\ pc'[s] = "probing"

\* A failed probe backs its lane off: no probe of that lane and account starts
\* before, whatever turns report or refuse, resets pass or the other lane learns
\* (src/README.md:149-150).
BackoffHolds ==
  [][\A s \in Sessions :
       ProbeStarts(s) => now >= failedUntil[Account[s]][lane[s]]]_vars

\* No probe is spent on a window that is known to be exhausted until its reset: the
\* second lane of a refresh heeds a refusal that arrived while the first was probed.
ExhaustionSuppresses ==
  [][\A s \in Sessions :
       ProbeStarts(s) => ~Exhausted(heap[at[s]], lane[s])]_vars

\* An answer of a probe never puts a reading over a newer one: what a turn reported
\* while the probe was under way stays (the versions applyProbe compares).
NewerReadingWins ==
  [][\A s \in Sessions, id \in Ids :
       pc[s] = "applying" /\ pc'[s] = "lane" /\ Reported(heap'[at[s]].windows[id]) =>
         heap'[at[s]].windows[id].ObservedAt >= heap[at[s]].windows[id].ObservedAt]_vars

\* A scoped refusal invalidates only its window (quota_cache.go:262, src/README.md:152):
\* a probe that just read its own lane's windows, none of them refused meanwhile,
\* leaves its lane in cooldown.
RefusalInvalidatesOnlyItsWindow ==
  [][\A s \in Sessions :
       LET l == lane[s]
           own == {id \in Ids : LaneOf(id) = l}
       IN pc[s] = "applying" /\ pc'[s] = "lane" /\ result[s].kind = "windows"
          /\ own \subseteq Probed(l, result[s])
          /\ (\A id \in own : /\ Unchanged(heap[at[s]], id, sampled[s])
                              /\ result[s].windows[id].ResetsAt = 0)
          => After(heap'[at[s]].lanes[l].next, now)]_vars
=============================================================================
