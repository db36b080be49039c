----------------------------- MODULE QuotaCache -----------------------------
(***************************************************************************)
(* The quota cache the sessions of one agent share: one entry per          *)
(* effective credential, at most one refresh of an entry at a time, whose  *)
(* two lanes (haiku and fable) have a cadence of their own, and the turn   *)
(* events that report or refuse windows while a probe is in flight         *)
(* (internal/claude/quota_cache.go, with the windows of quota.go and       *)
(* quota_probe.go and the callers in session_account_usage.go).            *)
(*                                                                         *)
(* A section under the cache's mutex is one action.  An entry is a heap    *)
(* cell: a reader keeps the one it looked up, whatever the table says      *)
(* later.  Time counts ticks; the durations keep their order, not their    *)
(* ratio.  0 is the zero time and the clock starts at 1.  Percentages,     *)
(* HTTP and the scratch process of a probe are left out: a probe is one    *)
(* answer the provider gives at some time before the reader applies it.    *)
(*                                                                         *)
(* An operator Wrong... is a faulty variant of the operator after it: no   *)
(* action uses it, it is there to show that a property notices the fault.  *)
(***************************************************************************)
EXTENDS Naturals, FiniteSets

CONSTANTS
  Sessions,      \* sessions of the agent: each reads, each has a turn that reports
  Account,       \* the credential key of each session
  Reporting,     \* sessions whose turns report quota events
  None,          \* nil
  Slots,         \* heap cells for entries
  QuotaHaikuTTL, QuotaFableTTL,
  LongTTL,       \* six hours: unavailable models, and idle entries
  Backoff,       \* the three backoffs of failed probes
  Resets,        \* the reset times windows are reported with, 0 for none
  Retries,       \* the Retry-After delays the provider asks for, 0 for none
  Unreported,    \* windows nobody reports
  Outcomes,      \* how probes end
  MaxTime,       \* bound: ticks of the clock
  MaxReads,      \* bound: reads
  MaxReports,    \* bound: quota events of turns
  MaxSeen,       \* bound: windows in one quota event or probe answer
  MaxCancels     \* bound: cancelled reads

QuotaSession == "session"
QuotaWeekly  == "weekly_all"
QuotaFable   == "weekly_scoped/Fable"
QuotaUnknown == "unknown"

Ids   == {QuotaSession, QuotaWeekly, QuotaFable} \ Unreported
Lanes == {0, 1}
Keys  == {Account[s] : s \in Sessions}
Nil   == 0                                   \* no entry
Times == 1..MaxTime

LaneOf(id)   == IF id = QuotaFable THEN 1 ELSE 0
LaneTTL(l)   == IF l = 1 THEN QuotaFableTTL ELSE QuotaHaikuTTL
quotaTTL(id) == LaneTTL(LaneOf(id))

ASSUME DurationsAssumption ==
  /\ {QuotaHaikuTTL, QuotaFableTTL, LongTTL} \subseteq Nat \ {0}
  /\ Backoff \in [1..3 -> Nat \ {0}]
  /\ \A i \in 1..3 : Backoff[i] < LongTTL
  /\ Resets \subseteq Nat /\ Retries \subseteq Nat

ASSUME ActorsAssumption ==
  /\ Reporting \subseteq Sessions
  /\ Outcomes \subseteq {"error", "unavailable", "unauthenticated", "windows"}
  /\ Account \in [Sessions -> Keys]
  /\ None \notin Sessions \cup Ids \cup {QuotaUnknown}
  /\ Nil \notin Slots
  /\ {MaxTime, MaxReads, MaxReports, MaxSeen, MaxCancels} \subseteq Nat

VARIABLES
  now,        \* the wall clock
  table,      \* c.entries: the heap cell of each key
  heap,       \* the entries
  (* the goroutine of each read *)
  pc,
  ctxDone,    \* its context has ended
  at,         \* the entry it looked up
  due,        \* lanes it found due
  lane,       \* the lane it works on
  sampled,    \* the versions it read before the probe
  result,     \* what the provider answered
  (* the event loop of each session *)
  access,     \* rt.quotaAccess is set
  classified, \* rt.quotaClassified
  pending,    \* a quota event on its way to Observe
  (* bounds and histories *)
  reads, reports, cancels,
  failedUntil \* per key and lane: the backoff of the last failed probe

cacheVars  == <<table, heap>>
readVars   == <<pc, at, due, lane, sampled, result>>
turnVars   == <<access, classified, pending>>
boundVars  == <<reads, reports, cancels>>
vars == <<now, cacheVars, readVars, ctxDone, turnVars, boundVars, failedUntil>>

-----------------------------------------------------------------------------
(* Windows and entries.                                                    *)

NoWindow == [ObservedAt |-> 0, RefreshAt |-> 0, ResetsAt |-> 0]
Reported(w) == w.ObservedAt # 0
After(t, u) == t > u
Later(t, u) == IF After(u, t) THEN u ELSE t
Sooner(t, u) == IF After(t, u) THEN u ELSE t

\* A window read at time t: it is refreshed after its TTL, or at its reset.
quotaWindow(id, t, reset) ==
  [ObservedAt |-> t, ResetsAt |-> reset,
   RefreshAt |-> IF reset = 0 THEN t + quotaTTL(id)
                 ELSE Sooner(t + quotaTTL(id), reset)]

\* The windows of one answer: those of ids, all with the same reset, so the order
\* in which the code's map iteration takes the haiku ones does not show.
WindowsOf(ids, t, reset) ==
  [id \in Ids |-> IF id \in ids THEN quotaWindow(id, t, reset) ELSE NoWindow]

\* What one record or answer may report.
Readings == {ids \in SUBSET Ids : Cardinality(ids) <= MaxSeen}

NewEntry ==
  [windows          |-> [id \in Ids |-> NoWindow],
   versions         |-> [id \in Ids |-> 0],
   dirty            |-> [id \in Ids |-> FALSE],
   invalidatedUntil |-> [id \in Ids |-> 0],
   blocked          |-> [id \in Ids |-> 0],
   lanes            |-> [l \in Lanes |-> [next |-> 0, failures |-> 0, err |-> FALSE]],
   running          |-> None,
   lastUsed         |-> 0,
   notAuthenticated |-> FALSE]

-----------------------------------------------------------------------------
(* The table.  Looking a key up creates its entry, and drops those nobody   *)
(* used for six hours unless a refresh of theirs is running.                *)

Abandoned(k) ==
  /\ table[k] # Nil
  /\ heap[table[k]].running = None
  /\ now - heap[table[k]].lastUsed > LongTTL

InUse == {table[k] : k \in Keys} \cup {at[s] : s \in Sessions}

\* Entering key k by its cell e: the cell the table names, or a fresh one.
Enters(k, e) ==
  \/ table[k] = e /\ UNCHANGED table
  \/ /\ table[k] = Nil /\ Slots \ InUse # {}
     /\ e = CHOOSE f \in Slots \ InUse : TRUE
     /\ table' = [j \in Keys |-> IF j = k THEN e
                                 ELSE IF Abandoned(j) THEN Nil ELSE table[j]]

Entry(k) ==
  [IF table[k] = Nil THEN NewEntry ELSE heap[table[k]] EXCEPT !.lastUsed = now]

\* due: a reported reset that has passed ends the exhaustion and frees the lane.
Unblocked(e) ==
  LET passed == {id \in Ids : e.blocked[id] # 0 /\ now >= e.blocked[id]}
  IN [e EXCEPT
        !.blocked = [id \in Ids |-> IF id \in passed THEN 0 ELSE e.blocked[id]],
        !.lanes = [l \in Lanes |->
                     [e.lanes[l] EXCEPT !.next =
                        IF e.lanes[l].failures = 0 /\ \E id \in passed : LaneOf(id) = l
                          THEN 0 ELSE e.lanes[l].next]]]

Exhausted(e, l) ==
  \E id \in Ids : (id # QuotaFable \/ l = 1) /\ After(e.blocked[id], now)

IsDue(e, l) == ~Exhausted(e, l) /\ now >= e.lanes[l].next

DueLanes(e) == [l \in Lanes |-> IsDue(e, l)]

WrongRunning(e) == \E s \in Sessions : e.running = s /\ ~ctxDone[s]

\* A refresh of the entry is under way.
Running(e) == e.running # None

-----------------------------------------------------------------------------
(* applyProbe.                                                             *)

WithLane(e, l, state) ==
  [e EXCEPT !.lanes = [m \in Lanes |-> IF m = l THEN state ELSE e.lanes[m]]]

\* A failed probe: 5 minutes, 15 minutes, then an hour, or what the provider asks.
BackedOff(e, l, res) ==
  LET failures == e.lanes[l].failures + 1
      backoff  == Backoff[Sooner(failures, 3)]
  IN WithLane(e, l, [next |-> Later(now + backoff, res.retry),
                     failures |-> failures, err |-> TRUE])

WrongUnchanged(e, id, versions) == TRUE

\* Nothing was observed of the window since the probe began.
Unchanged(e, id, versions) == e.versions[id] = versions[id]

\* The windows of an answer the lane looks at: haiku's never carries fable's.
Probed(l, res) ==
  {id \in Ids : Reported(res.windows[id]) /\ (l = 1 \/ id # QuotaFable)}

\* The lane's next probe after one reported window, windows in header order.
NextAfter(next, id, e, l, res, versions, nextBefore) ==
  LET w == res.windows[id]
  IN IF id \notin Probed(l, res) THEN next
     ELSE IF ~Unchanged(e, id, versions)
       THEN IF e.dirty[id] THEN nextBefore ELSE next
     ELSE IF LaneOf(id) = l /\ After(next, w.RefreshAt) /\ After(w.RefreshAt, now)
       THEN w.RefreshAt
     ELSE next

Refreshed(e, l, res, versions) ==
  LET refused == res.kind = "unauthenticated"
      ttl     == IF res.kind = "windows" THEN LaneTTL(l) ELSE LongTTL
      start   == Later(now + ttl, res.retry)
      N(next, id) == NextAfter(next, id, e, l, res, versions, e.lanes[l].next)
      next    == Later(N(N(N(start, QuotaSession), QuotaWeekly), QuotaFable), res.retry)
      stored  == {id \in Probed(l, res) : Unchanged(e, id, versions)}
  IN [e EXCEPT
        !.notAuthenticated = refused,
        !.windows = [id \in Ids |-> IF id \in stored THEN res.windows[id]
                                    ELSE IF refused THEN NoWindow ELSE @[id]],
        !.dirty   = [id \in Ids |-> @[id] /\ id \notin stored],
        !.blocked = [id \in Ids |->
                       IF id \notin stored THEN @[id]
                       ELSE IF res.exhausted = id /\ After(res.windows[id].ResetsAt, now)
                         THEN res.windows[id].ResetsAt
                       ELSE 0],
        !.lanes = [m \in Lanes |->
                     IF m = l THEN [next |-> next, failures |-> 0, err |-> FALSE]
                     ELSE IF refused THEN [e.lanes[m] EXCEPT !.next = start, !.err = FALSE]
                     ELSE e.lanes[m]]]

applyProbe(e, l, res, versions) ==
  IF res.kind = "error" THEN BackedOff(e, l, res)
                        ELSE Refreshed(e, l, res, versions)

-----------------------------------------------------------------------------
(* Observe.                                                                *)

WrongSettled(e, l) == TRUE

\* The lane is not backing off: only then may a turn's event move its next probe.
Settled(e, l) == e.lanes[l].failures = 0

observed(e, windows, exhausted) ==
  LET seen    == {id \in Ids : Reported(windows[id])}
      refused == IF exhausted = None THEN {}
                 ELSE IF exhausted = QuotaUnknown THEN Ids ELSE {exhausted}
      invalid == {id \in refused \ seen : ~e.dirty[id]}
      freed   == {id \in invalid : /\ Settled(e, LaneOf(id))
                                   /\ now >= e.invalidatedUntil[id]}
      In(ids, l) == {id \in ids : LaneOf(id) = l}
  IN [e EXCEPT
        !.notAuthenticated = @ /\ seen = {},
        !.windows  = [id \in Ids |->
                        IF id \in seen THEN windows[id]
                        ELSE IF id \in invalid /\ Reported(@[id])
                          THEN [e.windows[id] EXCEPT !.RefreshAt = now]
                        ELSE @[id]],
        !.versions = [id \in Ids |-> IF id \in seen \cup invalid THEN @[id] + 1 ELSE @[id]],
        !.dirty    = [id \in Ids |-> IF id \in seen THEN FALSE ELSE @[id] \/ id \in invalid],
        !.blocked  = [id \in Ids |->
                        IF id \notin seen THEN @[id]
                        ELSE IF id \in refused /\ After(windows[id].ResetsAt, now)
                          THEN windows[id].ResetsAt
                        ELSE 0],
        !.invalidatedUntil =
                     [id \in Ids |-> IF id \in freed THEN now + quotaTTL(id) ELSE @[id]],
        !.lanes    = [l \in Lanes |->
                        [e.lanes[l] EXCEPT !.next =
                           IF In(freed, l) # {} THEN 0
                           ELSE IF In(seen, l) # {} /\ Settled(e, l)
                             THEN windows[CHOOSE id \in In(seen, l) : TRUE].RefreshAt
                           ELSE e.lanes[l].next]]]

-----------------------------------------------------------------------------
(* The specification.                                                      *)

NoReport  == [windows |-> [id \in Ids |-> NoWindow], exhausted |-> None]
NoResult  == [kind |-> "none", windows |-> [id \in Ids |-> NoWindow],
              exhausted |-> None, retry |-> 0]
NoVersion == [id \in Ids |-> 0]

Init ==
  /\ now = 1
  /\ table = [k \in Keys |-> Nil]
  /\ heap = [e \in Slots |-> NewEntry]
  /\ pc = [s \in Sessions |-> "idle"]
  /\ ctxDone = [s \in Sessions |-> FALSE]
  /\ at = [s \in Sessions |-> Nil]
  /\ due = [s \in Sessions |-> [l \in Lanes |-> FALSE]]
  /\ lane = [s \in Sessions |-> 0]
  /\ sampled = [s \in Sessions |-> NoVersion]
  /\ result = [s \in Sessions |-> NoResult]
  /\ access = [s \in Sessions |-> FALSE]
  /\ classified = [s \in Sessions |-> FALSE]
  /\ pending = [s \in Sessions |-> NoReport]
  /\ reads = 0 /\ reports = 0 /\ cancels = 0
  /\ failedUntil = [k \in Keys |-> [l \in Lanes |-> 0]]

\* The read returns and forgets what it held; the session may read again.
Forget(s) ==
  /\ ctxDone' = [ctxDone EXCEPT ![s] = FALSE]
  /\ at' = [at EXCEPT ![s] = Nil]
  /\ due' = [due EXCEPT ![s] = [l \in Lanes |-> FALSE]]
  /\ lane' = [lane EXCEPT ![s] = 0]

\* Read finds a refresh running and waits for it, ...
Join(s, e) ==
  /\ Running(Entry(Account[s]))
  /\ heap' = [heap EXCEPT ![e] = Entry(Account[s])]
  /\ pc' = [pc EXCEPT ![s] = "waiting"]
  /\ at' = [at EXCEPT ![s] = e]
  /\ UNCHANGED <<due, lane, sampled, result>>

\* ... has nothing to refresh and answers what is cached, ...
Cached(s, e) ==
  LET entry == Unblocked(Entry(Account[s]))
  IN /\ ~Running(Entry(Account[s]))
     /\ \A l \in Lanes : ~IsDue(entry, l)
     /\ heap' = [heap EXCEPT ![e] = entry]
     /\ UNCHANGED readVars

\* ... or starts a refresh of the lanes that are due.
Refresh(s, e) ==
  LET entry == Unblocked(Entry(Account[s]))
  IN /\ ~Running(Entry(Account[s]))
     /\ \E l \in Lanes : IsDue(entry, l)
     /\ heap' = [heap EXCEPT ![e] = [entry EXCEPT !.running = s]]
     /\ pc' = [pc EXCEPT ![s] = "lane"]
     /\ at' = [at EXCEPT ![s] = e]
     /\ due' = [due EXCEPT ![s] = DueLanes(entry)]
     /\ lane' = [lane EXCEPT ![s] = 0]
     /\ UNCHANGED <<sampled, result>>

\* setupTokenUsage: the session's turns report from now on, and Read begins.
Read(s) ==
  /\ pc[s] = "idle" /\ reads < MaxReads /\ reads' = reads + 1
  /\ \E e \in Slots :
       /\ Enters(Account[s], e)
       /\ Join(s, e) \/ Cached(s, e) \/ Refresh(s, e)
  /\ access' = [access EXCEPT ![s] = TRUE]
  /\ UNCHANGED <<now, ctxDone, classified, pending, reports, cancels, failedUntil>>

WrongStillDue(s, entry) == due[s][lane[s]]

\* The lane is worth a probe: it was due when the refresh began and still is.
StillDue(s, entry) == due[s][lane[s]] /\ IsDue(entry, lane[s])

\* The next lane of the refresh: sample the versions and probe, or pass it over.
BeginLane(s) ==
  LET e == at[s]
      entry == IF due[s][lane[s]] THEN Unblocked(heap[e]) ELSE heap[e]
  IN /\ pc[s] = "lane" /\ lane[s] \in Lanes
     /\ heap' = [heap EXCEPT ![e] = entry]
     /\ IF StillDue(s, entry)
          THEN /\ pc' = [pc EXCEPT ![s] = "probing"]
               /\ sampled' = [sampled EXCEPT ![s] = entry.versions]
               /\ UNCHANGED lane
          ELSE /\ lane' = [lane EXCEPT ![s] = @ + 1]
               /\ UNCHANGED <<pc, sampled>>
  /\ UNCHANGED <<now, table, at, due, result, ctxDone, turnVars, boundVars,
                 failedUntil>>

\* The provider's answer, or none: a probe ends by its own timeout at the latest.
\* An exhausted window the answer does not report says nothing to applyProbe.
Answers(l) ==
  LET ids   == IF l = 1 THEN Ids ELSE Ids \ {QuotaFable}
      until == {IF d = 0 THEN 0 ELSE now + d : d \in Retries}
  IN [kind : Outcomes \ {"windows"}, windows : {NoResult.windows},
      exhausted : {None}, retry : until]
     \cup
     UNION {[kind : Outcomes \cap {"windows"}, exhausted : seen \cup {None}, retry : until,
             windows : {WindowsOf(seen, now, reset) : reset \in Resets}] :
              seen \in (Readings \cap SUBSET ids) \ {{}}}

Answer(s) ==
  /\ pc[s] = "probing"
  /\ \E res \in Answers(lane[s]) : result' = [result EXCEPT ![s] = res]
  /\ pc' = [pc EXCEPT ![s] = "applying"]
  /\ UNCHANGED <<now, cacheVars, at, due, lane, sampled, ctxDone, turnVars, boundVars,
                 failedUntil>>

WrongNextLane(l, last) == IF last THEN l + 2 ELSE l + 1

\* The lane after lane l, 2 when the refresh is over.
NextLane(l, last) == IF last THEN 2 ELSE l + 1

\* The reader applies the answer; a cancelled read or a refused credential ends
\* the refresh, also when the probe's own clean-up failed and made it an error.
Apply(s) ==
  LET e == at[s]
      l == lane[s]
      entry == applyProbe(heap[e], l, result[s], sampled[s])
      over  == ctxDone[s] \/ result[s].kind = "unauthenticated"
  IN /\ pc[s] = "applying"
     /\ heap' = [heap EXCEPT ![e] = entry]
     /\ \E last \in {over, over \/ result[s].kind = "error"} :
          lane' = [lane EXCEPT ![s] = NextLane(l, last)]
     /\ failedUntil' =
          [failedUntil EXCEPT ![Account[s]][l] =
             IF result[s].kind = "error"
               THEN now + Backoff[Sooner(entry.lanes[l].failures, 3)] ELSE 0]
     /\ pc' = [pc EXCEPT ![s] = "lane"]
     /\ sampled' = [sampled EXCEPT ![s] = NoVersion]
     /\ result' = [result EXCEPT ![s] = NoResult]
     /\ UNCHANGED <<now, table, at, due, ctxDone, turnVars, boundVars>>

WrongReleased(s) == {}

\* close(e.running) lets go of every reader that waits for this refresh.
Released(s) == {r \in Sessions : pc[r] = "waiting" /\ at[r] = at[s]}

\* The refresh is over and its reader answers what the entry holds now.
Finish(s) ==
  /\ pc[s] = "lane" /\ lane[s] = 2
  /\ heap' = [heap EXCEPT ![at[s]].running = None]
  /\ pc' = [r \in Sessions |-> IF r = s THEN "idle"
                               ELSE IF r \in Released(s) THEN "released" ELSE pc[r]]
  /\ Forget(s)
  /\ UNCHANGED <<now, table, sampled, result, turnVars, boundVars, failedUntil>>

\* A reader that waited answers what its entry holds, or that its context ended.
Leave(s) ==
  /\ pc[s] = "released" \/ (pc[s] = "waiting" /\ ctxDone[s])
  /\ pc' = [pc EXCEPT ![s] = "idle"]
  /\ Forget(s)
  /\ UNCHANGED <<now, cacheVars, sampled, result, turnVars, boundVars,
                 failedUntil>>

Cancel(s) ==
  /\ pc[s] # "idle" /\ ~ctxDone[s]
  /\ cancels < MaxCancels /\ cancels' = cancels + 1
  /\ ctxDone' = [ctxDone EXCEPT ![s] = TRUE]
  /\ UNCHANGED <<now, cacheVars, readVars, turnVars, reads, reports, failedUntil>>

\* observeQuota: a rate limit event names windows, the exhausted one, or both; one
\* that names the exhausted window classifies the error that follows it.
Report(s) ==
  /\ s \in Reporting /\ access[s] /\ pending[s] = NoReport
  /\ reports < MaxReports /\ reports' = reports + 1
  /\ \E seen \in Readings, reset \in Resets, exhausted \in Ids \cup {QuotaUnknown, None} :
       /\ seen # {} \/ exhausted # None
       /\ pending' = [pending EXCEPT ![s] = [windows |-> WindowsOf(seen, now, reset),
                                             exhausted |-> exhausted]]
       /\ classified' = [classified EXCEPT ![s] = @ \/ exhausted # None]
  /\ UNCHANGED <<now, cacheVars, readVars, ctxDone, access, reads, cancels,
                 failedUntil>>

\* A record that failed on a limit nobody named, the turn's result maybe.
LimitError(s) ==
  /\ s \in Reporting /\ access[s] /\ pending[s] = NoReport
  /\ reports < MaxReports /\ reports' = reports + 1
  /\ pending' = [pending EXCEPT ![s].exhausted =
                   IF classified[s] THEN None ELSE QuotaUnknown]
  /\ classified' \in {classified, [classified EXCEPT ![s] = FALSE]}
  /\ UNCHANGED <<now, cacheVars, readVars, ctxDone, access, reads, cancels,
                 failedUntil>>

\* Observe.
Observe(s) ==
  /\ pending[s] # NoReport
  /\ \E e \in Slots :
       /\ Enters(Account[s], e)
       /\ heap' = [heap EXCEPT ![e] = observed(Entry(Account[s]), pending[s].windows,
                                               pending[s].exhausted)]
  /\ pending' = [pending EXCEPT ![s] = NoReport]
  /\ UNCHANGED <<now, readVars, ctxDone, access, classified, boundVars, failedUntil>>

Tick ==
  /\ now < MaxTime /\ now' = now + 1
  /\ UNCHANGED <<cacheVars, readVars, ctxDone, turnVars, boundVars, failedUntil>>

Next ==
  \/ Tick
  \/ \E s \in Sessions :
       \/ Read(s) \/ BeginLane(s) \/ Answer(s) \/ Apply(s) \/ Finish(s) \/ Leave(s)
       \/ Cancel(s) \/ Report(s) \/ LimitError(s) \/ Observe(s)

Spec == Init /\ [][Next]_vars
=============================================================================
