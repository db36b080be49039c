----------------------------- MODULE QuotaProofs -----------------------------
(***************************************************************************)
(* The types of the quota cache; that one refresh per account is under way *)
(* and every waiting reader has one to wait for; that no probe is spent    *)
(* while its windows are exhausted or its lane backs off, and no answer    *)
(* covers a newer reading: for any number of sessions, accounts, events,   *)
(* reads and ticks.                                                        *)
(***************************************************************************)
EXTENDS QuotaCacheProperties, TLAPS

-----------------------------------------------------------------------------
(* Who refreshes which entry.                                              *)

\* A reader holds a cell while it is not idle, and works on one of two lanes.
Held ==
  \A s \in Sessions :
    /\ at[s] = Nil <=> pc[s] = "idle"
    /\ pc[s] \in {"probing", "applying"} => lane[s] \in Lanes

\* No two keys share a cell.
CellsApart ==
  \A j, k \in Keys : table[j] = table[k] /\ table[j] # Nil => j = k

\* A refreshing reader is the one its entry names, and the table still has it.
RefreshNamed ==
  \A s \in Refreshing : heap[at[s]].running = s /\ table[Account[s]] = at[s]

\* Whoever an entry of the table names is refreshing it.
NameRefreshes ==
  \A k \in Keys :
    table[k] # Nil /\ heap[table[k]].running # None =>
      /\ heap[table[k]].running \in Refreshing
      /\ at[heap[table[k]].running] = table[k]

RefreshInv ==
  Held /\ CellsApart /\ RefreshNamed /\ NameRefreshes /\ WaitersAreServed

-----------------------------------------------------------------------------
(* The parts of an entry.                                                  *)

LEMMA DurationTypes ==
  /\ \A l \in Lanes : LaneTTL(l) \in Nat
  /\ \A id \in Ids : LaneOf(id) \in Lanes /\ quotaTTL(id) \in Nat
  /\ LongTTL \in Nat
  /\ \A n \in Nat : Backoff[Sooner(n + 1, 3)] \in Nat
BY DurationsAssumption
   DEF LaneTTL, LaneOf, Lanes, quotaTTL, Sooner, After

LEMMA TimesTyped ==
  ASSUME NEW t \in Nat, NEW u \in Nat
  PROVE  Later(t, u) \in Nat /\ Sooner(t, u) \in Nat
BY DEF Later, Sooner, After

LEMMA WindowsOfTyped ==
  ASSUME NEW ids, NEW t \in Nat, NEW reset \in Nat
  PROVE  WindowsOf(ids, t, reset) \in [Ids -> Windows]
<1> SUFFICES ASSUME NEW id \in Ids
             PROVE  quotaWindow(id, t, reset) \in Windows /\ NoWindow \in Windows
  BY DEF WindowsOf
<1>1. t + quotaTTL(id) \in Nat
  BY DurationTypes
<1>2. Sooner(t + quotaTTL(id), reset) \in Nat
  BY <1>1, TimesTyped
<1> QED
  BY <1>1, <1>2 DEF quotaWindow, NoWindow, Windows

LEMMA NewEntryTyped == NewEntry \in Entries /\ NewEntry.running = None
BY DEF NewEntry, Entries, NoWindow, Windows

\* due changes neither the types of an entry nor who refreshes it.
LEMMA UnblockedTyped ==
  ASSUME NEW e \in Entries, now \in Nat
  PROVE  Unblocked(e) \in Entries /\ Unblocked(e).running = e.running
         /\ Unblocked(e).versions = e.versions
BY DEF Unblocked, Entries

LaneStates == [next : Nat, failures : Nat, err : BOOLEAN]

LEMMA WithLaneTyped ==
  ASSUME NEW e \in Entries, NEW l \in Lanes, NEW state \in LaneStates
  PROVE  /\ WithLane(e, l, state) \in Entries
         /\ WithLane(e, l, state).running = e.running
BY DEF WithLane, Entries, LaneStates

LEMMA BackedOffTyped ==
  ASSUME NEW e \in Entries, now \in Nat, NEW l \in Lanes, NEW res \in Results
  PROVE  BackedOff(e, l, res) \in Entries /\ BackedOff(e, l, res).running = e.running
<1> DEFINE failures == e.lanes[l].failures + 1
           next     == Later(now + Backoff[Sooner(failures, 3)], res.retry)
           state    == [next |-> next, failures |-> failures, err |-> TRUE]
<1>1. failures \in Nat /\ Backoff[Sooner(failures, 3)] \in Nat
  BY DurationTypes DEF Entries
<1>2. now + Backoff[Sooner(failures, 3)] \in Nat /\ res.retry \in Nat
  BY <1>1 DEF Results
<1>3. next \in Nat
  BY <1>2, TimesTyped
<1>4. state \in LaneStates
  BY <1>1, <1>3 DEF LaneStates
<1>5. BackedOff(e, l, res) = WithLane(e, l, state)
  BY DEF BackedOff
<1> HIDE DEF state
<1> QED
  BY <1>4, <1>5, WithLaneTyped

LEMMA NextAfterTyped ==
  ASSUME NEW next \in Nat, NEW id, NEW e \in Entries, NEW l \in Lanes,
         NEW res \in Results, NEW versions, NEW before \in Nat
  PROVE  NextAfter(next, id, e, l, res, versions, before) \in Nat
<1>1. id \in Probed(l, res) => res.windows[id].RefreshAt \in Nat
  BY DEF Probed, Results, Windows
<1> QED
  BY <1>1 DEF NextAfter

LEMMA RefreshedTyped ==
  ASSUME NEW e \in Entries, now \in Nat, NEW l \in Lanes, NEW res \in Results,
         NEW versions
  PROVE  /\ Refreshed(e, l, res, versions) \in Entries
         /\ Refreshed(e, l, res, versions).running = e.running
<1> DEFINE refused == res.kind = "unauthenticated"
           ttl     == IF res.kind = "windows" THEN LaneTTL(l) ELSE LongTTL
           start   == Later(now + ttl, res.retry)
           before  == e.lanes[l].next
           n1 == NextAfter(start, QuotaSession, e, l, res, versions, before)
           n2 == NextAfter(n1, QuotaWeekly, e, l, res, versions, before)
           n3 == NextAfter(n2, QuotaFable, e, l, res, versions, before)
           next    == Later(n3, res.retry)
           stored  == {id \in Probed(l, res) : Unchanged(e, id, versions)}
           windows == [id \in Ids |-> IF id \in stored THEN res.windows[id]
                                      ELSE IF refused THEN NoWindow ELSE e.windows[id]]
           blocked == [id \in Ids |->
                         IF id \notin stored THEN e.blocked[id]
                         ELSE IF res.exhausted = id /\ After(res.windows[id].ResetsAt, now)
                           THEN res.windows[id].ResetsAt
                         ELSE 0]
           lanes == [m \in Lanes |->
                       IF m = l THEN [next |-> next, failures |-> 0, err |-> FALSE]
                       ELSE IF refused THEN [e.lanes[m] EXCEPT !.next = start, !.err = FALSE]
                       ELSE e.lanes[m]]
<1>1. before \in Nat /\ res.retry \in Nat /\ now + ttl \in Nat
  BY DurationTypes DEF Entries, Results
<1>2. start \in Nat
  BY <1>1, TimesTyped
<1>3. n3 \in Nat
  BY <1>1, <1>2, NextAfterTyped
<1>4. next \in Nat
  BY <1>1, <1>3, TimesTyped
<1>5. windows \in [Ids -> Windows]
  BY DEF Entries, Results, NoWindow, Windows
<1>6. blocked \in [Ids -> Nat]
  BY DEF Entries, Results, Windows
<1> HIDE DEF start, next
<1>7. lanes \in [Lanes -> LaneStates]
  BY <1>2, <1>4 DEF Entries, LaneStates
<1>8. Refreshed(e, l, res, versions) =
        [e EXCEPT !.notAuthenticated = refused, !.windows = windows,
                  !.dirty = [id \in Ids |-> e.dirty[id] /\ id \notin stored],
                  !.blocked = blocked, !.lanes = lanes]
  BY DEF Refreshed, start, next
<1> HIDE DEF windows, blocked, lanes, stored, refused
<1>9. [id \in Ids |-> e.dirty[id] /\ id \notin stored] \in [Ids -> BOOLEAN]
  BY DEF Entries
<1>10. refused \in BOOLEAN
  BY DEF refused
<1> QED
  BY <1>5, <1>6, <1>7, <1>8, <1>9, <1>10 DEF Entries, LaneStates

LEMMA ProbeApplied ==
  ASSUME NEW e \in Entries, now \in Nat, NEW l \in Lanes, NEW res \in Results,
         NEW versions
  PROVE  /\ applyProbe(e, l, res, versions) \in Entries
         /\ applyProbe(e, l, res, versions).running = e.running
BY BackedOffTyped, RefreshedTyped DEF applyProbe

Reports == [windows : [Ids -> Windows], exhausted : Ids \cup {QuotaUnknown, None}]

LEMMA ObservedTyped ==
  ASSUME NEW e \in Entries, now \in Nat, NEW w \in [Ids -> Windows], NEW x
  PROVE  observed(e, w, x) \in Entries /\ observed(e, w, x).running = e.running
<1> DEFINE seen    == {id \in Ids : Reported(w[id])}
           refused == IF x = None THEN {} ELSE IF x = QuotaUnknown THEN Ids ELSE {x}
           invalid == {id \in refused \ seen : ~e.dirty[id]}
           freed   == {id \in invalid : /\ Settled(e, LaneOf(id))
                                        /\ now >= e.invalidatedUntil[id]}
           In(ids, l) == {id \in ids : LaneOf(id) = l}
           windows == [id \in Ids |->
                         IF id \in seen THEN w[id]
                         ELSE IF id \in invalid /\ Reported(e.windows[id])
                           THEN [e.windows[id] EXCEPT !.RefreshAt = now]
                         ELSE e.windows[id]]
           versions == [id \in Ids |-> IF id \in seen \cup invalid THEN e.versions[id] + 1
                                       ELSE e.versions[id]]
           dirty    == [id \in Ids |-> IF id \in seen THEN FALSE
                                       ELSE e.dirty[id] \/ id \in invalid]
           blocked  == [id \in Ids |->
                          IF id \notin seen THEN e.blocked[id]
                          ELSE IF id \in refused /\ After(w[id].ResetsAt, now)
                            THEN w[id].ResetsAt
                          ELSE 0]
           until    == [id \in Ids |-> IF id \in freed THEN now + quotaTTL(id)
                                       ELSE e.invalidatedUntil[id]]
           lanes    == [l \in Lanes |->
                          [e.lanes[l] EXCEPT !.next =
                             IF In(freed, l) # {} THEN 0
                             ELSE IF In(seen, l) # {} /\ Settled(e, l)
                               THEN w[CHOOSE id \in In(seen, l) : TRUE].RefreshAt
                             ELSE e.lanes[l].next]]
<1>1. windows \in [Ids -> Windows]
  <2> HIDE DEF seen, invalid
  <2>1. \A id \in Ids : w[id] \in Windows /\ e.windows[id] \in Windows
    BY DEF Entries
  <2>2. \A v \in Windows : [v EXCEPT !.RefreshAt = now] \in Windows
    BY DEF Windows
  <2> QED
    BY <2>1, <2>2
<1>2. versions \in [Ids -> Nat]
  <2> HIDE DEF seen, invalid
  <2> QED
    BY DEF Entries
<1>3. dirty \in [Ids -> BOOLEAN]
  <2>1. \A id \in Ids : e.dirty[id] \in BOOLEAN
    BY DEF Entries
  <2> HIDE DEF seen, invalid
  <2>2. \A id \in Ids : (IF id \in seen THEN FALSE ELSE e.dirty[id] \/ id \in invalid) \in BOOLEAN
    BY <2>1
  <2> QED
    BY <2>2
<1>4. blocked \in [Ids -> Nat]
  <2> HIDE DEF seen, refused
  <2> QED
    BY DEF Entries, Windows
<1>5. until \in [Ids -> Nat]
  <2> HIDE DEF freed
  <2> QED
    BY DurationTypes DEF Entries
<1>6. lanes \in [Lanes -> LaneStates]
  <2>1. ASSUME NEW l \in Lanes, In(seen, l) # {}
        PROVE  w[CHOOSE id \in In(seen, l) : TRUE].RefreshAt \in Nat
    BY <2>1 DEF Windows
  <2> HIDE DEF seen, freed, In
  <2> QED
    BY <2>1 DEF Entries, LaneStates
<1>7. observed(e, w, x) =
        [e EXCEPT !.notAuthenticated = e.notAuthenticated /\ seen = {},
                  !.windows = windows, !.versions = versions, !.dirty = dirty,
                  !.blocked = blocked, !.invalidatedUntil = until, !.lanes = lanes]
  BY DEF observed
<1>8. (e.notAuthenticated /\ seen = {}) \in BOOLEAN
  OBVIOUS
<1> HIDE DEF windows, versions, dirty, blocked, until, lanes, seen
<1> QED
  BY <1>1, <1>2, <1>4, <1>5, <1>6, <1>7, <1>8, <1>3 DEF Entries, LaneStates

\* What a key is looked up as: its entry, or a new one nobody refreshes.
LEMMA EntryTyped ==
  ASSUME now \in Nat, heap \in [Slots -> Entries], table \in [Keys -> Slots \cup {Nil}],
         NEW k \in Keys
  PROVE  /\ Entry(k) \in Entries
         /\ Entry(k).running = IF table[k] = Nil THEN None ELSE heap[table[k]].running
<1> DEFINE found == IF table[k] = Nil THEN NewEntry ELSE heap[table[k]]
<1>1. found \in Entries
  BY NewEntryTyped
<1>2. found.running = IF table[k] = Nil THEN None ELSE heap[table[k]].running
  BY NewEntryTyped
<1>3. Entry(k) = [found EXCEPT !.lastUsed = now]
  BY DEF Entry
<1> HIDE DEF found
<1> QED
  BY <1>1, <1>2, <1>3 DEF Entries

LEMMA EntersTyped ==
  ASSUME table \in [Keys -> Slots \cup {Nil}], NEW k \in Keys, NEW e \in Slots,
         Enters(k, e)
  PROVE  table' \in [Keys -> Slots \cup {Nil}]
BY DEF Enters

LEMMA AccountTyped == \A s \in Sessions : Account[s] \in Keys
BY DEF Keys

LEMMA AnswersTyped ==
  ASSUME now \in Nat, NEW l \in Lanes, NEW res \in Answers(l)
  PROVE  res \in Results
<1> DEFINE ids   == IF l = 1 THEN Ids ELSE Ids \ {QuotaFable}
           until == {IF d = 0 THEN 0 ELSE now + d : d \in Retries}
<1>1. until \subseteq Nat
  BY DurationsAssumption
<1>2. NoResult.windows \in [Ids -> Windows]
  BY DEF NoResult, NoWindow, Windows
<1>3. CASE res \in [kind : Outcomes \ {"windows"}, windows : {NoResult.windows},
                    exhausted : {None}, retry : until]
  <2> HIDE DEF until
  <2> QED
    BY <1>1, <1>2, <1>3, ActorsAssumption DEF Results
<1>4. ASSUME NEW seen \in (Readings \cap SUBSET ids) \ {{}},
             res \in [kind : Outcomes \cap {"windows"}, exhausted : seen \cup {None},
                      retry : until,
                      windows : {WindowsOf(seen, now, reset) : reset \in Resets}]
      PROVE  res \in Results
  <2>1. \A reset \in Resets : WindowsOf(seen, now, reset) \in [Ids -> Windows]
    BY WindowsOfTyped, DurationsAssumption
  <2>2. seen \subseteq Ids
    OBVIOUS
  <2> HIDE DEF until
  <2> QED
    BY <1>1, <1>4, <2>1, <2>2 DEF Results
<1> QED
  BY <1>3, <1>4 DEF Answers

-----------------------------------------------------------------------------
(* Types.                                                                  *)

LEMMA InitTyped == Init => TypeOK
<1> SUFFICES ASSUME Init PROVE TypeOK
  OBVIOUS
<1> USE DEF Init
<1>1. /\ now \in Nat /\ table \in [Keys -> Slots \cup {Nil}]
      /\ heap \in [Slots -> Entries]
  BY NewEntryTyped
<1>2. [id \in Ids |-> NoWindow] \in [Ids -> Windows]
  BY DEF NoWindow, Windows
<1>3. /\ result \in [Sessions -> Results]
      /\ pending \in [Sessions -> Reports]
  BY <1>2 DEF NoResult, NoReport, Results, Reports
<1>4. /\ sampled \in [Sessions -> [Ids -> Nat]]
      /\ due \in [Sessions -> [Lanes -> BOOLEAN]]
      /\ failedUntil \in [Keys -> [Lanes -> Nat]]
  BY DEF NoVersion
<1> QED
  BY <1>1, <1>3, <1>4 DEF TypeOK, Reports

LEMMA ReadTyped ==
  ASSUME TypeOK, NEW s \in Sessions, Read(s)
  PROVE  TypeOK'
<1> USE DEF TypeOK
<1> PICK e \in Slots : /\ Enters(Account[s], e)
                       /\ Join(s, e) \/ Cached(s, e) \/ Refresh(s, e)
  BY DEF Read
<1>1. table' \in [Keys -> Slots \cup {Nil}]
  BY AccountTyped, EntersTyped
<1> DEFINE entry == Entry(Account[s])
<1>2. entry \in Entries /\ Unblocked(entry) \in Entries
  BY EntryTyped, AccountTyped, UnblockedTyped
<1>3. [Unblocked(entry) EXCEPT !.running = s] \in Entries
  BY <1>2 DEF Entries
<1>4. DueLanes(Unblocked(entry)) \in [Lanes -> BOOLEAN]
  BY DEF DueLanes, IsDue, Exhausted
<1> HIDE DEF entry
<1>5. /\ heap' \in [Slots -> Entries]
      /\ pc' \in [Sessions -> {"idle", "waiting", "released", "lane", "probing", "applying"}]
      /\ at' \in [Sessions -> Slots \cup {Nil}]
      /\ due' \in [Sessions -> [Lanes -> BOOLEAN]]
      /\ lane' \in [Sessions -> 0..2]
      /\ sampled' \in [Sessions -> [Ids -> Nat]] /\ result' \in [Sessions -> Results]
  <2>1. CASE Join(s, e)
    BY <1>2, <2>1 DEF Join, entry
  <2>2. CASE Cached(s, e)
    BY <1>2, <2>2 DEF Cached, readVars, entry
  <2>3. CASE Refresh(s, e)
    BY <1>3, <1>4, <2>3 DEF Refresh, entry
  <2> QED
    BY <2>1, <2>2, <2>3
<1>6. access' \in [Sessions -> BOOLEAN]
  BY DEF Read
<1>7. UNCHANGED <<now, ctxDone, classified, pending, reports, cancels, failedUntil>>
      /\ reads' \in Nat
  BY DEF Read
<1> QED
  BY <1>1, <1>5, <1>6, <1>7

LEMMA ProbeTyped ==
  ASSUME TypeOK, RefreshInv, NEW s \in Sessions,
         BeginLane(s) \/ Answer(s) \/ Apply(s) \/ Finish(s) \/ Leave(s)
  PROVE  TypeOK'
<1> USE DEF TypeOK
<1>1. CASE BeginLane(s)
  <2> DEFINE entry == IF due[s][lane[s]] THEN Unblocked(heap[at[s]]) ELSE heap[at[s]]
  <2>1. at[s] \in Slots /\ lane[s] \in Lanes
    BY <1>1 DEF BeginLane, RefreshInv, Held, Refreshing
  <2>2. entry \in Entries
    BY <2>1, UnblockedTyped
  <2>3. entry.versions \in [Ids -> Nat] /\ lane[s] + 1 \in 0..2
    BY <2>1, <2>2 DEF Entries, Lanes
  <2> HIDE DEF entry
  <2>4. heap' \in [Slots -> Entries]
    BY <1>1, <2>2 DEF BeginLane, entry
  <2>5. /\ pc' \in [Sessions -> {"idle", "waiting", "released", "lane", "probing", "applying"}]
        /\ lane' \in [Sessions -> 0..2]
        /\ sampled' \in [Sessions -> [Ids -> Nat]]
    BY <1>1, <2>3 DEF BeginLane, entry
  <2> QED
    BY <1>1, <2>4, <2>5 DEF BeginLane, turnVars, boundVars
<1>2. CASE Answer(s)
  <2>1. lane[s] \in Lanes
    BY <1>2 DEF Answer, RefreshInv, Held
  <2>2. result' \in [Sessions -> Results]
    BY <1>2, <2>1, AnswersTyped DEF Answer
  <2> QED
    BY <1>2, <2>2 DEF Answer, cacheVars, turnVars, boundVars
<1>3. CASE Apply(s)
  <2> DEFINE entry == applyProbe(heap[at[s]], lane[s], result[s], sampled[s])
  <2>1. at[s] \in Slots /\ lane[s] \in Lanes
    BY <1>3 DEF Apply, RefreshInv, Held, Refreshing
  <2>2. entry \in Entries
    BY <2>1, ProbeApplied
  <2>3. \A last \in BOOLEAN : NextLane(lane[s], last) \in 0..2
    BY <2>1 DEF NextLane, Lanes
  <2>4. NoVersion \in [Ids -> Nat]
    BY DEF NoVersion
  <2>5. NoResult \in Results
    BY DEF NoResult, Results, NoWindow, Windows
  <2>6. result[s].kind = "error" => now + Backoff[Sooner(entry.lanes[lane[s]].failures, 3)] \in Nat
    <3> SUFFICES ASSUME result[s].kind = "error"
                 PROVE  Backoff[Sooner(entry.lanes[lane[s]].failures, 3)] \in Nat
      OBVIOUS
    <3>1. entry.lanes[lane[s]].failures = heap[at[s]].lanes[lane[s]].failures + 1
      BY <2>1 DEF applyProbe, BackedOff, WithLane, Entries
    <3>2. heap[at[s]].lanes[lane[s]].failures \in Nat
      BY <2>1 DEF Entries
    <3> QED
      BY <3>1, <3>2, DurationTypes
  <2> HIDE DEF entry
  <2>7. /\ heap' \in [Slots -> Entries]
        /\ failedUntil' \in [Keys -> [Lanes -> Nat]]
    BY <1>3, <2>2, <2>6 DEF Apply, entry
  <2>9. lane' \in [Sessions -> 0..2]
    <3>1. PICK last \in BOOLEAN : lane' = [lane EXCEPT ![s] = NextLane(lane[s], last)]
      BY <1>3 DEF Apply
    <3> QED
      BY <2>3, <3>1
  <2>8. /\ pc' \in [Sessions -> {"idle", "waiting", "released", "lane", "probing", "applying"}]
        /\ sampled' \in [Sessions -> [Ids -> Nat]]
        /\ result' \in [Sessions -> Results]
    BY <1>3, <2>4, <2>5 DEF Apply
  <2> QED
    BY <1>3, <2>7, <2>8, <2>9 DEF Apply, turnVars, boundVars
<1>4. CASE Finish(s)
  <2> DEFINE entry == heap[at[s]]
  <2>1. at[s] \in Slots
    BY <1>4 DEF Finish, RefreshInv, Held, Refreshing
  <2>2. entry \in Entries
    BY <2>1
  <2> HIDE DEF entry
  <2>3. [entry EXCEPT !.running = None] \in Entries
    BY <2>2 DEF Entries
  <2>4. heap' \in [Slots -> Entries]
    BY <1>4, <2>3 DEF Finish, entry
  <2>5. pc' \in [Sessions -> {"idle", "waiting", "released", "lane", "probing", "applying"}]
    BY <1>4 DEF Finish
  <2> QED
    BY <1>4, <2>4, <2>5 DEF Finish, Forget, turnVars, boundVars
<1>5. CASE Leave(s)
  BY <1>5 DEF Leave, Forget, cacheVars, turnVars, boundVars
<1> QED
  BY <1>1, <1>2, <1>3, <1>4, <1>5

LEMMA TurnTyped ==
  ASSUME TypeOK, NEW s \in Sessions,
         Cancel(s) \/ Report(s) \/ LimitError(s) \/ Observe(s) \/ Tick
  PROVE  TypeOK'
<1> USE DEF TypeOK
<1>1. CASE Cancel(s)
  BY <1>1 DEF Cancel, cacheVars, readVars, turnVars
<1>2. CASE Report(s)
  <2> PICK seen \in Readings, reset \in Resets, x \in Ids \cup {QuotaUnknown, None} :
             pending' = [pending EXCEPT ![s] = [windows |-> WindowsOf(seen, now, reset),
                                                exhausted |-> x]]
    BY <1>2 DEF Report
  <2>1. WindowsOf(seen, now, reset) \in [Ids -> Windows]
    BY WindowsOfTyped, DurationsAssumption
  <2>2. pending' \in [Sessions -> Reports]
    BY <2>1 DEF Reports
  <2>3. classified' \in [Sessions -> BOOLEAN]
    BY <1>2 DEF Report
  <2> QED
    BY <1>2, <2>2, <2>3 DEF Report, cacheVars, readVars, Reports
<1>3. CASE LimitError(s)
  <2> DEFINE x == IF classified[s] THEN None ELSE QuotaUnknown
  <2>1. \A report \in Reports : [report EXCEPT !.exhausted = x] \in Reports
    BY DEF Reports
  <2>2. pending \in [Sessions -> Reports]
    BY DEF Reports
  <2>3. pending' \in [Sessions -> Reports]
    BY <1>3, <2>1, <2>2 DEF LimitError
  <2>4. classified' \in [Sessions -> BOOLEAN]
    BY <1>3 DEF LimitError
  <2>5. reports' \in Nat
    BY <1>3 DEF LimitError
  <2> QED
    BY <1>3, <2>3, <2>4, <2>5 DEF LimitError, cacheVars, readVars, Reports
<1>4. CASE Observe(s)
  <2> PICK e \in Slots :
         /\ Enters(Account[s], e)
         /\ heap' = [heap EXCEPT ![e] = observed(Entry(Account[s]), pending[s].windows,
                                                 pending[s].exhausted)]
    BY <1>4 DEF Observe
  <2>1. table' \in [Keys -> Slots \cup {Nil}]
    BY AccountTyped, EntersTyped
  <2>2. Entry(Account[s]) \in Entries
    BY EntryTyped, AccountTyped
  <2>3. observed(Entry(Account[s]), pending[s].windows, pending[s].exhausted) \in Entries
    BY <2>2, ObservedTyped
  <2>4. pending' \in [Sessions -> Reports]
    BY <1>4 DEF Observe, Reports, NoReport, NoWindow, Windows
  <2> QED
    BY <1>4, <2>1, <2>3, <2>4 DEF Observe, readVars, boundVars, Reports
<1>5. CASE Tick
  BY <1>5 DEF Tick, cacheVars, readVars, turnVars, boundVars
<1> QED
  BY <1>1, <1>2, <1>3, <1>4, <1>5

-----------------------------------------------------------------------------
(* One refresh per account.                                                *)

\* Looking a key up drops no entry that is being refreshed, and a fresh cell is
\* nobody's.
LEMMA EntersKeeps ==
  ASSUME TypeOK, RefreshInv, NEW k \in Keys, NEW e \in Slots, Enters(k, e)
  PROVE  /\ e # Nil /\ table'[k] = e
         /\ \A j \in Keys : j # k /\ table'[j] # Nil => table'[j] = table[j] /\ table[j] # e
         /\ \A s \in Refreshing : table'[Account[s]] = at[s]
         /\ \A s \in Sessions : at[s] = e => table[k] = e
<1>1. e # Nil
  BY ActorsAssumption
<1>2. CASE table[k] = e /\ UNCHANGED table
  BY <1>1, <1>2 DEF RefreshInv, CellsApart, RefreshNamed
<1>3. CASE /\ table[k] = Nil /\ e \notin InUse
           /\ table' = [j \in Keys |-> IF j = k THEN e
                                       ELSE IF Abandoned(j) THEN Nil ELSE table[j]]
  <2>1. ASSUME NEW s \in Refreshing
        PROVE  table'[Account[s]] = at[s]
    <3>1. /\ s \in Sessions /\ pc[s] # "idle" /\ table[Account[s]] = at[s]
          /\ heap[at[s]].running = s
      BY DEF Refreshing, RefreshInv, RefreshNamed
    <3>2. at[s] # Nil /\ Account[s] \in Keys
      BY <3>1, AccountTyped DEF RefreshInv, Held
    <3>3. Account[s] # k
      BY <1>3, <3>1, <3>2
    <3>4. ~Abandoned(Account[s])
      BY <3>1, ActorsAssumption DEF Abandoned
    <3> QED
      BY <1>3, <3>1, <3>2, <3>3, <3>4
  <2>2. ASSUME NEW j \in Keys, j # k, table'[j] # Nil
        PROVE  table'[j] = table[j] /\ table[j] # e
    BY <1>3, <2>2 DEF InUse
  <2>3. \A s \in Sessions : at[s] # e
    BY <1>3 DEF InUse
  <2> QED
    BY <1>1, <1>3, <2>1, <2>2, <2>3
<1> QED
  BY <1>2, <1>3 DEF Enters

\* An entry looked up and written back with the reader it had.
LEMMA LookupKeeps ==
  ASSUME TypeOK, RefreshInv, NEW k \in Keys, NEW e \in Slots, Enters(k, e),
         NEW x, heap' = [heap EXCEPT ![e] = x], x.running = Entry(k).running,
         UNCHANGED <<pc, at, lane>>
  PROVE  RefreshInv'
<1>1. Refreshing' = Refreshing
  BY DEF Refreshing
<1>2. /\ e # Nil /\ table'[k] = e
      /\ \A j \in Keys : j # k /\ table'[j] # Nil => table'[j] = table[j] /\ table[j] # e
      /\ \A s \in Refreshing : table'[Account[s]] = at[s]
      /\ \A s \in Sessions : at[s] = e => table[k] = e
  BY EntersKeeps
<1>3. x.running = IF table[k] = Nil THEN None ELSE heap[table[k]].running
  BY EntryTyped DEF TypeOK
<1>4. \A f \in Slots : heap'[f] = IF f = e THEN x ELSE heap[f]
  BY DEF TypeOK
<1>5. Held' /\ WaitersAreServed'
  BY <1>1 DEF RefreshInv, Held, WaitersAreServed
<1>6. CellsApart'
  BY <1>2 DEF RefreshInv, CellsApart
<1>7. RefreshNamed'
  <2> SUFFICES ASSUME NEW s \in Refreshing
               PROVE  heap'[at[s]].running = s
    BY <1>1, <1>2 DEF RefreshNamed
  <2>1. s \in Sessions /\ at[s] \in Slots /\ heap[at[s]].running = s
    BY DEF Refreshing, RefreshInv, RefreshNamed, Held, TypeOK
  <2> QED
    BY <1>2, <1>3, <1>4, <2>1
<1>8. NameRefreshes'
  <2> SUFFICES ASSUME NEW j \in Keys, table'[j] # Nil, heap'[table'[j]].running # None
               PROVE  /\ heap'[table'[j]].running \in Refreshing
                      /\ at[heap'[table'[j]].running] = table'[j]
    BY <1>1 DEF NameRefreshes
  <2>1. CASE j = k
    <3>1. table[k] # Nil /\ heap'[e].running = heap[table[k]].running
      BY <1>2, <1>3, <1>4, <2>1
    <3>2. table[k] = e
      BY <1>2, <3>1, <2>1 DEF RefreshInv, Enters
    <3> QED
      BY <1>2, <2>1, <3>1, <3>2 DEF RefreshInv, NameRefreshes
  <2>2. CASE j # k
    BY <1>2, <1>4, <2>2 DEF RefreshInv, NameRefreshes, TypeOK
  <2> QED
    BY <2>1, <2>2
<1> QED
  BY <1>5, <1>6, <1>7, <1>8 DEF RefreshInv

\* An entry rewritten in its cell with the reader it had.
LEMMA CellKeeps ==
  ASSUME TypeOK, RefreshInv, NEW e \in Slots, NEW x, heap' = [heap EXCEPT ![e] = x],
         x.running = heap[e].running, UNCHANGED <<table, at>>,
         Refreshing' = Refreshing, Held',
         \A s \in Sessions : pc'[s] = "waiting" => pc[s] = "waiting"
  PROVE  RefreshInv'
<1>1. \A f \in Slots : heap'[f].running = heap[f].running
  BY DEF TypeOK
<1>2. \A s \in Refreshing : s \in Sessions /\ at[s] \in Slots
  BY DEF Refreshing, RefreshInv, Held, TypeOK
<1>3. \A k \in Keys : table[k] # Nil => table[k] \in Slots
  BY DEF TypeOK
<1>4. RefreshNamed'
  BY <1>1, <1>2 DEF RefreshInv, RefreshNamed
<1>5. NameRefreshes'
  BY <1>1, <1>3 DEF RefreshInv, NameRefreshes
<1>6. CellsApart' /\ WaitersAreServed'
  BY DEF RefreshInv, CellsApart, WaitersAreServed
<1> QED
  BY <1>4, <1>5, <1>6 DEF RefreshInv

LEMMA ReadKeeps ==
  ASSUME TypeOK, RefreshInv, NEW s \in Sessions, Read(s)
  PROVE  RefreshInv'
<1> PICK e \in Slots : /\ Enters(Account[s], e)
                       /\ Join(s, e) \/ Cached(s, e) \/ Refresh(s, e)
  BY DEF Read
<1> DEFINE k     == Account[s]
           found == Entry(k)
<1>1. k \in Keys /\ pc[s] = "idle"
  BY AccountTyped DEF Read
<1>2. found \in Entries /\ found.running = IF table[k] = Nil THEN None ELSE heap[table[k]].running
  BY <1>1, EntryTyped DEF TypeOK
<1>3. Unblocked(found).running = found.running /\ Unblocked(found) \in Entries
  BY <1>2, UnblockedTyped DEF TypeOK
<1>4. /\ e # Nil /\ table'[k] = e
      /\ \A j \in Keys : j # k /\ table'[j] # Nil => table'[j] = table[j] /\ table[j] # e
      /\ \A r \in Refreshing : table'[Account[r]] = at[r]
      /\ \A r \in Sessions : at[r] = e => table[k] = e
  BY <1>1, EntersKeeps
<1>5. CellsApart'
  BY <1>4 DEF RefreshInv, CellsApart
<1>6. \A r \in Refreshing : r \in Sessions /\ r # s /\ at[r] \in Slots
  BY <1>1 DEF Refreshing, RefreshInv, Held, TypeOK
<1> HIDE DEF found
<1>7. CASE Cached(s, e)
  BY <1>1, <1>3, <1>7, LookupKeeps DEF Cached, readVars, found
<1>8. CASE Join(s, e)
  <2>1. /\ heap' = [heap EXCEPT ![e] = found] /\ found.running # None
        /\ pc' = [pc EXCEPT ![s] = "waiting"] /\ at' = [at EXCEPT ![s] = e]
        /\ lane' = lane
    BY <1>8 DEF Join, Running, found
  <2>2. Refreshing' = Refreshing
    BY <1>1, <2>1 DEF Refreshing, TypeOK
  <2>3. table[k] # Nil /\ table[k] = e /\ found.running = heap[e].running
    BY <1>2, <2>1 DEF Enters
  <2>4. \A f \in Slots : heap'[f].running = heap[f].running
    BY <2>1, <2>3 DEF TypeOK
  <2>5. heap[e].running \in Refreshing /\ at[heap[e].running] = e
    BY <1>1, <2>1, <2>3 DEF RefreshInv, NameRefreshes
  <2>6. \A r \in Sessions : at'[r] = IF r = s THEN e ELSE at[r]
    BY <2>1 DEF TypeOK
  <2>7. Held'
    BY <1>1, <1>4, <2>1 DEF RefreshInv, Held, TypeOK
  <2>8. RefreshNamed'
    BY <1>4, <1>6, <2>2, <2>4, <2>6 DEF RefreshInv, RefreshNamed
  <2>9. NameRefreshes'
    <3> SUFFICES ASSUME NEW j \in Keys, table'[j] # Nil, heap'[table'[j]].running # None
                 PROVE  /\ heap'[table'[j]].running \in Refreshing
                        /\ at'[heap'[table'[j]].running] = table'[j]
      BY <2>2 DEF NameRefreshes
    <3>1. table'[j] = table[j] /\ table[j] \in Slots
      BY <1>4, <2>3 DEF TypeOK
    <3>2. heap[table[j]].running \in Refreshing /\ at[heap[table[j]].running] = table[j]
      BY <2>4, <3>1 DEF RefreshInv, NameRefreshes
    <3> QED
      BY <1>6, <2>4, <2>6, <3>1, <3>2
  <2>10. WaitersAreServed'
    <3> SUFFICES ASSUME NEW r \in Sessions, pc'[r] = "waiting"
                 PROVE  \E q \in Refreshing : at'[q] = at'[r]
      BY <2>2 DEF WaitersAreServed
    <3>1. CASE r = s
      BY <1>6, <2>5, <2>6, <3>1
    <3>2. CASE r # s
      <4>1. pc[r] = "waiting"
        BY <2>1, <3>2 DEF TypeOK
      <4>2. PICK q \in Refreshing : at[q] = at[r]
        BY <4>1 DEF RefreshInv, WaitersAreServed
      <4> QED
        BY <1>6, <2>6, <3>2, <4>2
    <3> QED
      BY <3>1, <3>2
  <2> QED
    BY <1>5, <2>7, <2>8, <2>9, <2>10 DEF RefreshInv
<1>9. CASE Refresh(s, e)
  <2> DEFINE x == [Unblocked(found) EXCEPT !.running = s]
  <2>1. /\ heap' = [heap EXCEPT ![e] = x] /\ Unblocked(found).running = None
        /\ pc' = [pc EXCEPT ![s] = "lane"] /\ at' = [at EXCEPT ![s] = e]
        /\ lane' = [lane EXCEPT ![s] = 0]
    BY <1>3, <1>9 DEF Refresh, Running, found
  <2>2. x.running = s
    BY <1>3 DEF Entries
  <2> HIDE DEF x
  <2>3. Refreshing' = Refreshing \cup {s}
    BY <2>1 DEF Refreshing, TypeOK
  <2>4. \A f \in Slots : heap'[f] = IF f = e THEN x ELSE heap[f]
    BY <2>1 DEF TypeOK
  <2>5. \A r \in Sessions : at'[r] = IF r = s THEN e ELSE at[r]
    BY <2>1 DEF TypeOK
  <2>6. \A r \in Refreshing : at[r] # e
    <3> SUFFICES ASSUME NEW r \in Refreshing, at[r] = e
                 PROVE  FALSE
      OBVIOUS
    <3>1. table[k] = e /\ heap[e].running = r
      BY <1>4, <1>6 DEF RefreshInv, RefreshNamed
    <3> QED
      BY <1>2, <1>3, <1>4, <1>6, <2>1, <3>1, ActorsAssumption
  <2>7. Held'
    BY <1>4, <2>1 DEF RefreshInv, Held, TypeOK
  <2>8. RefreshNamed'
    <3> SUFFICES ASSUME NEW r \in Refreshing'
                 PROVE  heap'[at'[r]].running = r /\ table'[Account[r]] = at'[r]
      BY DEF RefreshNamed
    <3>1. CASE r = s
      BY <1>4, <2>2, <2>4, <2>5, <3>1
    <3>2. CASE r # s
      BY <1>4, <1>6, <2>3, <2>4, <2>5, <2>6, <3>2 DEF RefreshInv, RefreshNamed
    <3> QED
      BY <3>1, <3>2
  <2>9. NameRefreshes'
    <3> SUFFICES ASSUME NEW j \in Keys, table'[j] # Nil, heap'[table'[j]].running # None
                 PROVE  /\ heap'[table'[j]].running \in Refreshing'
                        /\ at'[heap'[table'[j]].running] = table'[j]
      BY DEF NameRefreshes
    <3>1. CASE j = k
      BY <1>4, <2>2, <2>3, <2>4, <2>5, <3>1
    <3>2. CASE j # k
      <4>1. table'[j] = table[j] /\ table[j] # e /\ table[j] \in Slots
        BY <1>4, <3>2 DEF TypeOK
      <4>2. heap'[table'[j]].running = heap[table[j]].running
        BY <2>4, <4>1
      <4>3. /\ heap[table[j]].running \in Refreshing
            /\ at[heap[table[j]].running] = table[j]
        BY <4>1, <4>2 DEF RefreshInv, NameRefreshes
      <4> QED
        BY <1>6, <2>3, <2>5, <4>1, <4>2, <4>3
    <3> QED
      BY <3>1, <3>2
  <2>10. WaitersAreServed'
    <3> SUFFICES ASSUME NEW r \in Sessions, pc'[r] = "waiting"
                 PROVE  \E q \in Refreshing' : at'[q] = at'[r]
      BY DEF WaitersAreServed
    <3>1. r # s /\ pc[r] = "waiting"
      BY <2>1 DEF TypeOK
    <3>2. PICK q \in Refreshing : at[q] = at[r]
      BY <3>1 DEF RefreshInv, WaitersAreServed
    <3> QED
      BY <1>6, <2>3, <2>5, <3>1, <3>2
  <2> QED
    BY <1>5, <2>7, <2>8, <2>9, <2>10 DEF RefreshInv
<1> QED
  BY <1>7, <1>8, <1>9

LEMMA ProbeKeeps ==
  ASSUME TypeOK, RefreshInv, NEW s \in Sessions,
         BeginLane(s) \/ Answer(s) \/ Apply(s) \/ Leave(s)
  PROVE  RefreshInv'
<1>1. CASE BeginLane(s)
  <2> DEFINE entry == IF due[s][lane[s]] THEN Unblocked(heap[at[s]]) ELSE heap[at[s]]
  <2>1. at[s] \in Slots /\ heap[at[s]] \in Entries
    BY <1>1 DEF BeginLane, RefreshInv, Held, Refreshing, TypeOK
  <2>2. entry.running = heap[at[s]].running
    BY <2>1, UnblockedTyped DEF TypeOK
  <2>3. heap' = [heap EXCEPT ![at[s]] = entry] /\ UNCHANGED <<table, at>>
    BY <1>1 DEF BeginLane
  <2> HIDE DEF entry
  <2>4. pc[s] = "lane" /\ lane[s] \in Lanes
        /\ \/ pc' = [pc EXCEPT ![s] = "probing"] /\ lane' = lane
           \/ pc' = pc /\ lane' = [lane EXCEPT ![s] = @ + 1]
    BY <1>1 DEF BeginLane
  <2>5. Refreshing' = Refreshing
    BY <2>4 DEF Refreshing, TypeOK
  <2>6. Held'
    BY <2>3, <2>4 DEF RefreshInv, Held, TypeOK
  <2>7. \A r \in Sessions : pc'[r] = "waiting" => pc[r] = "waiting"
    BY <2>4 DEF TypeOK
  <2> QED
    BY <2>1, <2>2, <2>3, <2>5, <2>6, <2>7, CellKeeps
<1>2. CASE Answer(s)
  <2>1. Refreshing' = Refreshing
    BY <1>2 DEF Answer, Refreshing, TypeOK
  <2>2. pc[s] = "probing" /\ pc' = [pc EXCEPT ![s] = "applying"]
        /\ UNCHANGED <<table, heap, at, lane>>
    BY <1>2 DEF Answer, cacheVars
  <2>3. Held' /\ WaitersAreServed'
    BY <2>1, <2>2 DEF RefreshInv, Held, WaitersAreServed, TypeOK
  <2> QED
    BY <2>1, <2>2, <2>3 DEF RefreshInv, CellsApart, RefreshNamed, NameRefreshes
<1>3. CASE Apply(s)
  <2> DEFINE entry == applyProbe(heap[at[s]], lane[s], result[s], sampled[s])
  <2>1. at[s] \in Slots /\ heap[at[s]] \in Entries /\ lane[s] \in Lanes
    BY <1>3 DEF Apply, RefreshInv, Held, Refreshing, TypeOK
  <2>2. entry.running = heap[at[s]].running
    BY <2>1, ProbeApplied DEF TypeOK
  <2>3. heap' = [heap EXCEPT ![at[s]] = entry] /\ UNCHANGED <<table, at>>
    BY <1>3 DEF Apply
  <2> HIDE DEF entry
  <2>4. pc[s] = "applying" /\ pc' = [pc EXCEPT ![s] = "lane"]
        /\ \A r \in Sessions : r # s => lane'[r] = lane[r]
    BY <1>3 DEF Apply, TypeOK
  <2>5. Refreshing' = Refreshing
    BY <2>4 DEF Refreshing, TypeOK
  <2>6. Held'
    BY <2>3, <2>4 DEF RefreshInv, Held, TypeOK
  <2>7. \A r \in Sessions : pc'[r] = "waiting" => pc[r] = "waiting"
    BY <2>4 DEF TypeOK
  <2> QED
    BY <2>1, <2>2, <2>3, <2>5, <2>6, <2>7, CellKeeps
<1>4. CASE Leave(s)
  <2>1. /\ pc[s] \in {"released", "waiting"} /\ pc' = [pc EXCEPT ![s] = "idle"]
        /\ at' = [at EXCEPT ![s] = Nil] /\ lane' = [lane EXCEPT ![s] = 0]
        /\ UNCHANGED <<table, heap>>
    BY <1>4 DEF Leave, Forget, cacheVars
  <2>2. Refreshing' = Refreshing /\ s \notin Refreshing
    BY <2>1 DEF Refreshing, TypeOK
  <2>3. \A r \in Sessions : r # s => at'[r] = at[r] /\ pc'[r] = pc[r]
    BY <2>1 DEF TypeOK
  <2>4. Held'
    BY <2>1 DEF RefreshInv, Held, TypeOK
  <2>5. RefreshNamed' /\ NameRefreshes'
    BY <2>1, <2>2, <2>3 DEF RefreshInv, RefreshNamed, NameRefreshes, Refreshing
  <2>6. WaitersAreServed'
    BY <2>1, <2>2, <2>3 DEF RefreshInv, WaitersAreServed, Refreshing, TypeOK
  <2> QED
    BY <2>1, <2>4, <2>5, <2>6 DEF RefreshInv, CellsApart
<1> QED
  BY <1>1, <1>2, <1>3, <1>4

LEMMA FinishKeeps ==
  ASSUME TypeOK, RefreshInv, NEW s \in Sessions, Finish(s)
  PROVE  RefreshInv'
<1>1. /\ s \in Refreshing /\ at[s] \in Slots
      /\ heap[at[s]].running = s /\ table[Account[s]] = at[s]
  BY DEF Finish, Refreshing, RefreshInv, Held, RefreshNamed, TypeOK
<1>2. /\ table' = table /\ at' = [at EXCEPT ![s] = Nil]
      /\ \A r \in Sessions : r # s => at'[r] = at[r] /\ lane'[r] = lane[r]
  BY DEF Finish, Forget, TypeOK
<1>3. \A f \in Slots : heap'[f].running = IF f = at[s] THEN None ELSE heap[f].running
  <2>1. heap[at[s]] \in Entries
    BY <1>1 DEF TypeOK
  <2> QED
    BY <1>1, <2>1 DEF Finish, TypeOK, Entries
<1>4. Refreshing' = Refreshing \ {s}
  BY DEF Finish, Refreshing, Released, TypeOK
<1>5. Held'
  BY <1>2 DEF Finish, Forget, RefreshInv, Held, Released, TypeOK
<1>6. \A r \in Refreshing \ {s} : r \in Sessions /\ at[r] \in Slots /\ at[r] # at[s]
  BY <1>1 DEF Refreshing, RefreshInv, Held, RefreshNamed, TypeOK
<1>7. RefreshNamed'
  BY <1>2, <1>3, <1>4, <1>6 DEF RefreshInv, RefreshNamed
<1>8. NameRefreshes'
  <2> SUFFICES ASSUME NEW k \in Keys, table[k] # Nil, heap'[table[k]].running # None
               PROVE  /\ heap'[table[k]].running \in Refreshing \ {s}
                      /\ at'[heap'[table[k]].running] = table[k]
    BY <1>2, <1>4 DEF NameRefreshes
  <2>1. table[k] \in Slots /\ table[k] # at[s]
    BY <1>3 DEF TypeOK
  <2>2. heap'[table[k]].running = heap[table[k]].running
    BY <1>3, <2>1
  <2>3. heap[table[k]].running \in Refreshing /\ at[heap[table[k]].running] = table[k]
    BY <2>2 DEF RefreshInv, NameRefreshes
  <2> QED
    BY <1>2, <1>6, <2>1, <2>2, <2>3
<1>9. WaitersAreServed'
  <2> SUFFICES ASSUME NEW r \in Sessions, pc'[r] = "waiting"
               PROVE  \E q \in Refreshing \ {s} : at'[q] = at'[r]
    BY <1>4 DEF WaitersAreServed
  <2>1. r # s /\ pc[r] = "waiting" /\ at[r] # at[s]
    BY DEF Finish, Released, TypeOK
  <2>2. PICK q \in Refreshing : at[q] = at[r]
    BY <2>1 DEF RefreshInv, WaitersAreServed
  <2> QED
    BY <1>2, <1>6, <2>1, <2>2
<1> QED
  BY <1>2, <1>5, <1>7, <1>8, <1>9 DEF RefreshInv, CellsApart

LEMMA TurnKeeps ==
  ASSUME TypeOK, RefreshInv, NEW s \in Sessions,
         Cancel(s) \/ Report(s) \/ LimitError(s) \/ Observe(s) \/ Tick
  PROVE  RefreshInv'
<1>1. CASE Cancel(s) \/ Report(s) \/ LimitError(s) \/ Tick
  BY <1>1 DEF Cancel, Report, LimitError, Tick, cacheVars, readVars, RefreshInv, Held,
              CellsApart, RefreshNamed, NameRefreshes, WaitersAreServed, Refreshing
<1>2. CASE Observe(s)
  <2> DEFINE x == observed(Entry(Account[s]), pending[s].windows, pending[s].exhausted)
  <2> PICK e \in Slots : Enters(Account[s], e) /\ heap' = [heap EXCEPT ![e] = x]
    BY <1>2 DEF Observe
  <2>1. pending[s].windows \in [Ids -> Windows]
    BY DEF TypeOK
  <2>2. x.running = Entry(Account[s]).running
    BY <2>1, EntryTyped, AccountTyped, ObservedTyped DEF TypeOK
  <2> HIDE DEF x
  <2> QED
    BY <1>2, <2>2, AccountTyped, LookupKeeps DEF Observe, readVars
<1> QED
  BY <1>1, <1>2

LEMMA RefreshInvariant == Spec => [](TypeOK /\ RefreshInv)
<1>1. Init => TypeOK /\ RefreshInv
  <2>1. Init => RefreshInv
    BY ActorsAssumption
       DEF Init, RefreshInv, Held, CellsApart, RefreshNamed, NameRefreshes,
           WaitersAreServed, Refreshing
  <2> QED
    BY <2>1, InitTyped
<1>2. TypeOK /\ RefreshInv /\ [Next]_vars => TypeOK' /\ RefreshInv'
  <2> SUFFICES ASSUME TypeOK, RefreshInv, [Next]_vars
               PROVE  TypeOK' /\ RefreshInv'
    OBVIOUS
  <2>1. CASE UNCHANGED vars
    BY <2>1 DEF vars, cacheVars, readVars, turnVars, boundVars, TypeOK, RefreshInv, Held,
                CellsApart, RefreshNamed, NameRefreshes, WaitersAreServed, Refreshing
  <2>2. ASSUME NEW s \in Sessions, Read(s) PROVE TypeOK' /\ RefreshInv'
    BY <2>2, ReadTyped, ReadKeeps
  <2>3. ASSUME NEW s \in Sessions, BeginLane(s) \/ Answer(s) \/ Apply(s) \/ Leave(s)
        PROVE  TypeOK' /\ RefreshInv'
    BY <2>3, ProbeTyped, ProbeKeeps
  <2>4. ASSUME NEW s \in Sessions, Finish(s) PROVE TypeOK' /\ RefreshInv'
    BY <2>4, ProbeTyped, FinishKeeps
  <2>5. ASSUME NEW s \in Sessions,
               Cancel(s) \/ Report(s) \/ LimitError(s) \/ Observe(s) \/ Tick
        PROVE  TypeOK' /\ RefreshInv'
    BY <2>5, TurnTyped, TurnKeeps
  <2>6. CASE Tick
    BY <2>6 DEF Tick, cacheVars, readVars, turnVars, boundVars, TypeOK, RefreshInv, Held,
                CellsApart, RefreshNamed, NameRefreshes, WaitersAreServed, Refreshing
  <2> QED
    BY <2>1, <2>2, <2>3, <2>4, <2>5, <2>6 DEF Next
<1> QED
  BY <1>1, <1>2, PTL DEF Spec

\* Every variable of the cache and its readers keeps its type.
THEOREM QuotaTypeCorrect == Spec => []TypeOK
BY RefreshInvariant, PTL

\* At most one refresh per account: the entry names its only reader, and an entry
\* that is being refreshed is never dropped, so a key has one entry meanwhile.
THEOREM RefreshIsOne == Spec => []OneRefreshPerAccount
<1>1. RefreshInv => OneRefreshPerAccount
  BY DEF RefreshInv, RefreshNamed, OneRefreshPerAccount
<1> QED
  BY <1>1, RefreshInvariant, PTL

\* A waiting reader always has a refresh of its entry to wait for.
THEOREM WaitersHaveRefresh == Spec => []WaitersAreServed
<1>1. RefreshInv => WaitersAreServed
  BY DEF RefreshInv
<1> QED
  BY <1>1, RefreshInvariant, PTL

-----------------------------------------------------------------------------
(* What the operators on entries leave alone.                              *)

\* A key is looked up as what its cell holds, used now.
LEMMA EntryParts ==
  ASSUME TypeOK, NEW k \in Keys
  PROVE  LET found == IF table[k] = Nil THEN NewEntry ELSE heap[table[k]]
         IN /\ Entry(k) \in Entries
            /\ Entry(k).lastUsed = now
            /\ Entry(k).windows = found.windows /\ Entry(k).versions = found.versions
            /\ Entry(k).lanes = found.lanes
<1> DEFINE found == IF table[k] = Nil THEN NewEntry ELSE heap[table[k]]
<1>1. found \in Entries
  BY NewEntryTyped DEF TypeOK
<1>2. Entry(k) = [found EXCEPT !.lastUsed = now]
  BY DEF Entry
<1>3. Entry(k) \in Entries
  BY EntryTyped DEF TypeOK
<1> HIDE DEF found
<1>4. /\ Entry(k).lastUsed = now
      /\ Entry(k).windows = found.windows /\ Entry(k).versions = found.versions
      /\ Entry(k).lanes = found.lanes
  BY <1>1, <1>2 DEF Entries
<1> QED
  BY <1>3, <1>4 DEF found

\* A lane that backs off does not move.
BacksOffAs(f, e, l) ==
  /\ f.lanes[l].failures = e.lanes[l].failures
  /\ e.lanes[l].failures > 0 => f.lanes[l].next = e.lanes[l].next

\* A reset that passes frees only lanes that do not back off.
LEMMA UnblockedParts ==
  ASSUME TypeOK, NEW e \in Entries
  PROVE  /\ Unblocked(e).windows = e.windows /\ Unblocked(e).versions = e.versions
         /\ Unblocked(e).lastUsed = e.lastUsed
         /\ \A l \in Lanes : BacksOffAs(Unblocked(e), e, l)
         /\ \A l \in Lanes : Exhausted(e, l) => Exhausted(Unblocked(e), l)
<1> DEFINE passed == {id \in Ids : e.blocked[id] # 0 /\ now >= e.blocked[id]}
           blocked == [id \in Ids |-> IF id \in passed THEN 0 ELSE e.blocked[id]]
           lanes == [l \in Lanes |->
                       [e.lanes[l] EXCEPT !.next =
                          IF e.lanes[l].failures = 0 /\ \E id \in passed : LaneOf(id) = l
                            THEN 0 ELSE e.lanes[l].next]]
<1>1. Unblocked(e) = [e EXCEPT !.blocked = blocked, !.lanes = lanes]
  BY DEF Unblocked
<1>2. \A l \in Lanes : /\ lanes[l].failures = e.lanes[l].failures
                       /\ e.lanes[l].failures > 0 => lanes[l].next = e.lanes[l].next
  <2> HIDE DEF passed
  <2> QED
    BY DEF Entries
<1>3. \A id \in Ids : After(e.blocked[id], now) => blocked[id] = e.blocked[id]
  BY DEF After, TypeOK, Entries
<1> HIDE DEF blocked, lanes
<1>4. /\ Unblocked(e).windows = e.windows /\ Unblocked(e).versions = e.versions
      /\ Unblocked(e).lastUsed = e.lastUsed
      /\ Unblocked(e).blocked = blocked /\ Unblocked(e).lanes = lanes
  BY <1>1 DEF Entries
<1>5. \A l \in Lanes : Exhausted(e, l) => Exhausted(Unblocked(e), l)
  BY <1>3, <1>4 DEF Exhausted
<1> QED
  BY <1>2, <1>4, <1>5 DEF BacksOffAs

\* What a turn reports: a window that is read again has a version of its own, and a
\* lane that backs off does not move.
LEMMA ObservedParts ==
  ASSUME TypeOK, NEW e \in Entries, NEW w \in [Ids -> Windows], NEW x
  PROVE  /\ observed(e, w, x).lastUsed = e.lastUsed
         /\ \A l \in Lanes : BacksOffAs(observed(e, w, x), e, l)
         /\ \A id \in Ids :
              /\ e.versions[id] <= observed(e, w, x).versions[id]
              /\ \/ observed(e, w, x).windows[id].ObservedAt = e.windows[id].ObservedAt
                 \/ /\ observed(e, w, x).windows[id].ObservedAt = w[id].ObservedAt
                    /\ e.versions[id] < observed(e, w, x).versions[id]
<1> DEFINE seen    == {id \in Ids : Reported(w[id])}
           refused == IF x = None THEN {} ELSE IF x = QuotaUnknown THEN Ids ELSE {x}
           invalid == {id \in refused \ seen : ~e.dirty[id]}
           freed   == {id \in invalid : /\ Settled(e, LaneOf(id))
                                        /\ now >= e.invalidatedUntil[id]}
           In(ids, l) == {id \in ids : LaneOf(id) = l}
           windows == [id \in Ids |->
                         IF id \in seen THEN w[id]
                         ELSE IF id \in invalid /\ Reported(e.windows[id])
                           THEN [e.windows[id] EXCEPT !.RefreshAt = now]
                         ELSE e.windows[id]]
           versions == [id \in Ids |-> IF id \in seen \cup invalid THEN e.versions[id] + 1
                                       ELSE e.versions[id]]
           dirty    == [id \in Ids |-> IF id \in seen THEN FALSE
                                       ELSE e.dirty[id] \/ id \in invalid]
           blocked  == [id \in Ids |->
                          IF id \notin seen THEN e.blocked[id]
                          ELSE IF id \in refused /\ After(w[id].ResetsAt, now)
                            THEN w[id].ResetsAt
                          ELSE 0]
           until    == [id \in Ids |-> IF id \in freed THEN now + quotaTTL(id)
                                       ELSE e.invalidatedUntil[id]]
           lanes    == [l \in Lanes |->
                          [e.lanes[l] EXCEPT !.next =
                             IF In(freed, l) # {} THEN 0
                             ELSE IF In(seen, l) # {} /\ Settled(e, l)
                               THEN w[CHOOSE id \in In(seen, l) : TRUE].RefreshAt
                             ELSE e.lanes[l].next]]
<1>1. \A id \in Ids : /\ e.versions[id] <= versions[id]
                      /\ \/ windows[id].ObservedAt = e.windows[id].ObservedAt
                         \/ /\ windows[id].ObservedAt = w[id].ObservedAt
                            /\ e.versions[id] < versions[id]
  <2> HIDE DEF seen, invalid
  <2>1. \A id \in Ids : e.versions[id] \in Nat /\ e.windows[id] \in Windows
    BY DEF Entries
  <2>2. \A v \in Windows : [v EXCEPT !.RefreshAt = now].ObservedAt = v.ObservedAt
    BY DEF Windows
  <2> QED
    BY <2>1, <2>2
<1>2. \A l \in Lanes : e.lanes[l].failures > 0 => In(freed, l) = {} /\ ~Settled(e, l)
  BY DEF Settled, Entries
<1>3. \A l \in Lanes : /\ lanes[l].failures = e.lanes[l].failures
                       /\ e.lanes[l].failures > 0 => lanes[l].next = e.lanes[l].next
  <2> HIDE DEF freed, seen, In
  <2> QED
    BY <1>2 DEF Entries
<1>4. observed(e, w, x) =
        [e EXCEPT !.notAuthenticated = e.notAuthenticated /\ seen = {},
                  !.windows = windows, !.versions = versions, !.dirty = dirty,
                  !.blocked = blocked, !.invalidatedUntil = until, !.lanes = lanes]
  BY DEF observed
<1> HIDE DEF windows, versions, dirty, blocked, until, lanes, seen
<1>5. /\ observed(e, w, x).lastUsed = e.lastUsed /\ observed(e, w, x).windows = windows
      /\ observed(e, w, x).versions = versions /\ observed(e, w, x).lanes = lanes
  BY <1>4 DEF Entries
<1> QED
  BY <1>1, <1>3, <1>5 DEF BacksOffAs

LEMMA WithLaneParts ==
  ASSUME NEW e \in Entries, NEW l \in Lanes, NEW state
  PROVE  /\ WithLane(e, l, state).windows = e.windows
         /\ WithLane(e, l, state).versions = e.versions
         /\ WithLane(e, l, state).lastUsed = e.lastUsed
         /\ \A m \in Lanes :
              WithLane(e, l, state).lanes[m] = IF m = l THEN state ELSE e.lanes[m]
BY DEF WithLane, Entries

\* What an answer changes: a window nobody observed since the probe began, or, of a
\* refused credential, all of them; another lane only to postpone it for six hours.
LEMMA AppliedParts ==
  ASSUME TypeOK, NEW e \in Entries, NEW l \in Lanes, NEW res \in Results, NEW versions
  PROVE  LET f == applyProbe(e, l, res, versions)
         IN /\ f.versions = e.versions /\ f.lastUsed = e.lastUsed
            /\ \A id \in Ids :
                 \/ f.windows[id] = e.windows[id] \/ f.windows[id] = NoWindow
                 \/ /\ f.windows[id] = res.windows[id]
                    /\ Reported(res.windows[id]) /\ Unchanged(e, id, versions)
            /\ \A m \in Lanes \ {l} :
                 /\ f.lanes[m].failures = e.lanes[m].failures
                 /\ f.lanes[m].next = e.lanes[m].next \/ f.lanes[m].next >= now + LongTTL
            /\ res.kind = "error" =>
                 /\ f.lanes[l].failures > 0
                 /\ f.lanes[l].next >= now + Backoff[Sooner(f.lanes[l].failures, 3)]
<1>1. CASE res.kind = "error"
  <2> DEFINE failures == e.lanes[l].failures + 1
             backoff  == Backoff[Sooner(failures, 3)]
             next     == Later(now + backoff, res.retry)
             state    == [next |-> next, failures |-> failures, err |-> TRUE]
  <2>1. failures \in Nat /\ failures > 0 /\ backoff \in Nat /\ res.retry \in Nat
    BY DurationTypes DEF Entries, Results
  <2>2. next >= now + backoff
    BY <2>1 DEF Later, After, TypeOK
  <2>3. applyProbe(e, l, res, versions) = WithLane(e, l, state)
    BY <1>1 DEF applyProbe, BackedOff
  <2>4. state.next = next /\ state.failures = failures
    OBVIOUS
  <2> HIDE DEF next, state
  <2>5. WithLane(e, l, state).lanes[l] = state
    BY WithLaneParts
  <2> HIDE DEF failures
  <2> QED
    BY <2>1, <2>2, <2>3, <2>4, <2>5, WithLaneParts
<1>2. CASE res.kind # "error"
  <2> DEFINE refused == res.kind = "unauthenticated"
             ttl     == IF res.kind = "windows" THEN LaneTTL(l) ELSE LongTTL
             start   == Later(now + ttl, res.retry)
             before  == e.lanes[l].next
             n1 == NextAfter(start, QuotaSession, e, l, res, versions, before)
             n2 == NextAfter(n1, QuotaWeekly, e, l, res, versions, before)
             n3 == NextAfter(n2, QuotaFable, e, l, res, versions, before)
             next    == Later(n3, res.retry)
             stored  == {id \in Probed(l, res) : Unchanged(e, id, versions)}
             windows == [id \in Ids |-> IF id \in stored THEN res.windows[id]
                                        ELSE IF refused THEN NoWindow ELSE e.windows[id]]
             dirty   == [id \in Ids |-> e.dirty[id] /\ id \notin stored]
             blocked == [id \in Ids |->
                           IF id \notin stored THEN e.blocked[id]
                           ELSE IF res.exhausted = id /\ After(res.windows[id].ResetsAt, now)
                             THEN res.windows[id].ResetsAt
                           ELSE 0]
             lanes == [m \in Lanes |->
                         IF m = l THEN [next |-> next, failures |-> 0, err |-> FALSE]
                         ELSE IF refused THEN [e.lanes[m] EXCEPT !.next = start, !.err = FALSE]
                         ELSE e.lanes[m]]
  <2>1. refused => start >= now + LongTTL
    BY DurationTypes DEF Later, After, TypeOK, Results
  <2>2. applyProbe(e, l, res, versions) =
          [e EXCEPT !.notAuthenticated = refused, !.windows = windows, !.dirty = dirty,
                    !.blocked = blocked, !.lanes = lanes]
    BY <1>2 DEF applyProbe, Refreshed
  <2>3. \A id \in stored : Reported(res.windows[id]) /\ Unchanged(e, id, versions)
    BY DEF Probed
  <2> HIDE DEF start, next, stored, refused
  <2>4. \A m \in Lanes \ {l} :
          /\ lanes[m].failures = e.lanes[m].failures
          /\ lanes[m].next = e.lanes[m].next \/ lanes[m].next >= now + LongTTL
    BY <2>1 DEF Entries
  <2>5. \A id \in Ids : \/ windows[id] = e.windows[id] \/ windows[id] = NoWindow
                        \/ windows[id] = res.windows[id] /\ id \in stored
    OBVIOUS
  <2> HIDE DEF windows, dirty, blocked, lanes
  <2> DEFINE f == applyProbe(e, l, res, versions)
  <2>6. /\ f.versions = e.versions /\ f.lastUsed = e.lastUsed
        /\ f.windows = windows /\ f.lanes = lanes
    BY <2>2 DEF Entries
  <2> QED
    BY <1>2, <2>3, <2>4, <2>5, <2>6
<1> QED
  BY <1>1, <1>2

-----------------------------------------------------------------------------
(* Probes.                                                                 *)

\* A probe starts in BeginLane, of a lane that is due after due's own clean-up.
LEMMA ProbeStartsDue ==
  ASSUME TypeOK, RefreshInv, [Next]_vars, NEW s \in Sessions, ProbeStarts(s)
  PROVE  /\ s \in Refreshing /\ at[s] \in Slots /\ lane[s] \in Lanes
         /\ IsDue(Unblocked(heap[at[s]]), lane[s])
<1>1. pc[s] = "lane" /\ pc'[s] = "probing"
  BY DEF ProbeStarts
<1>2. s \in Refreshing /\ at[s] \in Slots
  BY <1>1 DEF Refreshing, RefreshInv, Held, TypeOK
<1>3. BeginLane(s)
  <2>1. pc' # pc
    BY <1>1
  <2>2. PICK r \in Sessions :
          \/ Read(r) \/ BeginLane(r) \/ Answer(r) \/ Apply(r) \/ Finish(r) \/ Leave(r)
    BY <2>1 DEF Next, vars, readVars, Tick, Cancel, Report, LimitError, Observe
  <2>3. r = s
    BY <1>1, <2>2 DEF TypeOK, Read, Join, Cached, Refresh, readVars, BeginLane, Answer,
                      Apply, Finish, Leave, Released
  <2>4. ~Read(s) /\ ~Answer(s) /\ ~Apply(s) /\ ~Leave(s)
    BY <1>1 DEF Read, Answer, Apply, Leave
  <2>5. ~Finish(s)
    BY <1>1 DEF Finish, TypeOK
  <2> QED
    BY <2>2, <2>3, <2>4, <2>5
<1>4. StillDue(s, IF due[s][lane[s]] THEN Unblocked(heap[at[s]]) ELSE heap[at[s]])
  BY <1>1, <1>3 DEF BeginLane
<1> QED
  BY <1>2, <1>3, <1>4 DEF StillDue, BeginLane

\* No probe is spent on a window that is known to be exhausted until its reset: due
\* is asked again before each lane, and it forgets only resets that have passed.
THEOREM NoProbeWhileExhausted == Spec => ExhaustionSuppresses
<1>1. TypeOK /\ RefreshInv /\ [Next]_vars =>
        \A s \in Sessions : ProbeStarts(s) => ~Exhausted(heap[at[s]], lane[s])
  <2> SUFFICES ASSUME TypeOK, RefreshInv, [Next]_vars, NEW s \in Sessions, ProbeStarts(s)
               PROVE  ~Exhausted(heap[at[s]], lane[s])
    OBVIOUS
  <2>1. /\ heap[at[s]] \in Entries /\ lane[s] \in Lanes
        /\ IsDue(Unblocked(heap[at[s]]), lane[s])
    BY ProbeStartsDue DEF TypeOK
  <2> QED
    BY <2>1, UnblockedParts DEF IsDue
<1>2. TypeOK /\ RefreshInv /\ [Next]_vars =>
        [\A s \in Sessions : ProbeStarts(s) => ~Exhausted(heap[at[s]], lane[s])]_vars
  BY <1>1
<1> QED
  BY <1>2, RefreshInvariant, PTL DEF Spec, ExhaustionSuppresses

-----------------------------------------------------------------------------
(* Readings.                                                               *)

\* Nothing was used, reported or answered later than now.
Past ==
  /\ \A e \in Slots : /\ heap[e].lastUsed <= now
                      /\ \A id \in Ids : heap[e].windows[id].ObservedAt <= now
  /\ \A s \in Sessions, id \in Ids : /\ pending[s].windows[id].ObservedAt <= now
                                     /\ result[s].windows[id].ObservedAt <= now

\* Versions only grow while a probe is under way, and a window that has the version
\* it was sampled with holds no reading newer than the answer.
Sampling ==
  \A s \in Sessions : pc[s] \in {"probing", "applying"} =>
    \A id \in Ids :
      /\ sampled[s][id] <= heap[at[s]].versions[id]
      /\ pc[s] = "applying" /\ Reported(result[s].windows[id])
         /\ Unchanged(heap[at[s]], id, sampled[s]) =>
           heap[at[s]].windows[id].ObservedAt <= result[s].windows[id].ObservedAt

ReadingInv == Past /\ Sampling

PastEntry(e) == e.lastUsed <= now /\ \A id \in Ids : e.windows[id].ObservedAt <= now

LEMMA PastEntries ==
  ASSUME TypeOK, Past, NEW k \in Keys
  PROVE  PastEntry(Entry(k))
<1>1. NewEntry \in Entries /\ \A id \in Ids : NewEntry.windows[id].ObservedAt = 0
  BY NewEntryTyped DEF NewEntry, NoWindow
<1>2. table[k] # Nil => table[k] \in Slots
  BY DEF TypeOK
<1> QED
  BY <1>1, <1>2, EntryParts DEF Past, PastEntry, TypeOK

\* One cell is written, the others and what readers wait for stay.
LEMMA PastCell ==
  ASSUME TypeOK, Past, NEW e \in Slots, NEW x, heap' = [heap EXCEPT ![e] = x],
         PastEntry(x), now' = now,
         \A s \in Sessions, id \in Ids :
           /\ pending'[s].windows[id].ObservedAt <= now
           /\ result'[s].windows[id].ObservedAt <= now
  PROVE  Past'
BY DEF Past, PastEntry, TypeOK

LEMMA ObservedNow ==
  ASSUME NEW ids, now \in Nat, NEW reset, NEW id \in Ids
  PROVE  /\ WindowsOf(ids, now, reset)[id].ObservedAt <= now
         /\ id \in ids => WindowsOf(ids, now, reset)[id].ObservedAt = now
         /\ id \notin ids => WindowsOf(ids, now, reset)[id].ObservedAt = 0
BY DEF WindowsOf, quotaWindow, NoWindow

\* A window an answer reports was read when it was answered.
LEMMA AnswersNow ==
  ASSUME now \in Nat, NEW l \in Lanes, NEW res \in Answers(l), NEW id \in Ids
  PROVE  res.windows[id].ObservedAt \in {0, now}
<1>1. NoResult.windows[id].ObservedAt = 0
  BY DEF NoResult, NoWindow
<1> DEFINE ids   == IF l = 1 THEN Ids ELSE Ids \ {QuotaFable}
           until == {IF d = 0 THEN 0 ELSE now + d : d \in Retries}
<1>2. CASE res \in [kind : Outcomes \ {"windows"}, windows : {NoResult.windows},
                    exhausted : {None}, retry : until]
  <2>1. res.windows = NoResult.windows
    BY <1>2
  <2> QED
    BY <1>1, <2>1
<1>3. ASSUME NEW seen \in (Readings \cap SUBSET ids) \ {{}},
             res \in [kind : Outcomes \cap {"windows"}, exhausted : seen \cup {None},
                      retry : until,
                      windows : {WindowsOf(seen, now, reset) : reset \in Resets}]
      PROVE  res.windows[id].ObservedAt \in {0, now}
  <2>1. PICK reset \in Resets : res.windows = WindowsOf(seen, now, reset)
    BY <1>3
  <2> QED
    BY <2>1, ObservedNow
<1> QED
  BY <1>2, <1>3 DEF Answers

LEMMA InitReading == Init => ReadingInv
<1> SUFFICES ASSUME Init PROVE ReadingInv
  OBVIOUS
<1>1. /\ NewEntry.lastUsed = 0 /\ \A id \in Ids : NewEntry.windows[id].ObservedAt = 0
  BY DEF NewEntry, NoWindow
<1>2. \A id \in Ids : /\ NoReport.windows[id].ObservedAt = 0
                      /\ NoResult.windows[id].ObservedAt = 0
  BY DEF NoReport, NoResult, NoWindow
<1>3. Past
  BY <1>1, <1>2 DEF Init, Past
<1>4. Sampling
  BY DEF Init, Sampling
<1> QED
  BY <1>3, <1>4 DEF ReadingInv

\* A lookup leaves the cell of every reader that probes, or rewrites it with what
\* the lookup found.
LEMMA LookupReading ==
  ASSUME TypeOK, RefreshInv, ReadingInv, NEW k \in Keys, NEW e \in Slots, Enters(k, e),
         NEW x, heap' = [heap EXCEPT ![e] = x], PastEntry(x),
         \A id \in Ids :
           /\ Entry(k).versions[id] <= x.versions[id]
           /\ \/ x.windows[id].ObservedAt = Entry(k).windows[id].ObservedAt
              \/ Entry(k).versions[id] < x.versions[id],
         x \in Entries,
         UNCHANGED <<sampled, result>>,
         \A s \in Sessions : pc'[s] \in {"probing", "applying"} =>
                               pc'[s] = pc[s] /\ at'[s] = at[s]
  PROVE  Sampling'
<1> SUFFICES ASSUME NEW s \in Sessions, pc'[s] \in {"probing", "applying"}, NEW id \in Ids
             PROVE  /\ sampled[s][id] <= heap'[at[s]].versions[id]
                    /\ pc[s] = "applying" /\ Reported(result[s].windows[id])
                       /\ Unchanged(heap'[at[s]], id, sampled[s]) =>
                         heap'[at[s]].windows[id].ObservedAt <= result[s].windows[id].ObservedAt
  BY DEF Sampling, Unchanged
<1>1. /\ pc[s] \in {"probing", "applying"} /\ at[s] \in Slots /\ heap[at[s]] \in Entries
      /\ sampled[s][id] \in Nat
  BY DEF RefreshInv, Held, TypeOK
<1>2. /\ sampled[s][id] <= heap[at[s]].versions[id]
      /\ pc[s] = "applying" /\ Reported(result[s].windows[id])
         /\ Unchanged(heap[at[s]], id, sampled[s]) =>
           heap[at[s]].windows[id].ObservedAt <= result[s].windows[id].ObservedAt
  BY <1>1 DEF ReadingInv, Sampling
<1>3. CASE at[s] # e
  BY <1>1, <1>2, <1>3 DEF TypeOK
<1>4. CASE at[s] = e
  <2>1. table[k] = e
    BY <1>4, EntersKeeps
  <2>2. Entry(k).windows = heap[e].windows /\ Entry(k).versions = heap[e].versions
    BY <1>1, <1>4, <2>1, EntryParts, ActorsAssumption
  <2>3. heap'[e] = x
    BY DEF TypeOK
  <2>4. /\ heap[e].versions[id] \in Nat /\ x.versions[id] \in Nat
        /\ heap[e].versions[id] <= x.versions[id]
        /\ \/ x.windows[id].ObservedAt = heap[e].windows[id].ObservedAt
           \/ heap[e].versions[id] < x.versions[id]
    BY <1>1, <1>4, <2>2 DEF Entries
  <2>5. sampled[s][id] <= x.versions[id]
    BY <1>1, <1>2, <1>4, <2>4
  <2>6. x.versions[id] = sampled[s][id] =>
          /\ heap[e].versions[id] = sampled[s][id]
          /\ x.windows[id].ObservedAt = heap[e].windows[id].ObservedAt
    BY <1>1, <1>2, <1>4, <2>4
  <2> QED
    BY <1>2, <1>4, <2>3, <2>5, <2>6 DEF Unchanged
<1> QED
  BY <1>3, <1>4

LEMMA ReadReading ==
  ASSUME TypeOK, RefreshInv, ReadingInv, NEW s \in Sessions, Read(s)
  PROVE  ReadingInv'
<1> PICK e \in Slots : /\ Enters(Account[s], e)
                       /\ Join(s, e) \/ Cached(s, e) \/ Refresh(s, e)
  BY DEF Read
<1> DEFINE k     == Account[s]
           found == Entry(k)
<1>1. k \in Keys /\ pc[s] = "idle" /\ now' = now /\ pending' = pending
  BY AccountTyped DEF Read
<1>2. found \in Entries /\ PastEntry(found)
  BY <1>1, EntryParts, PastEntries DEF ReadingInv
<1>3. /\ Unblocked(found) \in Entries
      /\ Unblocked(found).windows = found.windows /\ Unblocked(found).versions = found.versions
      /\ Unblocked(found).lastUsed = found.lastUsed
  BY <1>2, UnblockedParts, UnblockedTyped DEF TypeOK
<1>4. UNCHANGED <<sampled, result>>
  BY DEF Join, Cached, Refresh, readVars
<1>5. \A r \in Sessions : pc'[r] \in {"probing", "applying"} => pc'[r] = pc[r] /\ at'[r] = at[r]
  BY <1>1 DEF Join, Cached, Refresh, readVars, TypeOK
<1> HIDE DEF found
<1>6. PICK x \in Entries : /\ heap' = [heap EXCEPT ![e] = x]
                           /\ x.windows = found.windows /\ x.versions = found.versions
                           /\ x.lastUsed = found.lastUsed
  <2>1. CASE Join(s, e)
    BY <1>2, <2>1 DEF Join, found
  <2>2. CASE Cached(s, e)
    BY <1>3, <2>2 DEF Cached, found
  <2>3. CASE Refresh(s, e)
    <3>1. heap' = [heap EXCEPT ![e] = [Unblocked(found) EXCEPT !.running = s]]
      BY <2>3 DEF Refresh, found
    <3>2. /\ [Unblocked(found) EXCEPT !.running = s] \in Entries
          /\ [Unblocked(found) EXCEPT !.running = s].windows = found.windows
          /\ [Unblocked(found) EXCEPT !.running = s].versions = found.versions
          /\ [Unblocked(found) EXCEPT !.running = s].lastUsed = found.lastUsed
      BY <1>3 DEF Entries
    <3> QED
      BY <3>1, <3>2
  <2> QED
    BY <2>1, <2>2, <2>3
<1>7. PastEntry(x)
  BY <1>2, <1>6 DEF PastEntry
<1>8. Past'
  BY <1>1, <1>4, <1>6, <1>7, PastCell DEF ReadingInv, Past
<1>9. \A id \in Ids : /\ Entry(k).versions[id] <= x.versions[id]
                      /\ x.windows[id].ObservedAt = Entry(k).windows[id].ObservedAt
  BY <1>2, <1>6 DEF Entries, found
<1> QED
  BY <1>1, <1>4, <1>5, <1>6, <1>7, <1>8, <1>9, LookupReading DEF ReadingInv

LEMMA ObserveReading ==
  ASSUME TypeOK, RefreshInv, ReadingInv, NEW s \in Sessions, Observe(s)
  PROVE  ReadingInv'
<1> DEFINE found == Entry(Account[s])
           w     == pending[s].windows
           x     == observed(found, w, pending[s].exhausted)
<1> PICK e \in Slots : Enters(Account[s], e) /\ heap' = [heap EXCEPT ![e] = x]
  BY DEF Observe
<1>1. /\ Account[s] \in Keys /\ found \in Entries /\ PastEntry(found)
      /\ w \in [Ids -> Windows] /\ \A id \in Ids : w[id].ObservedAt <= now
  BY AccountTyped, EntryParts, PastEntries DEF ReadingInv, Past, TypeOK
<1>2. /\ UNCHANGED <<now, pc, at, sampled, result>>
      /\ pending' = [pending EXCEPT ![s] = NoReport]
  BY DEF Observe, readVars
<1>3. x \in Entries
  BY <1>1, ObservedTyped DEF TypeOK
<1> HIDE DEF found
<1>4. /\ x.lastUsed = found.lastUsed
      /\ \A id \in Ids :
           /\ found.versions[id] <= x.versions[id]
           /\ \/ x.windows[id].ObservedAt = found.windows[id].ObservedAt
              \/ /\ x.windows[id].ObservedAt = w[id].ObservedAt
                 /\ found.versions[id] < x.versions[id]
  BY <1>1, ObservedParts
<1> HIDE DEF x
<1>5. PastEntry(x)
  BY <1>1, <1>4 DEF PastEntry
<1>6. \A r \in Sessions, id \in Ids : pending'[r].windows[id].ObservedAt <= now
  BY <1>2 DEF ReadingInv, Past, NoReport, NoWindow, TypeOK
<1>7. Past'
  BY <1>2, <1>5, <1>6, PastCell DEF ReadingInv, Past
<1>8. \A id \in Ids : /\ Entry(Account[s]).versions[id] <= x.versions[id]
                      /\ \/ x.windows[id].ObservedAt = Entry(Account[s]).windows[id].ObservedAt
                         \/ Entry(Account[s]).versions[id] < x.versions[id]
  BY <1>4 DEF found
<1> QED
  BY <1>1, <1>2, <1>3, <1>5, <1>7, <1>8, LookupReading DEF ReadingInv

\* A cell is written by the one reader that refreshes it.
LEMMA OwnCell ==
  ASSUME RefreshInv, NEW r \in Refreshing, NEW s \in Refreshing, at[r] = at[s]
  PROVE  r = s
BY DEF RefreshInv, RefreshNamed

LEMMA BeginReading ==
  ASSUME TypeOK, RefreshInv, ReadingInv, NEW s \in Sessions, BeginLane(s)
  PROVE  ReadingInv'
<1> DEFINE x == IF due[s][lane[s]] THEN Unblocked(heap[at[s]]) ELSE heap[at[s]]
<1>1. /\ s \in Refreshing /\ pc[s] = "lane" /\ at[s] \in Slots /\ heap[at[s]] \in Entries
  BY DEF BeginLane, Refreshing, RefreshInv, Held, TypeOK
<1>2. /\ x \in Entries /\ x.windows = heap[at[s]].windows /\ x.versions = heap[at[s]].versions
      /\ x.lastUsed = heap[at[s]].lastUsed
  BY <1>1, UnblockedParts, UnblockedTyped DEF TypeOK
<1>3. /\ heap' = [heap EXCEPT ![at[s]] = x] /\ UNCHANGED <<now, at, pending, result>>
      /\ \A r \in Sessions \ {s} : pc'[r] = pc[r] /\ sampled'[r] = sampled[r]
      /\ pc'[s] = "probing" => sampled'[s] = x.versions
      /\ pc'[s] # "applying"
  BY <1>1 DEF BeginLane, turnVars, TypeOK
<1> HIDE DEF x
<1>4. PastEntry(x)
  BY <1>1, <1>2 DEF ReadingInv, Past, PastEntry
<1>5. Past'
  BY <1>1, <1>3, <1>4, PastCell DEF ReadingInv, Past
<1>6. ASSUME NEW r \in Sessions, pc'[r] \in {"probing", "applying"}, NEW id \in Ids
      PROVE  /\ sampled'[r][id] <= heap'[at[r]].versions[id]
             /\ pc'[r] = "applying" /\ Reported(result[r].windows[id])
                /\ Unchanged(heap'[at[r]], id, sampled'[r]) =>
                  heap'[at[r]].windows[id].ObservedAt <= result[r].windows[id].ObservedAt
  <2>1. CASE r = s
    BY <1>1, <1>2, <1>3, <1>6, <2>1 DEF Entries, TypeOK
  <2>2. CASE r # s
    <3>1. r \in Refreshing /\ pc[r] \in {"probing", "applying"} /\ at[r] # at[s]
      BY <1>1, <1>3, <1>6, <2>2, OwnCell DEF Refreshing
    <3>2. heap'[at[r]] = heap[at[r]]
      BY <1>3, <3>1 DEF RefreshInv, Held, TypeOK
    <3> QED
      BY <1>3, <2>2, <3>1, <3>2 DEF ReadingInv, Sampling
  <2> QED
    BY <2>1, <2>2
<1> QED
  BY <1>3, <1>5, <1>6 DEF ReadingInv, Sampling, Unchanged

LEMMA AnswerReading ==
  ASSUME TypeOK, RefreshInv, ReadingInv, NEW s \in Sessions, Answer(s)
  PROVE  ReadingInv'
<1>1. pc[s] = "probing" /\ lane[s] \in Lanes /\ at[s] \in Slots /\ now \in Nat
  BY DEF Answer, RefreshInv, Held, TypeOK
<1>2. PICK res \in Answers(lane[s]) : result' = [result EXCEPT ![s] = res]
  BY DEF Answer
<1>3. \A id \in Ids : res.windows[id].ObservedAt \in {0, now}
  BY <1>1, AnswersNow
<1>4. /\ pc' = [pc EXCEPT ![s] = "applying"]
      /\ UNCHANGED <<now, heap, at, sampled, pending>>
  BY DEF Answer, cacheVars, turnVars
<1>5. \A r \in Sessions : result'[r] = IF r = s THEN res ELSE result[r]
  BY <1>2 DEF TypeOK
<1>6. Past'
  BY <1>1, <1>3, <1>4, <1>5 DEF ReadingInv, Past
<1>7. ASSUME NEW r \in Sessions, pc'[r] \in {"probing", "applying"}, NEW id \in Ids
      PROVE  /\ sampled[r][id] <= heap[at[r]].versions[id]
             /\ pc'[r] = "applying" /\ Reported(result'[r].windows[id])
                /\ Unchanged(heap[at[r]], id, sampled[r]) =>
                  heap[at[r]].windows[id].ObservedAt <= result'[r].windows[id].ObservedAt
  <2>1. pc[r] \in {"probing", "applying"} /\ (r # s => pc'[r] = pc[r])
    BY <1>1, <1>4, <1>7 DEF TypeOK
  <2>2. sampled[r][id] <= heap[at[r]].versions[id]
    BY <2>1 DEF ReadingInv, Sampling
  <2>3. CASE r = s
    BY <1>1, <1>3, <1>5, <2>2, <2>3 DEF ReadingInv, Past, Reported
  <2>4. CASE r # s
    BY <1>5, <2>1, <2>2, <2>4 DEF ReadingInv, Sampling
  <2> QED
    BY <2>3, <2>4
<1> QED
  BY <1>4, <1>6, <1>7 DEF ReadingInv, Sampling, Unchanged

LEMMA ApplyReading ==
  ASSUME TypeOK, RefreshInv, ReadingInv, NEW s \in Sessions, Apply(s)
  PROVE  /\ ReadingInv'
         /\ \A id \in Ids :
              Reported(heap'[at[s]].windows[id]) =>
                heap'[at[s]].windows[id].ObservedAt >= heap[at[s]].windows[id].ObservedAt
<1> DEFINE e == heap[at[s]]
           x == applyProbe(e, lane[s], result[s], sampled[s])
<1>1. /\ s \in Refreshing /\ pc[s] = "applying" /\ at[s] \in Slots /\ lane[s] \in Lanes
      /\ e \in Entries /\ result[s] \in Results
  BY DEF Apply, Refreshing, RefreshInv, Held, TypeOK
<1>2. /\ x.versions = e.versions /\ x.lastUsed = e.lastUsed
      /\ \A id \in Ids :
           \/ x.windows[id] = e.windows[id] \/ x.windows[id] = NoWindow
           \/ /\ x.windows[id] = result[s].windows[id]
              /\ Reported(result[s].windows[id]) /\ Unchanged(e, id, sampled[s])
  BY <1>1, AppliedParts
<1>3. /\ heap' = [heap EXCEPT ![at[s]] = x] /\ UNCHANGED <<now, at, pending>>
      /\ pc' = [pc EXCEPT ![s] = "lane"]
      /\ sampled' = [sampled EXCEPT ![s] = NoVersion]
      /\ result' = [result EXCEPT ![s] = NoResult]
  BY DEF Apply, turnVars
<1> HIDE DEF x
<1>4. NoWindow.ObservedAt = 0 /\ \A id \in Ids : NoResult.windows[id].ObservedAt = 0
  BY DEF NoWindow, NoResult
<1>5. /\ e.lastUsed <= now
      /\ \A id \in Ids : /\ e.windows[id].ObservedAt <= now
                         /\ result[s].windows[id].ObservedAt <= now
                         /\ e.windows[id].ObservedAt \in Nat
  BY <1>1 DEF ReadingInv, Past, Entries, Windows
<1>6. PastEntry(x)
  <2>1. 0 <= now
    BY DEF TypeOK
  <2>2. \A id \in Ids : x.windows[id].ObservedAt <= now
    <3> SUFFICES ASSUME NEW id \in Ids
                 PROVE  x.windows[id].ObservedAt <= now
      OBVIOUS
    <3> HIDE DEF e
    <3> QED
      BY <1>2, <1>4, <1>5, <2>1
  <2> QED
    BY <1>2, <1>5, <2>2 DEF PastEntry
<1>7. \A r \in Sessions, id \in Ids : result'[r].windows[id].ObservedAt <= now
  BY <1>3, <1>4 DEF ReadingInv, Past, TypeOK
<1>8. Past'
  BY <1>1, <1>3, <1>6, <1>7, PastCell DEF ReadingInv, Past
<1>9. ASSUME NEW r \in Sessions, pc'[r] \in {"probing", "applying"}, NEW id \in Ids
      PROVE  /\ sampled'[r][id] <= heap'[at[r]].versions[id]
             /\ pc'[r] = "applying" /\ Reported(result'[r].windows[id])
                /\ Unchanged(heap'[at[r]], id, sampled'[r]) =>
                  heap'[at[r]].windows[id].ObservedAt <= result'[r].windows[id].ObservedAt
  <2>1. r # s /\ pc'[r] = pc[r] /\ sampled'[r] = sampled[r] /\ result'[r] = result[r]
    BY <1>1, <1>3, <1>9 DEF TypeOK
  <2>2. r \in Refreshing /\ at[r] # at[s] /\ at[r] \in Slots
    BY <1>1, <1>9, <2>1, OwnCell DEF Refreshing, RefreshInv, Held, TypeOK
  <2>3. heap'[at[r]] = heap[at[r]]
    BY <1>3, <2>2 DEF TypeOK
  <2> QED
    BY <1>9, <2>1, <2>3 DEF ReadingInv, Sampling
<1>10. ReadingInv'
  BY <1>3, <1>8, <1>9 DEF ReadingInv, Sampling, Unchanged
<1>11. ASSUME NEW id \in Ids, Reported(heap'[at[s]].windows[id])
       PROVE  heap'[at[s]].windows[id].ObservedAt >= e.windows[id].ObservedAt
  <2>1. heap'[at[s]] = x
    BY <1>1, <1>3 DEF TypeOK
  <2>2. x.windows[id] # NoWindow
    BY <1>4, <1>11, <2>1 DEF Reported
  <2>3. CASE x.windows[id] = e.windows[id]
    BY <1>5, <2>1, <2>3
  <2>4. CASE /\ x.windows[id] = result[s].windows[id]
             /\ Reported(result[s].windows[id]) /\ Unchanged(e, id, sampled[s])
    <3>1. e.windows[id].ObservedAt <= result[s].windows[id].ObservedAt
      BY <1>1, <2>4 DEF ReadingInv, Sampling
    <3>2. result[s].windows[id].ObservedAt \in Nat
      BY <1>1 DEF Results, Windows
    <3> QED
      BY <1>5, <2>1, <2>4, <3>1, <3>2
  <2> QED
    BY <1>2, <2>2, <2>3, <2>4
<1> QED
  BY <1>10, <1>11

LEMMA FinishReading ==
  ASSUME TypeOK, RefreshInv, ReadingInv, NEW s \in Sessions, Finish(s)
  PROVE  ReadingInv'
<1> DEFINE x == [heap[at[s]] EXCEPT !.running = None]
<1>1. /\ s \in Refreshing /\ at[s] \in Slots /\ heap[at[s]] \in Entries
  BY DEF Finish, Refreshing, RefreshInv, Held, TypeOK
<1>2. /\ x.windows = heap[at[s]].windows /\ x.lastUsed = heap[at[s]].lastUsed
      /\ heap' = [heap EXCEPT ![at[s]] = x]
      /\ UNCHANGED <<now, pending, result, sampled>>
  BY <1>1 DEF Finish, turnVars, Entries
<1>3. \A r \in Sessions : pc'[r] \in {"probing", "applying"} =>
                            r # s /\ pc'[r] = pc[r] /\ at'[r] = at[r]
  BY DEF Finish, Forget, TypeOK
<1> HIDE DEF x
<1>4. PastEntry(x)
  BY <1>1, <1>2 DEF ReadingInv, Past, PastEntry
<1>5. Past'
  BY <1>1, <1>2, <1>4, PastCell DEF ReadingInv, Past
<1>6. \A r \in Sessions : pc'[r] \in {"probing", "applying"} => heap'[at[r]] = heap[at[r]]
  <2> SUFFICES ASSUME NEW r \in Sessions, pc'[r] \in {"probing", "applying"}
               PROVE  heap'[at[r]] = heap[at[r]]
    OBVIOUS
  <2>1. r \in Refreshing /\ at[r] # at[s] /\ at[r] \in Slots
    BY <1>1, <1>3, OwnCell DEF Refreshing, RefreshInv, Held, TypeOK
  <2> QED
    BY <1>2, <2>1 DEF TypeOK
<1>7. Sampling'
  BY <1>2, <1>3, <1>6 DEF ReadingInv, Sampling, Unchanged
<1> QED
  BY <1>5, <1>7 DEF ReadingInv

LEMMA TurnReading ==
  ASSUME TypeOK, RefreshInv, ReadingInv, NEW s \in Sessions,
         Leave(s) \/ Cancel(s) \/ Report(s) \/ LimitError(s)
  PROVE  ReadingInv'
<1>1. UNCHANGED <<now, heap, sampled, result>>
  BY DEF Leave, Cancel, Report, LimitError, cacheVars, readVars
<1>2. \A r \in Sessions : pc'[r] \in {"probing", "applying"} => pc'[r] = pc[r] /\ at'[r] = at[r]
  BY DEF Leave, Forget, Cancel, Report, LimitError, readVars, TypeOK
<1>3. Sampling'
  BY <1>1, <1>2 DEF ReadingInv, Sampling, Unchanged
<1>4. \A r \in Sessions, id \in Ids : pending'[r].windows[id].ObservedAt <= now
  <2>1. CASE Leave(s) \/ Cancel(s)
    BY <2>1 DEF ReadingInv, Past, Leave, Cancel, turnVars
  <2>2. CASE LimitError(s)
    BY <2>2 DEF ReadingInv, Past, LimitError, TypeOK
  <2>3. CASE Report(s)
    <3>1. PICK seen \in Readings, reset \in Resets, x \in Ids \cup {QuotaUnknown, None} :
                 pending' = [pending EXCEPT ![s] = [windows |-> WindowsOf(seen, now, reset),
                                                    exhausted |-> x]]
      BY <2>3 DEF Report
    <3>2. \A id \in Ids : WindowsOf(seen, now, reset)[id].ObservedAt <= now
      BY ObservedNow DEF TypeOK
    <3> QED
      BY <3>1, <3>2 DEF ReadingInv, Past, TypeOK
  <2> QED
    BY <2>1, <2>2, <2>3
<1> QED
  BY <1>1, <1>3, <1>4 DEF ReadingInv, Past

LEMMA TickReading ==
  ASSUME TypeOK, ReadingInv, Tick
  PROVE  ReadingInv'
<1>1. now' = now + 1 /\ UNCHANGED <<heap, pc, at, sampled, result, pending>>
  BY DEF Tick, cacheVars, readVars, turnVars
<1>2. Sampling'
  BY <1>1 DEF ReadingInv, Sampling, Unchanged
<1>3. /\ \A e \in Slots : heap[e] \in Entries
      /\ \A s \in Sessions : result[s] \in Results /\ pending[s].windows \in [Ids -> Windows]
  BY DEF TypeOK
<1>4. Past'
  BY <1>1, <1>3 DEF ReadingInv, Past, TypeOK, Entries, Results, Windows
<1> QED
  BY <1>2, <1>4 DEF ReadingInv

LEMMA ReadingInvariant == Spec => []ReadingInv
<1>1. TypeOK /\ RefreshInv /\ ReadingInv /\ [Next]_vars => ReadingInv'
  <2> SUFFICES ASSUME TypeOK, RefreshInv, ReadingInv, [Next]_vars
               PROVE  ReadingInv'
    OBVIOUS
  <2>1. CASE UNCHANGED vars
    BY <2>1 DEF vars, cacheVars, readVars, turnVars, ReadingInv, Past, Sampling, Unchanged
  <2>2. CASE Next
    BY <2>2, ReadReading, ObserveReading, BeginReading, AnswerReading, ApplyReading,
       FinishReading, TurnReading, TickReading DEF Next
  <2> QED
    BY <2>1, <2>2
<1> QED
  BY <1>1, InitReading, RefreshInvariant, PTL DEF Spec

\* An answer never puts a reading over a newer one: whatever was observed of a window
\* since its version was sampled has moved that version, so applyProbe keeps it.
THEOREM NewerReadingStays == Spec => NewerReadingWins
<1> DEFINE Wins ==
      \A s \in Sessions, id \in Ids :
        pc[s] = "applying" /\ pc'[s] = "lane" /\ Reported(heap'[at[s]].windows[id]) =>
          heap'[at[s]].windows[id].ObservedAt >= heap[at[s]].windows[id].ObservedAt
<1>1. TypeOK /\ RefreshInv /\ ReadingInv /\ [Next]_vars => [Wins]_vars
  <2> SUFFICES ASSUME TypeOK, RefreshInv, ReadingInv, Next, NEW s \in Sessions,
                      pc[s] = "applying", pc'[s] = "lane"
               PROVE  Apply(s)
    BY ApplyReading
  <2>1. pc' # pc
    OBVIOUS
  <2>2. PICK r \in Sessions :
          \/ Read(r) \/ BeginLane(r) \/ Answer(r) \/ Apply(r) \/ Finish(r) \/ Leave(r)
    BY <2>1 DEF Next, readVars, Tick, Cancel, Report, LimitError, Observe
  <2>3. r = s
    BY <2>2 DEF TypeOK, Read, Join, Cached, Refresh, readVars, BeginLane, Answer,
                Apply, Finish, Leave, Released
  <2> QED
    BY <2>2, <2>3 DEF Read, BeginLane, Answer, Finish, Leave
<1> HIDE DEF Wins
<1>2. Spec => [][Wins]_vars
  BY <1>1, ReadingInvariant, RefreshInvariant, PTL DEF Spec
<1> QED
  BY <1>2 DEF NewerReadingWins, Wins

-----------------------------------------------------------------------------
(* Backoffs.                                                               *)

\* A refresh ends while the longest backoff still fits into what is left of the six
\* hours its entry is kept: it has five.  A probe is given 12 seconds, the stop of its
\* process 10 and of its relay 5 (quota_probe.go:25,73,162); a refresh makes two.
ReadsEnd ==
  \A s \in Refreshing, i \in 1..3 : now + Backoff[i] <= heap[at[s]].lastUsed + LongTTL

\* The lane of an account whose last probe failed backs off until then, and its
\* entry is not dropped before.
BackedOffLane(k, l) ==
  failedUntil[k][l] > now =>
    /\ table[k] # Nil
    /\ heap[table[k]].lanes[l].failures > 0
    /\ heap[table[k]].lanes[l].next >= failedUntil[k][l]
    /\ heap[table[k]].lastUsed + LongTTL >= failedUntil[k][l]

BackedOffLanes == \A k \in Keys, l \in Lanes : BackedOffLane(k, l)

\* Nothing of a lane is lost between an entry and what it becomes.
KeepsBackoffs(f, e) == e.lastUsed <= f.lastUsed /\ \A l \in Lanes : BacksOffAs(f, e, l)

LEMMA BackoffTyped ==
  ASSUME TypeOK, NEW k \in Keys, NEW l \in Lanes
  PROVE  /\ failedUntil[k][l] \in Nat /\ now \in Nat /\ LongTTL \in Nat
         /\ table[k] # Nil => table[k] \in Slots /\ heap[table[k]] \in Entries
BY DurationTypes DEF TypeOK

LEMMA EntryCounts ==
  ASSUME NEW e \in Entries, NEW l \in Lanes
  PROVE  e.lanes[l].failures \in Nat /\ e.lanes[l].next \in Nat /\ e.lastUsed \in Nat
BY DEF Entries

\* A cell whose backoffs are kept, in a table that keeps what is not idle.
LEMMA CellBackoffs ==
  ASSUME TypeOK, BackedOffLanes, NEW k \in Keys, NEW l \in Lanes,
         failedUntil[k][l] > now,
         table'[k] = table[k], heap'[table[k]] \in Entries,
         KeepsBackoffs(heap'[table[k]], heap[table[k]]),
         failedUntil'[k][l] = failedUntil[k][l]
  PROVE  BackedOffLane(k, l)'
<1>1. /\ table[k] # Nil
      /\ heap[table[k]].lanes[l].failures > 0
      /\ heap[table[k]].lanes[l].next >= failedUntil[k][l]
      /\ heap[table[k]].lastUsed + LongTTL >= failedUntil[k][l]
  BY DEF BackedOffLanes, BackedOffLane
<1> DEFINE e == heap[table[k]]
           f == heap'[table[k]]
<1>2. e \in Entries /\ failedUntil[k][l] \in Nat /\ LongTTL \in Nat
  BY <1>1, BackoffTyped
<1>3. /\ e.lanes[l].failures \in Nat /\ e.lanes[l].next \in Nat /\ e.lastUsed \in Nat
      /\ f.lanes[l].failures \in Nat /\ f.lanes[l].next \in Nat /\ f.lastUsed \in Nat
  BY <1>2, EntryCounts
<1>4. /\ f.lanes[l].failures = e.lanes[l].failures /\ f.lanes[l].next = e.lanes[l].next
      /\ e.lastUsed <= f.lastUsed
  BY <1>1 DEF KeepsBackoffs, BacksOffAs
<1>5. f.lastUsed + LongTTL >= failedUntil[k][l]
  BY <1>1, <1>2, <1>3, <1>4
<1> QED
  BY <1>1, <1>4, <1>5 DEF BackedOffLane

\* A lookup drops an entry only when its backoffs are over.
LEMMA LookupBackoffs ==
  ASSUME TypeOK, RefreshInv, Past, BackedOffLanes,
         NEW k \in Keys, NEW e \in Slots, Enters(k, e),
         NEW x \in Entries, heap' = [heap EXCEPT ![e] = x],
         KeepsBackoffs(x, Entry(k)), UNCHANGED <<now, failedUntil>>
  PROVE  BackedOffLanes'
<1> SUFFICES ASSUME NEW j \in Keys, NEW l \in Lanes, failedUntil[j][l] > now
             PROVE  BackedOffLane(j, l)'
  BY DEF BackedOffLanes, BackedOffLane
<1>1. /\ table[j] # Nil /\ table[j] \in Slots /\ heap[table[j]] \in Entries
      /\ heap[table[j]].lastUsed + LongTTL >= failedUntil[j][l]
      /\ failedUntil[j][l] \in Nat /\ now \in Nat /\ LongTTL \in Nat
  BY BackoffTyped DEF BackedOffLanes, BackedOffLane
<1>2. heap[table[j]].lastUsed \in Nat
  BY <1>1, EntryCounts
<1>3. ~Abandoned(j)
  BY <1>1, <1>2 DEF Abandoned
<1>4. table'[j] = table[j]
  <2>1. CASE table[k] = e /\ UNCHANGED table
    BY <2>1
  <2>2. CASE /\ table[k] = Nil
             /\ table' = [i \in Keys |-> IF i = k THEN e
                                         ELSE IF Abandoned(i) THEN Nil ELSE table[i]]
    BY <1>1, <1>3, <2>2
  <2> QED
    BY <2>1, <2>2 DEF Enters
<1>5. CASE j = k
  <2>1. table[k] = e
    BY <1>4, <1>5, EntersKeeps
  <2>2. Entry(k).lanes = heap[e].lanes /\ Entry(k).lastUsed = now
    BY <1>1, <1>5, <2>1, EntryParts
  <2>3. heap[e].lastUsed <= now /\ x.lastUsed \in Nat /\ heap[e].lastUsed \in Nat
    BY <1>1, <1>2, <1>5, <2>1, EntryCounts DEF Past, Lanes
  <2>4. KeepsBackoffs(x, heap[e])
    BY <1>1, <2>2, <2>3 DEF KeepsBackoffs, BacksOffAs
  <2>5. heap'[e] = x
    BY DEF TypeOK
  <2> QED
    BY <1>4, <1>5, <2>1, <2>4, <2>5, CellBackoffs
<1>6. CASE j # k
  <2>1. table[j] # e
    BY <1>1, <1>4, <1>6, EntersKeeps
  <2>2. heap'[table[j]] = heap[table[j]]
    BY <1>1, <2>1 DEF TypeOK
  <2>3. KeepsBackoffs(heap[table[j]], heap[table[j]])
    BY <1>2 DEF KeepsBackoffs, BacksOffAs
  <2> QED
    BY <1>1, <1>4, <2>2, <2>3, CellBackoffs
<1> QED
  BY <1>5, <1>6

LEMMA ReadBackoffs ==
  ASSUME TypeOK, RefreshInv, Past, BackedOffLanes, NEW s \in Sessions, Read(s)
  PROVE  BackedOffLanes'
<1> PICK e \in Slots : /\ Enters(Account[s], e)
                       /\ Join(s, e) \/ Cached(s, e) \/ Refresh(s, e)
  BY DEF Read
<1> DEFINE found == Entry(Account[s])
<1>1. /\ Account[s] \in Keys /\ found \in Entries
      /\ Unblocked(found) \in Entries /\ Unblocked(found).lastUsed = found.lastUsed
      /\ \A l \in Lanes : BacksOffAs(Unblocked(found), found, l)
  BY AccountTyped, EntryParts, UnblockedParts, UnblockedTyped DEF TypeOK
<1>2. UNCHANGED <<now, failedUntil>>
  BY DEF Read
<1> HIDE DEF found
<1>3. found.lastUsed <= found.lastUsed
  BY <1>1, EntryCounts DEF Lanes
<1>4. PICK x \in Entries : heap' = [heap EXCEPT ![e] = x] /\ KeepsBackoffs(x, found)
  <2>1. CASE Join(s, e)
    <3>1. KeepsBackoffs(found, found)
      BY <1>3 DEF KeepsBackoffs, BacksOffAs
    <3> QED
      BY <1>1, <2>1, <3>1 DEF Join, found
  <2>2. KeepsBackoffs(Unblocked(found), found)
    BY <1>1, <1>3 DEF KeepsBackoffs
  <2>3. CASE Cached(s, e)
    BY <1>1, <2>2, <2>3 DEF Cached, found
  <2>4. CASE Refresh(s, e)
    <3> DEFINE x == [Unblocked(found) EXCEPT !.running = s]
    <3>1. heap' = [heap EXCEPT ![e] = x]
      BY <2>4 DEF Refresh, found
    <3>2. /\ x \in Entries /\ x.lastUsed = Unblocked(found).lastUsed
          /\ x.lanes = Unblocked(found).lanes
      BY <1>1 DEF Entries
    <3> HIDE DEF x
    <3>3. KeepsBackoffs(x, found)
      BY <2>2, <3>2 DEF KeepsBackoffs, BacksOffAs
    <3> QED
      BY <3>1, <3>2, <3>3
  <2> QED
    BY <2>1, <2>3, <2>4
<1> QED
  BY <1>1, <1>2, <1>4, LookupBackoffs DEF found

LEMMA ObserveBackoffs ==
  ASSUME TypeOK, RefreshInv, Past, BackedOffLanes, NEW s \in Sessions, Observe(s)
  PROVE  BackedOffLanes'
<1> DEFINE found == Entry(Account[s])
           x     == observed(found, pending[s].windows, pending[s].exhausted)
<1> PICK e \in Slots : Enters(Account[s], e) /\ heap' = [heap EXCEPT ![e] = x]
  BY DEF Observe
<1>1. Account[s] \in Keys /\ found \in Entries /\ pending[s].windows \in [Ids -> Windows]
  BY AccountTyped, EntryParts DEF TypeOK
<1> HIDE DEF found
<1>2. /\ x \in Entries /\ x.lastUsed = found.lastUsed
      /\ \A l \in Lanes : BacksOffAs(x, found, l)
  BY <1>1, ObservedParts, ObservedTyped DEF TypeOK
<1> HIDE DEF x
<1>3. found.lastUsed <= found.lastUsed
  BY <1>1, EntryCounts DEF Lanes
<1>4. KeepsBackoffs(x, found)
  BY <1>2, <1>3 DEF KeepsBackoffs
<1>5. UNCHANGED <<now, failedUntil>>
  BY DEF Observe
<1> QED
  BY <1>1, <1>2, <1>4, <1>5, LookupBackoffs DEF found

\* A refreshing reader writes its own cell: the lanes of other accounts stay.
LEMMA OwnBackoffs ==
  ASSUME TypeOK, RefreshInv, BackedOffLanes, NEW s \in Refreshing,
         NEW x \in Entries, heap' = [heap EXCEPT ![at[s]] = x],
         UNCHANGED <<now, table>>,
         \A k \in Keys \ {Account[s]}, l \in Lanes : failedUntil'[k][l] = failedUntil[k][l],
         \A l \in Lanes : BackedOffLane(Account[s], l)'
  PROVE  BackedOffLanes'
<1>1. s \in Sessions /\ at[s] \in Slots /\ table[Account[s]] = at[s] /\ Account[s] \in Keys
  BY AccountTyped DEF Refreshing, RefreshInv, RefreshNamed, Held, TypeOK
<1> SUFFICES ASSUME NEW k \in Keys \ {Account[s]}, NEW l \in Lanes
             PROVE  BackedOffLane(k, l)'
  BY DEF BackedOffLanes
<1>2. table[k] # Nil => table[k] \in Slots /\ table[k] # at[s]
  BY <1>1 DEF RefreshInv, CellsApart, TypeOK
<1>3. table[k] # Nil => heap'[table[k]] = heap[table[k]]
  BY <1>2 DEF TypeOK
<1> QED
  BY <1>3 DEF BackedOffLanes, BackedOffLane

LEMMA BeginBackoffs ==
  ASSUME TypeOK, RefreshInv, BackedOffLanes, NEW s \in Sessions, BeginLane(s) \/ Finish(s)
  PROVE  BackedOffLanes'
<1>1. /\ s \in Refreshing /\ at[s] \in Slots /\ heap[at[s]] \in Entries
      /\ table[Account[s]] = at[s] /\ Account[s] \in Keys
      /\ heap[at[s]].lastUsed \in Nat
  BY AccountTyped, EntryCounts
     DEF BeginLane, Finish, Refreshing, RefreshInv, RefreshNamed, Held, TypeOK, Lanes
<1>2. heap[at[s]].lastUsed <= heap[at[s]].lastUsed
  BY <1>1
<1>3. PICK x \in Entries : heap' = [heap EXCEPT ![at[s]] = x] /\ KeepsBackoffs(x, heap[at[s]])
  <2>1. CASE BeginLane(s)
    <3>1. PICK x \in {Unblocked(heap[at[s]]), heap[at[s]]} : heap' = [heap EXCEPT ![at[s]] = x]
      BY <2>1 DEF BeginLane
    <3>2. x \in Entries /\ KeepsBackoffs(x, heap[at[s]])
      BY <1>1, <1>2, UnblockedParts, UnblockedTyped DEF KeepsBackoffs, BacksOffAs, TypeOK
    <3> QED
      BY <3>1, <3>2
  <2>2. CASE Finish(s)
    <3> DEFINE x == [heap[at[s]] EXCEPT !.running = None]
    <3>1. heap' = [heap EXCEPT ![at[s]] = x]
      BY <2>2 DEF Finish
    <3>2. x \in Entries /\ x.lastUsed = heap[at[s]].lastUsed /\ x.lanes = heap[at[s]].lanes
      BY <1>1 DEF Entries
    <3> HIDE DEF x
    <3>3. KeepsBackoffs(x, heap[at[s]])
      BY <1>2, <3>2 DEF KeepsBackoffs, BacksOffAs
    <3> QED
      BY <3>1, <3>2, <3>3
  <2> QED
    BY <2>1, <2>2
<1>4. UNCHANGED <<now, table, failedUntil>>
  BY DEF BeginLane, Finish
<1>5. heap'[at[s]] = x
  BY <1>1, <1>3 DEF TypeOK
<1>6. ASSUME NEW l \in Lanes
      PROVE  BackedOffLane(Account[s], l)'
  <2>1. CASE failedUntil[Account[s]][l] > now
    BY <1>1, <1>3, <1>4, <1>5, <2>1, CellBackoffs
  <2>2. CASE ~(failedUntil[Account[s]][l] > now)
    BY <1>4, <2>2 DEF BackedOffLane
  <2> QED
    BY <2>1, <2>2
<1> QED
  BY <1>1, <1>3, <1>4, <1>6, OwnBackoffs

LEMMA ApplyBackoffs ==
  ASSUME TypeOK, RefreshInv, Past, BackedOffLanes, ReadsEnd, NEW s \in Sessions, Apply(s)
  PROVE  BackedOffLanes'
<1> DEFINE e == heap[at[s]]
           k == Account[s]
           x == applyProbe(e, lane[s], result[s], sampled[s])
<1>1. /\ s \in Refreshing /\ at[s] \in Slots /\ lane[s] \in Lanes
      /\ table[k] = at[s] /\ at[s] # Nil /\ k \in Keys
      /\ e \in Entries /\ result[s] \in Results
  BY AccountTyped, ActorsAssumption
     DEF Apply, Refreshing, RefreshInv, RefreshNamed, Held, TypeOK
<1>2. /\ x.lastUsed = e.lastUsed /\ x \in Entries
      /\ \A m \in Lanes \ {lane[s]} :
           /\ x.lanes[m].failures = e.lanes[m].failures
           /\ x.lanes[m].next = e.lanes[m].next \/ x.lanes[m].next >= now + LongTTL
      /\ result[s].kind = "error" =>
           /\ x.lanes[lane[s]].failures > 0
           /\ x.lanes[lane[s]].next >= now + Backoff[Sooner(x.lanes[lane[s]].failures, 3)]
  BY <1>1, AppliedParts, ProbeApplied DEF TypeOK
<1>3. /\ heap' = [heap EXCEPT ![at[s]] = x] /\ UNCHANGED <<now, table>>
      /\ failedUntil' = [failedUntil EXCEPT ![k][lane[s]] =
           IF result[s].kind = "error"
             THEN now + Backoff[Sooner(x.lanes[lane[s]].failures, 3)] ELSE 0]
  BY DEF Apply
<1> HIDE DEF x
<1>4. heap'[table'[k]] = x /\ table'[k] # Nil /\ now' = now
  BY <1>1, <1>3 DEF TypeOK
<1>5. /\ \A j \in Keys \ {k}, l \in Lanes : failedUntil'[j][l] = failedUntil[j][l]
      /\ \A l \in Lanes \ {lane[s]} : failedUntil'[k][l] = failedUntil[k][l]
      /\ failedUntil'[k][lane[s]] =
           IF result[s].kind = "error"
             THEN now + Backoff[Sooner(x.lanes[lane[s]].failures, 3)] ELSE 0
  BY <1>1, <1>3 DEF TypeOK
<1>6. ASSUME NEW l \in Lanes, l = lane[s]
      PROVE  BackedOffLane(k, l)'
  <2>1. CASE result[s].kind = "error"
    <3> DEFINE i == Sooner(x.lanes[l].failures, 3)
    <3>1. x.lanes[l].failures \in Nat /\ x.lanes[l].failures > 0
      BY <1>1, <1>2, <1>6, <2>1, EntryCounts
    <3>2. i \in 1..3
      BY <3>1 DEF Sooner, After
    <3>3. now + Backoff[i] <= e.lastUsed + LongTTL
      BY <1>1, <3>2 DEF ReadsEnd
    <3>4. failedUntil'[k][l] = now + Backoff[i]
      BY <1>5, <1>6, <2>1
    <3>5. /\ now \in Nat /\ Backoff[i] \in Nat /\ LongTTL \in Nat /\ e.lastUsed \in Nat
      BY <1>1, <3>2, DurationsAssumption, EntryCounts DEF TypeOK
    <3> HIDE DEF i
    <3>6. x.lastUsed + LongTTL >= failedUntil'[k][l]
      BY <1>2, <3>3, <3>4, <3>5
    <3>7. x.lanes[l].next >= failedUntil'[k][l]
      BY <1>2, <1>6, <2>1, <3>4 DEF i
    <3> QED
      BY <1>4, <3>1, <3>6, <3>7 DEF BackedOffLane
  <2>2. CASE result[s].kind # "error"
    <3>1. failedUntil'[k][l] = 0 /\ ~(0 > now)
      BY <1>5, <1>6, <2>2 DEF TypeOK
    <3> QED
      BY <1>4, <3>1 DEF BackedOffLane
  <2> QED
    BY <2>1, <2>2
<1>7. ASSUME NEW m \in Lanes \ {lane[s]}
      PROVE  BackedOffLane(k, m)'
  <2> SUFFICES ASSUME failedUntil[k][m] > now
               PROVE  /\ x.lanes[m].failures > 0
                      /\ x.lanes[m].next >= failedUntil[k][m]
                      /\ x.lastUsed + LongTTL >= failedUntil[k][m]
    BY <1>4, <1>5 DEF BackedOffLane
  <2>1. /\ e.lanes[m].failures > 0
        /\ e.lanes[m].next >= failedUntil[k][m]
        /\ e.lastUsed + LongTTL >= failedUntil[k][m]
    BY <1>1 DEF BackedOffLanes, BackedOffLane
  <2>2. /\ e.lastUsed \in Nat /\ e.lastUsed <= now /\ now \in Nat /\ LongTTL \in Nat
        /\ x.lanes[m].next \in Nat /\ failedUntil[k][m] \in Nat
    BY <1>1, <1>2, BackoffTyped, EntryCounts DEF Past
  <2>3. CASE x.lanes[m].next = e.lanes[m].next
    BY <1>2, <2>1, <2>3
  <2>4. CASE x.lanes[m].next >= now + LongTTL
    BY <1>2, <2>1, <2>2, <2>4
  <2> QED
    BY <1>2, <2>3, <2>4
<1>8. \A l \in Lanes : BackedOffLane(k, l)'
  BY <1>1, <1>6, <1>7
<1> QED
  BY <1>1, <1>2, <1>3, <1>5, <1>8, OwnBackoffs

LEMMA OtherBackoffs ==
  ASSUME TypeOK, BackedOffLanes,
         \/ UNCHANGED <<now, table, heap, failedUntil>>
         \/ Tick
  PROVE  BackedOffLanes'
<1>1. CASE UNCHANGED <<now, table, heap, failedUntil>>
  BY <1>1 DEF BackedOffLanes, BackedOffLane
<1>2. CASE Tick
  <2>1. now' = now + 1 /\ now \in Nat /\ UNCHANGED <<table, heap, failedUntil>>
    BY <1>2 DEF Tick, cacheVars, TypeOK
  <2> SUFFICES ASSUME NEW k \in Keys, NEW l \in Lanes, failedUntil[k][l] > now + 1
               PROVE  BackedOffLane(k, l)'
    BY <2>1 DEF BackedOffLanes, BackedOffLane
  <2>2. failedUntil[k][l] > now
    BY <2>1, BackoffTyped
  <2> QED
    BY <2>1, <2>2 DEF BackedOffLanes, BackedOffLane
<1> QED
  BY <1>1, <1>2

LEMMA BackoffInvariant == Spec /\ []ReadsEnd => []BackedOffLanes
<1>1. Init => BackedOffLanes
  BY DEF Init, BackedOffLanes, BackedOffLane
<1>2. /\ TypeOK /\ RefreshInv /\ ReadingInv /\ BackedOffLanes /\ ReadsEnd /\ [Next]_vars
      => BackedOffLanes'
  <2> SUFFICES ASSUME TypeOK, RefreshInv, Past, BackedOffLanes, ReadsEnd, [Next]_vars
               PROVE  BackedOffLanes'
    BY DEF ReadingInv
  <2>1. CASE UNCHANGED vars
    BY <2>1, OtherBackoffs DEF vars, cacheVars
  <2>2. ASSUME NEW s \in Sessions,
               Answer(s) \/ Leave(s) \/ Cancel(s) \/ Report(s) \/ LimitError(s)
        PROVE  BackedOffLanes'
    BY <2>2, OtherBackoffs DEF Answer, Leave, Cancel, Report, LimitError, cacheVars
  <2>3. CASE Next
    BY <2>2, <2>3, ReadBackoffs, ObserveBackoffs, BeginBackoffs, ApplyBackoffs,
       OtherBackoffs DEF Next
  <2> QED
    BY <2>1, <2>3
<1> QED
  BY <1>1, <1>2, ReadingInvariant, RefreshInvariant, PTL DEF Spec

\* No probe of a lane starts before the backoff of its last failed one is over: a lane
\* that backs off is moved by no report, no reset and no other lane's success, and
\* when no refresh outlives the five hours of ReadsEnd its entry is still there.
THEOREM FailuresBackOff == Spec /\ []ReadsEnd => BackoffHolds
<1> DEFINE Holds == \A s \in Sessions :
                      ProbeStarts(s) => now >= failedUntil[Account[s]][lane[s]]
<1>1. TypeOK /\ RefreshInv /\ BackedOffLanes /\ [Next]_vars => [Holds]_vars
  <2> SUFFICES ASSUME TypeOK, RefreshInv, BackedOffLanes, [Next]_vars,
                      NEW s \in Sessions, ProbeStarts(s),
                      failedUntil[Account[s]][lane[s]] > now
               PROVE  FALSE
    BY AccountTyped, ProbeStartsDue, BackoffTyped
  <2> DEFINE e == heap[at[s]]
             f == Unblocked(e)
  <2>1. /\ s \in Refreshing /\ at[s] \in Slots /\ e \in Entries /\ lane[s] \in Lanes
        /\ IsDue(f, lane[s]) /\ Account[s] \in Keys
    BY AccountTyped, ProbeStartsDue DEF TypeOK
  <2>2. table[Account[s]] = at[s]
    BY <2>1 DEF RefreshInv, RefreshNamed
  <2>3. /\ e.lanes[lane[s]].failures > 0
        /\ e.lanes[lane[s]].next >= failedUntil[Account[s]][lane[s]]
    BY <2>1, <2>2 DEF BackedOffLanes, BackedOffLane
  <2>4. f.lanes[lane[s]].next = e.lanes[lane[s]].next
    BY <2>1, <2>3, UnblockedParts DEF BacksOffAs
  <2>5. now >= e.lanes[lane[s]].next
    BY <2>1, <2>4 DEF IsDue
  <2>6. /\ now \in Nat /\ failedUntil[Account[s]][lane[s]] \in Nat
        /\ e.lanes[lane[s]].next \in Nat
    BY <2>1, BackoffTyped, EntryCounts
  <2> QED
    BY <2>3, <2>5, <2>6
<1> HIDE DEF Holds
<1>2. Spec /\ []ReadsEnd => [][Holds]_vars
  BY <1>1, BackoffInvariant, RefreshInvariant, PTL DEF Spec
<1> QED
  BY <1>2 DEF BackoffHolds, Holds
=============================================================================
