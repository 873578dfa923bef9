------------------------------ MODULE Filters ------------------------------
(***************************************************************************)
(* The filter stage's workers share one instance of every filter.  A       *)
(* filter without state is a function of its event (FilterSteps); the      *)
(* others keep theirs behind a lock, and some await while they do not hold *)
(* it.  One kind of filter is looked at in a behaviour.  A lock that is    *)
(* never held across an await makes one step of what happens under it;     *)
(* waiting for it takes no time on the scale of the clock.                 *)
(***************************************************************************)
EXTENDS FilterSteps, Functions

CONSTANTS Workers, Keys,
          NumGiven,    \* events given to the filter
          MaxTime,     \* end of the clock
          NumThrottled, ThrottleTime,   \* the same for throttle
          Ttl,         \* cache_expiration; refresh interval; aggregate timeout
          Capacity,    \* cache_size
          Big,         \* keys whose result may exceed cache_max_rows
          Period, MaxAge, BeforeCount, AfterCount,   \* throttle; a count below 0 is not set
          MaxChanges, MaxFilterFaults

Nothing == [none |-> TRUE]

ASSUME FilterAssumption ==
  /\ {NumGiven, MaxTime, NumThrottled, ThrottleTime, Ttl, Capacity, Period, MaxAge,
      MaxChanges, MaxFilterFaults} \subseteq Nat
  /\ BeforeCount \in Int /\ AfterCount \in Int
  /\ Big \subseteq Keys /\ Nothing \notin Workers

StatefulKinds == {"throttle", "aggregate", "jdbc_streaming", "jdbc_static", "metrics"}

VARIABLES
  kind,     \* the filter
  setting,  \* aggregate: map_action and which of its two flags is set
  clock, given, changes, ffaults,
  last,     \* stateless: the last event and what became of it
  table,    \* the filter's map: windows, aggregate maps, cached results, counts
  order,    \* jdbc_streaming: keys in the order they were cached
  wk,       \* each worker's place in filter() and what it holds there
  writer,   \* jdbc_static: who holds the write lock
  passes,   \* throttle: times of the events let through, by key
  pushed,   \* aggregate: the maps that became events
  served,   \* jdbc_streaming: the rows an event got last
  slow,     \* the longest query so far
  loads     \* jdbc_static: times of the loads

vars == <<kind, setting, clock, given, changes, ffaults, last, table, order, wk, writer,
          passes, pushed, served, slow, loads>>
frame == <<kind, setting, clock, changes>>

NumOf == IF kind = "throttle" THEN NumThrottled ELSE NumGiven
TimeOf == IF kind = "throttle" THEN ThrottleTime ELSE MaxTime

Idle == [pc |-> "idle"]
Ended == [pc |-> "ended"]

Init ==
  /\ kind \in StatefulKinds \union {"stateless"}
  /\ setting \in IF kind = "aggregate"
                 THEN [action : {"create", "update"}, flag : {"push", "end", "neither"}]
                 ELSE {Nothing}
  /\ clock = 0 /\ given = 0 /\ changes = 0 /\ ffaults = 0
  /\ last = Nothing /\ table = <<>> /\ order = <<>>
  /\ wk = [w \in Workers |-> Idle] /\ writer = Nothing
  /\ passes = [k \in Keys |-> <<>>] /\ pushed = <<>> /\ served = Nothing
  /\ slow = 0 /\ loads = <<>>

Tick ==
  /\ clock < TimeOf /\ kind # "stateless"
  /\ clock' = clock + 1
  /\ UNCHANGED <<kind, setting, given, changes, ffaults, last, table, order, wk, writer,
                 passes, pushed, served, slow, loads>>

(* The database behind a lookup changes. *)
Change ==
  /\ kind = "jdbc_static" /\ changes < MaxChanges
  /\ changes' = changes + 1
  /\ UNCHANGED <<kind, setting, clock, given, ffaults, last, table, order, wk, writer,
                 passes, pushed, served, slow, loads>>

Give(w) == wk[w].pc = "idle" /\ given < NumOf /\ given' = given + 1
FilterFault == ffaults < MaxFilterFaults /\ ffaults' = ffaults + 1

(* IndexMap and HashMap: insert and remove. *)
Insert(m, k, v) == [x \in DOMAIN m \union {k} |-> IF x = k THEN v ELSE m[x]]
Without(m, S) == Restrict(m, DOMAIN m \ S)

(***************************************************************************)
(* Filters without state; one event shows all they do.  A panic ends the   *)
(* worker's task.                                                          *)
(***************************************************************************)

FilterEvent(w, f, e) ==
  /\ kind = "stateless" /\ Give(w) /\ last = Nothing
  /\ last' = [f |-> f, e |-> e, out |-> Filter(f, e)]
  /\ wk' = IF Filter(f, e) = Panicked THEN [wk EXCEPT ![w] = Ended] ELSE wk
  /\ UNCHANGED <<frame, ffaults, table, order, writer, passes, pushed, served, slow, loads>>

(***************************************************************************)
(* throttle                                                                *)
(***************************************************************************)

(* state.retain *)
Young(m) == Restrict(m, {k \in DOMAIN m : clock - m[k].start < MaxAge})

(* Mutant: the window starts anew with the clock. *)
ThrottleWindowAlways(m, k) ==
  IF k \in DOMAIN m /\ clock = m[k].start THEN m[k] ELSE [count |-> 0, start |-> clock]

(* The entry for the key, a new one when its period is over. *)
ThrottleWindow(m, k) ==
  IF k \in DOMAIN m /\ clock - m[k].start < Period THEN m[k] ELSE [count |-> 0, start |-> clock]

Throttled(count) ==
  \/ BeforeCount >= 0 /\ count <= BeforeCount
  \/ AfterCount >= 0 /\ count > AfterCount

Throttle(w, k) ==
  LET e == ThrottleWindow(Young(table), k)
      n == e.count + 1
  IN  /\ kind = "throttle" /\ Give(w)
      /\ table' = Insert(Young(table), k, [e EXCEPT !.count = n])
      /\ passes' = IF Throttled(n) THEN passes ELSE [passes EXCEPT ![k] = Append(@, clock)]
      /\ UNCHANGED <<frame, ffaults, last, order, wk, writer, pushed, served, slow, loads>>

(***************************************************************************)
(* aggregate.  A map is what events contributed to it.                     *)
(***************************************************************************)

(* Maps over their timeout, which become events only with push. *)
TimedOut == {k \in DOMAIN table : clock - table[k].at > Ttl /\ setting.flag = "push"}

(* Mutant: a map that timed out becomes an event and stays. *)
AggregateKeepsTimedOut(w, k) ==
  LET id == given + 1
      old == IF k \in DOMAIN table THEN table[k].data ELSE {}
  IN  /\ kind = "aggregate" /\ Give(w)
      /\ table' = Insert(table, k, [data |-> old \union {id}, at |-> clock])
      /\ pushed' = pushed \o SetToSeq({table[x].data : x \in TimedOut})
      /\ UNCHANGED <<frame, ffaults, last, order, wk, writer, passes, served, slow, loads>>

Aggregate(w, k) ==
  LET id == given + 1
      live == Without(table, TimedOut)
      merged == CASE setting.action = "create" /\ k \in DOMAIN live -> live
                  [] setting.action = "update" /\ k \in DOMAIN live ->
                       Insert(live, k, [data |-> live[k].data \union {id}, at |-> clock])
                  [] OTHER -> Insert(live, k, [data |-> {id}, at |-> clock])
  IN  /\ kind = "aggregate" /\ Give(w)
      /\ table' = IF setting.flag = "end" THEN Without(merged, {k}) ELSE merged
      /\ pushed' = pushed \o SetToSeq({table[x].data : x \in TimedOut})
                     \o (IF setting.flag = "end" THEN <<merged[k].data>> ELSE <<>>)
      /\ UNCHANGED <<frame, ffaults, last, order, wk, writer, passes, served, slow, loads>>

(***************************************************************************)
(* metrics: counts under the lock, and every timer value kept.             *)
(***************************************************************************)

Metrics(w, k) ==
  /\ kind = "metrics" /\ Give(w)
  /\ table' = Insert(table, k, (IF k \in DOMAIN table THEN table[k] ELSE 0) + 1)
  /\ UNCHANGED <<frame, ffaults, last, order, wk, writer, passes, pushed, served, slow, loads>>

(***************************************************************************)
(* jdbc_streaming: cache, query without the lock, cache again.             *)
(***************************************************************************)

Expired(k) == clock - table[k].at > Ttl

(* Mutant: an expired entry leaves the map and stays in the order. *)
CacheDropFromMap(k) == table' = Without(table, {k}) /\ UNCHANGED order

(* ResultCache::get on an expired entry; the order holds a key once. *)
CacheDrop(k) ==
  /\ table' = Without(table, {k})
  /\ order' = RemoveFirst(order, k)

StreamGet(w, k) ==
  /\ kind = "jdbc_streaming" /\ Give(w)
  /\ IF k \in DOMAIN table /\ ~Expired(k) /\ Capacity > 0
     THEN /\ served' = [read |-> table[k].read, at |-> clock]
          /\ UNCHANGED <<table, order, wk>>
     ELSE /\ wk' = [wk EXCEPT ![w] = [pc |-> "query", key |-> k]]
          /\ IF k \in DOMAIN table THEN CacheDrop(k) ELSE UNCHANGED <<table, order>>
          /\ UNCHANGED served
  /\ UNCHANGED <<frame, ffaults, last, writer, passes, pushed, slow, loads>>

(* The pool, and the query at the database; a failure tags the event and   *)
(* caches nothing.                                                         *)
StreamQuery(w) ==
  /\ wk[w].pc = "query"
  /\ \/ wk' = [wk EXCEPT ![w] = [pc |-> "rows", key |-> wk[w].key, read |-> clock]]
        /\ UNCHANGED ffaults
     \/ wk' = [wk EXCEPT ![w] = Idle] /\ FilterFault
  /\ UNCHANGED <<frame, given, last, table, order, writer, passes, pushed, served, slow, loads>>

(* ResultCache::insert: a new key evicts from the front of the order. *)
StreamInsert(w) ==
  LET k == wk[w].key
      evict == IF k \in DOMAIN table \/ Len(order) < Capacity THEN 0 ELSE Len(order) - Capacity + 1
      kept == SubSeq(order, evict + 1, Len(order))
      entry == [read |-> wk[w].read, at |-> clock]
  IN  /\ wk[w].pc = "rows"
      /\ wk' = [wk EXCEPT ![w] = Idle]
      /\ served' = entry
      /\ \/ /\ Capacity = 0 \/ k \in Big
            /\ UNCHANGED <<table, order>>
         \/ /\ Capacity > 0
            /\ table' = Insert(Restrict(table, Range(kept)), k, entry)
            /\ order' = IF k \in DOMAIN table THEN order ELSE Append(kept, k)
      /\ slow' = IF clock - wk[w].read > slow THEN clock - wk[w].read ELSE slow
      /\ UNCHANGED <<frame, given, ffaults, last, writer, passes, pushed, loads>>

(***************************************************************************)
(* jdbc_static: the state is read under the read lock and replaced under   *)
(* the write lock, which is held across the loaders' queries.              *)
(***************************************************************************)

IsFresh == loads # <<>> /\ clock - Last(loads) <= Ttl

StaticCheck(w) ==
  /\ kind = "jdbc_static" /\ Give(w) /\ writer = Nothing
  /\ wk' = [wk EXCEPT ![w] = [pc |-> IF IsFresh THEN "lookup" ELSE "wantWrite"]]
  /\ UNCHANGED <<frame, ffaults, last, table, order, writer, passes, pushed, served, slow, loads>>

(* Mutant: the state is not looked at again under the write lock. *)
StaticLockOnly(w) ==
  /\ wk[w].pc = "wantWrite" /\ writer = Nothing
  /\ writer' = w /\ wk' = [wk EXCEPT ![w] = [pc |-> "load"]]
  /\ UNCHANGED <<frame, given, ffaults, last, table, order, passes, pushed, served, slow, loads>>

(* The write lock, and the state looked at again. *)
StaticLock(w) ==
  /\ wk[w].pc = "wantWrite" /\ writer = Nothing
  /\ IF IsFresh
     THEN wk' = [wk EXCEPT ![w] = [pc |-> "lookup"]] /\ UNCHANGED writer
     ELSE writer' = w /\ wk' = [wk EXCEPT ![w] = [pc |-> "load"]]
  /\ UNCHANGED <<frame, given, ffaults, last, table, order, passes, pushed, served, slow, loads>>

(* The loaders in turn; the first failure, or a result above the cap, ends *)
(* the load and leaves the state as it was.                                *)
StaticLoad(w) ==
  /\ wk[w].pc = "load"
  /\ writer' = Nothing
  /\ \/ /\ loads' = Append(loads, clock) /\ table' = <<changes>>
        /\ wk' = [wk EXCEPT ![w] = [pc |-> "lookup"]] /\ UNCHANGED ffaults
     \/ /\ FilterFault /\ wk' = [wk EXCEPT ![w] = Idle] /\ UNCHANGED <<loads, table>>
  /\ UNCHANGED <<frame, given, last, order, passes, pushed, served, slow>>

StaticLookup(w) ==
  /\ wk[w].pc = "lookup" /\ writer = Nothing
  /\ served' = [gen |-> table[1]]
  /\ wk' = [wk EXCEPT ![w] = Idle]
  /\ UNCHANGED <<frame, given, ffaults, last, table, order, writer, passes, pushed, slow, loads>>

Next ==
  \/ Tick \/ Change
  \/ \E w \in Workers :
       \/ kind = "stateless" /\ \E f \in StatelessKinds : \E e \in StepEvent : FilterEvent(w, f, e)
       \/ \E k \in Keys : Throttle(w, k) \/ Aggregate(w, k) \/ Metrics(w, k) \/ StreamGet(w, k)
       \/ StreamQuery(w) \/ StreamInsert(w)
       \/ StaticCheck(w) \/ StaticLock(w) \/ StaticLoad(w) \/ StaticLookup(w)

Spec == Init /\ [][Next]_vars

(***************************************************************************)
(* Properties                                                              *)
(***************************************************************************)

(* The filters that promise a tag for what they cannot do. *)
Tagging == {"grok", "date", "dissect", "json", "xml", "bytes", "geoip", "script",
            "elasticsearch"}

(* An event on which such a filter fails keeps its fields, and one whose   *)
(* field it can use, with the outside world answering, is not tagged and   *)
(* gets the result: no half results, no tag on a success, and nothing      *)
(* silently undone but where the settings ask for it (grok without         *)
(* overwrite, script without code, several hits without a target).  The    *)
(* exception: where xml and bytes cut wide text inside a character they    *)
(* panic, and the event gets neither a result nor a tag.                   *)
TaggedIffUndone ==
  last # Nothing /\ last.f \in Tagging
      /\ ~(last.f \in {"xml", "bytes"} /\ CutsWide(last.e)) =>
    LET e == last.e
        o == last.out[1]
    IN  /\ Len(last.out) = 1
        /\ o.tagged => o.src = e.src /\ o.dst = e.dst
        /\ e.src = "good" /\ e.env = "ok" =>
             /\ ~o.tagged
             /\ \/ o.dst = "new"
                \/ last.f = "grok" /\ ~e.flag /\ e.dst = "old"
                \/ last.f = "elasticsearch" /\ e.flag /\ ~e.target
                \/ last.f = "script" /\ ~e.target

(* The result cache of jdbc_streaming under concurrent misses, late        *)
(* inserts, expiry and eviction: its order and its map hold the same keys, *)
(* each once and no more than cache_size, and the rows an event gets were  *)
(* in the database no longer ago than the expiration plus the slowest      *)
(* query (a late answer is stamped with the time of its insertion).        *)
CacheSound ==
  kind = "jdbc_streaming" =>
    /\ Range(order) = DOMAIN table /\ IsInjective(order) /\ Len(order) <= Capacity
    /\ served # Nothing => served.at - served.read <= Ttl + slow

(* The events of a key a window lets through, and how long a window is     *)
(* kept at least: from_config takes a max_age below the period, and then   *)
(* retain forgets windows that are not over.                               *)
Allowance ==
  LET first == IF BeforeCount > 0 THEN BeforeCount ELSE 0
  IN  IF AfterCount > first THEN AfterCount - first ELSE 0
WindowLife == IF MaxAge < Period THEN MaxAge ELSE Period

(* With an after_count, any stretch shorter than the period (or max_age,   *)
(* when that is shorter) lets at most twice a window's allowance of a      *)
(* key's events through: neither the reset of a window nor the removal of  *)
(* old ones gives a key more.                                              *)
ThrottleLimit ==
  AfterCount >= 0 =>
    \A k \in Keys : \A i \in DOMAIN passes[k] :
      LET j == i + 2 * Allowance
      IN  j \in DOMAIN passes[k] => passes[k][j] - passes[k][i] >= WindowLife

(* With map_action update what an event contributed is in exactly one      *)
(* place, its task's live map or one event pushed on timeout or at the end *)
(* of the task: merging and pushing never lose or repeat it.               *)
AggregateConserves ==
  kind = "aggregate" /\ setting.action = "update" =>
    \A id \in 1 .. given :
      Cardinality({k \in DOMAIN table : id \in table[k].data})
        + Cardinality({i \in DOMAIN pushed : id \in pushed[i]}) = 1

(* However many workers find the reference data stale at once, it is       *)
(* loaded once per refresh interval, and the lock is free again after a    *)
(* load that failed.                                                       *)
LoadsApart ==
  kind = "jdbc_static" =>
    /\ \A i \in 1 .. Len(loads) - 1 : loads[i + 1] - loads[i] > Ttl
    /\ writer # Nothing => wk[writer].pc = "load"

=============================================================================
