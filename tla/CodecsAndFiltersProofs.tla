----------------------- MODULE CodecsAndFiltersProofs -----------------------
(***************************************************************************)
(* Proofs about what happens to an event between its bytes and the         *)
(* outputs.                                                                *)
(*                                                                         *)
(* The filter stage, for any number of workers, keys and events and any    *)
(* settings: what the tag promises, what a throttle lets through, that     *)
(* aggregate neither loses nor repeats a contribution, that reference data *)
(* is loaded once per interval, and that the result cache of               *)
(* jdbc_streaming keeps its two halves in step.                            *)
(*                                                                         *)
(* The decoders of the codecs, for buffers of any length and any limits:   *)
(* they stay inside what they were given, and they end in linear time.     *)
(***************************************************************************)
EXTENDS Filters, Decoders, TLAPS, FiniteSetTheorems, SequenceTheorems, WellFoundedInduction

-----------------------------------------------------------------------------
(* The tag of a filter without state.                                      *)

\* What TaggedIffUndone asks of the events o that filter f makes of event e.
TagTells(f, e, out) ==
  LET o == out[1]
  IN  /\ Len(out) = 1
      /\ o.tagged => o.src = e.src /\ o.dst = e.dst
      /\ e.src = "good" /\ e.env = "ok" =>
           /\ ~o.tagged
           /\ \/ o.dst = "new"
              \/ f = "grok" /\ ~e.flag /\ e.dst = "old"
              \/ f = "elasticsearch" /\ e.flag /\ ~e.target
              \/ f = "script" /\ ~e.target

\* Setting the result, tagging, and leaving the event alone, by field.
LEMMA EventFacts ==
  ASSUME NEW e \in StepEvent
  PROVE  /\ SetDst(e).dst = "new" /\ SetDst(e).tagged = FALSE
         /\ AddTag(e).src = e.src /\ AddTag(e).dst = e.dst
         /\ e.tagged = FALSE
         /\ \A v : [SetDst(e) EXCEPT !.src = v].dst = "new"
                   /\ [SetDst(e) EXCEPT !.src = v].tagged = FALSE
BY DEF StepEvent, SetDst, AddTag

\* The result of a filter that is done, that is not, and that leaves the event alone.
Settled(e, out) ==
  out = <<SetDst(e)>> \/ \E v : out = <<[SetDst(e) EXCEPT !.src = v]>>
Usable(e) == e.src = "good" /\ e.env = "ok"
MayLeave(f, e) ==
  \/ f = "grok" /\ ~e.flag /\ e.dst = "old"
  \/ f = "elasticsearch" /\ e.flag /\ ~e.target
  \/ f = "script" /\ ~e.target

\* All three tell the truth, the last two where they may.
LEMMA OutcomesTell ==
  ASSUME NEW f, NEW e \in StepEvent, NEW out,
         \/ Settled(e, out)
         \/ ~ Usable(e) /\ out = <<AddTag(e)>>
         \/ (~ Usable(e) \/ MayLeave(f, e)) /\ out = <<e>>
  PROVE  TagTells(f, e, out)
<1>1. CASE Settled(e, out)
  <2>1. PICK o : out = <<o>> /\ o.dst = "new" /\ o.tagged = FALSE
    <3>1. CASE out = <<SetDst(e)>>
      BY <3>1, EventFacts, Zenon
    <3>2. ASSUME NEW v, out = <<[SetDst(e) EXCEPT !.src = v]>>
          PROVE  \E o : out = <<o>> /\ o.dst = "new" /\ o.tagged = FALSE
      BY <3>2, EventFacts, Zenon
    <3> QED
      BY <1>1, <3>1, <3>2 DEF Settled
  <2>2. Len(out) = 1 /\ out[1] = o
    BY <2>1
  <2> QED
    BY <2>1, <2>2 DEF TagTells
<1>2. CASE ~ Usable(e) /\ out = <<AddTag(e)>>
  <2>1. Len(out) = 1 /\ out[1] = AddTag(e)
    BY <1>2
  <2> QED
    BY <1>2, <2>1, EventFacts DEF TagTells, Usable
<1>3. CASE (~ Usable(e) \/ MayLeave(f, e)) /\ out = <<e>>
  <2>1. Len(out) = 1 /\ out[1] = e
    BY <1>3
  <2> QED
    BY <1>3, <2>1, EventFacts DEF TagTells, Usable, MayLeave
<1> QED
  BY <1>1, <1>2, <1>3

\* Every filter that promises a tag keeps the promise on every event but those it
\* panics on.
LEMMA TagsTell ==
  ASSUME NEW f \in Tagging, NEW e \in StepEvent
  PROVE  (f \in {"xml", "bytes"} /\ CutsWide(e)) \/ TagTells(f, e, Filter(f, e))
<1> DEFINE out == Filter(f, e)
<1> SUFFICES ASSUME ~ (f \in {"xml", "bytes"} /\ CutsWide(e))
             PROVE  \/ Settled(e, out)
                    \/ ~ Usable(e) /\ out = <<AddTag(e)>>
                    \/ (~ Usable(e) \/ MayLeave(f, e)) /\ out = <<e>>
  BY OutcomesTell
<1>0. e.src \in Values /\ e.flag \in BOOLEAN /\ e.target \in BOOLEAN /\ e.env \in Envs
      /\ e.dst \in {"absent", "old"}
  BY DEF StepEvent
<1>1. CASE f = "grok"
  <2>1. out = GrokFilter(e)
    BY <1>1 DEF Filter
  <2> QED
    BY <1>0, <1>1, <2>1 DEF GrokFilter, GrokMatch, SetIf, Settled, Usable, MayLeave
<1>2. CASE f = "date"
  <2>1. out = DateFilter(e)
    BY <1>2 DEF Filter
  <2> QED
    BY <1>0, <1>2, <2>1 DEF DateFilter, TryParseDate, SetOrTag, Settled, Usable, MayLeave
<1>3. CASE f = "dissect"
  <2>1. out = DissectFilter(e)
    BY <1>3 DEF Filter
  <2> QED
    BY <1>0, <1>3, <2>1 DEF DissectFilter, DissectTokens, SetOrTag, Settled, Usable, MayLeave
<1>4. CASE f = "json"
  <2>1. out = JsonFilter(e)
    BY <1>4 DEF Filter
  <2> QED
    BY <1>0, <1>4, <2>1 DEF JsonFilter, SetIf, Settled, Usable, MayLeave
<1>5. CASE f = "xml"
  <2>1. out = XmlFilter(e)
    BY <1>5 DEF Filter
  <2>2. CASE e.src = "absent"
    <3>1. XmlFilter(e) = <<e>>
      BY <1>5, <2>2 DEF XmlFilter, ParseXml
    <3> QED
      BY <2>1, <2>2, <3>1 DEF Usable
  <2>3. CASE e.src # "absent" /\ ~ ParseXml(e.src)
    BY <1>5, <2>1, <2>3 DEF XmlFilter, ParseXml, Usable
  <2>4. CASE e.src # "absent" /\ ParseXml(e.src)
    BY <1>5, <2>1, <2>4 DEF XmlFilter, Settled
  <2> QED
    BY <2>2, <2>3, <2>4
<1>6. CASE f = "bytes"
  <2>1. out = BytesFilter(e)
    BY <1>6 DEF Filter
  <2> QED
    BY <1>0, <1>6, <2>1 DEF BytesFilter, ParseBytes, SetOrTag, Settled, Usable, MayLeave
<1>7. CASE f = "geoip"
  <2>1. out = GeoipFilter(e)
    BY <1>7 DEF Filter
  <2> QED
    BY <1>0, <1>7, <2>1 DEF GeoipFilter, LookupIp, SetOrTag, Settled, Usable, MayLeave
<1>8. CASE f = "script"
  <2>1. out = ScriptFilter(e)
    BY <1>8 DEF Filter
  <2> QED
    BY <1>0, <1>8, <2>1 DEF ScriptFilter, Settled, Usable, MayLeave
<1>9. CASE f = "elasticsearch"
  <2>1. out = ElasticsearchFilter(e)
    BY <1>9 DEF Filter
  <2> QED
    BY <1>0, <1>9, <2>1 DEF ElasticsearchFilter, ExecuteQuery, SetIf, Settled, Usable, MayLeave
<1> QED
  BY <1>1, <1>2, <1>3, <1>4, <1>5, <1>6, <1>7, <1>8, <1>9 DEF Tagging

\* The last event and what its filter made of it.
LastInv ==
  last # Nothing =>
    /\ last.e \in StepEvent /\ last.out = Filter(last.f, last.e)

\* A step of a stateless filter leaves one of the outcomes of its event.
LEMMA LastStep == LastInv /\ [Next]_vars => LastInv'
<1> SUFFICES ASSUME LastInv, [Next]_vars PROVE LastInv'
  OBVIOUS
<1>1. CASE last' = last
  BY <1>1 DEF LastInv
<1>2. ASSUME NEW w \in Workers, NEW f \in StatelessKinds, NEW e \in StepEvent,
             FilterEvent(w, f, e)
      PROVE  LastInv'
  BY <1>2 DEF FilterEvent, LastInv
<1>3. CASE Tick \/ Change \/ UNCHANGED vars
  BY <1>1, <1>3 DEF Tick, Change, vars
<1>4. ASSUME NEW w \in Workers,
             \/ \E k \in Keys : Throttle(w, k) \/ Aggregate(w, k) \/ Metrics(w, k)
                                \/ StreamGet(w, k)
             \/ StreamQuery(w) \/ StreamInsert(w)
             \/ StaticCheck(w) \/ StaticLock(w) \/ StaticLoad(w) \/ StaticLookup(w)
      PROVE  LastInv'
  BY <1>1, <1>4 DEF Throttle, Aggregate, Metrics, StreamGet, StreamQuery, StreamInsert,
     StaticCheck, StaticLock, StaticLoad, StaticLookup
<1> QED
  BY <1>2, <1>3, <1>4 DEF Next

\* An event on which a filter that promises a tag fails keeps its fields, and one it can
\* use, with the outside world answering, gets its result and no tag, whatever the
\* settings; wide text that xml and bytes panic on is left out.
THEOREM TaggedIffUndoneHolds == Spec => []TaggedIffUndone
<1>1. Init => LastInv
  BY DEF Init, LastInv
<1>2. LastInv => TaggedIffUndone
  <2> SUFFICES ASSUME LastInv, last # Nothing, last.f \in Tagging
               PROVE  \/ last.f \in {"xml", "bytes"} /\ CutsWide(last.e)
                      \/ TagTells(last.f, last.e, last.out)
    BY DEF TaggedIffUndone, TagTells
  <2> QED
    BY TagsTell DEF LastInv
<1> QED
  BY <1>1, <1>2, LastStep, PTL DEF Spec

-----------------------------------------------------------------------------
(* Which steps a kind of filter has.                                       *)

\* Only the two filters that await have workers inside filter(), and only a filter
\* without state ends one.
WorkerInv ==
  /\ DOMAIN wk = Workers /\ clock \in Nat
  /\ \A w \in Workers :
       \/ wk[w].pc = "idle"
       \/ kind = "stateless" /\ wk[w].pc = "ended"
       \/ kind = "jdbc_streaming" /\ wk[w].pc \in {"query", "rows"}
       \/ kind = "jdbc_static" /\ wk[w].pc \in {"wantWrite", "load", "lookup"}

\* The clock and the database move on their own and touch no filter.
Elsewhere ==
  /\ clock' \in {clock, clock + 1}
  /\ UNCHANGED <<kind, setting, given, last, table, order, wk, writer, passes, pushed,
                 served, slow, loads>>

StreamStep(w) ==
  (\E k \in Keys : StreamGet(w, k)) \/ StreamQuery(w) \/ StreamInsert(w)
StaticStep(w) == StaticCheck(w) \/ StaticLock(w) \/ StaticLoad(w) \/ StaticLookup(w)

\* What a step can be: one that leaves the workers alone, or the step of a
\* worker under the kind of filter it belongs to.
LEMMA StepKinds ==
  ASSUME WorkerInv, [Next]_vars
  PROVE  \/ Elsewhere
         \/ \E w \in Workers :
              /\ clock' = clock /\ kind' = kind /\ setting' = setting
              /\ \/ /\ kind = "stateless" /\ wk' \in {wk, [wk EXCEPT ![w] = Ended]}
                    /\ UNCHANGED <<table, order, writer, passes, pushed, served, slow, loads>>
                 \/ kind = "throttle" /\ \E k \in Keys : Throttle(w, k)
                 \/ kind = "aggregate" /\ \E k \in Keys : Aggregate(w, k)
                 \/ kind = "metrics" /\ \E k \in Keys : Metrics(w, k)
                 \/ kind = "jdbc_streaming" /\ StreamStep(w)
                 \/ kind = "jdbc_static" /\ StaticStep(w)
<1> USE DEF frame
<1>1. CASE Tick \/ Change \/ UNCHANGED vars
  BY <1>1 DEF Tick, Change, vars, Elsewhere
<1>2. ASSUME NEW w \in Workers, NEW f \in StatelessKinds, NEW e \in StepEvent,
             FilterEvent(w, f, e)
      PROVE  /\ clock' = clock /\ kind' = kind /\ setting' = setting /\ kind = "stateless"
             /\ wk' \in {wk, [wk EXCEPT ![w] = Ended]}
             /\ UNCHANGED <<table, order, writer, passes, pushed, served, slow, loads>>
  BY <1>2 DEF FilterEvent
<1>3. ASSUME NEW w \in Workers, NEW k \in Keys, Throttle(w, k)
      PROVE  clock' = clock /\ kind' = kind /\ setting' = setting /\ kind = "throttle"
  BY <1>3 DEF Throttle
<1>4. ASSUME NEW w \in Workers, NEW k \in Keys, Aggregate(w, k)
      PROVE  clock' = clock /\ kind' = kind /\ setting' = setting /\ kind = "aggregate"
  BY <1>4 DEF Aggregate
<1>5. ASSUME NEW w \in Workers, NEW k \in Keys, Metrics(w, k)
      PROVE  clock' = clock /\ kind' = kind /\ setting' = setting /\ kind = "metrics"
  BY <1>5 DEF Metrics
<1>6. ASSUME NEW w \in Workers, StreamStep(w)
      PROVE  clock' = clock /\ kind' = kind /\ setting' = setting /\ kind = "jdbc_streaming"
  BY <1>6 DEF StreamStep, StreamGet, StreamQuery, StreamInsert, WorkerInv
<1>7. ASSUME NEW w \in Workers, StaticStep(w)
      PROVE  clock' = clock /\ kind' = kind /\ setting' = setting /\ kind = "jdbc_static"
  BY <1>7 DEF StaticStep, StaticCheck, StaticLock, StaticLoad, StaticLookup, WorkerInv
<1> QED
  BY <1>1, <1>2, <1>3, <1>4, <1>5, <1>6, <1>7 DEF Next, StreamStep, StaticStep

\* Every step keeps the workers where their kind of filter has them.
LEMMA WorkerStep == WorkerInv /\ [Next]_vars => WorkerInv'
<1> SUFFICES ASSUME WorkerInv, [Next]_vars PROVE WorkerInv'
  OBVIOUS
<1>0. DOMAIN wk = Workers /\ clock \in Nat
  BY DEF WorkerInv
<1>1. CASE Elsewhere
  BY <1>0, <1>1 DEF WorkerInv, Elsewhere
<1>2. ASSUME NEW w \in Workers, clock' = clock, kind' = kind, wk' = wk
      PROVE  WorkerInv'
  BY <1>2 DEF WorkerInv
<1>6. ASSUME NEW w \in Workers, clock' = clock, kind' = kind, kind = "stateless",
             wk' = [wk EXCEPT ![w] = Ended]
      PROVE  WorkerInv'
  <2>1. Ended.pc = "ended"
    BY DEF Ended
  <2> QED
    BY <1>0, <1>6, <2>1 DEF WorkerInv
<1>3. ASSUME NEW w \in Workers, clock' = clock, kind' = kind, kind = "jdbc_streaming",
             StreamStep(w)
      PROVE  WorkerInv'
  <2>1. \/ wk' = wk
        \/ \E x : wk' = [wk EXCEPT ![w] = x] /\ x.pc \in {"idle", "query", "rows"}
    <3>1. CASE StreamQuery(w)
      <4>1. Idle.pc = "idle"
        BY DEF Idle
      <4>2. [pc |-> "rows", key |-> wk[w].key, read |-> clock].pc = "rows"
        OBVIOUS
      <4> QED
        BY <3>1, <4>1, <4>2, Zenon DEF StreamQuery
    <3>2. CASE StreamInsert(w)
      <4>1. wk' = [wk EXCEPT ![w] = Idle]
        BY <3>2 DEF StreamInsert
      <4>2. Idle.pc \in {"idle", "query", "rows"}
        BY DEF Idle
      <4> QED
        BY <4>1, <4>2, Zenon
    <3>3. ASSUME NEW k \in Keys, StreamGet(w, k)
          PROVE  \/ wk' = wk
                 \/ \E x : wk' = [wk EXCEPT ![w] = x] /\ x.pc \in {"idle", "query", "rows"}
      <4>1. CASE wk' = wk
        BY <4>1
      <4>2. CASE wk' = [wk EXCEPT ![w] = [pc |-> "query", key |-> k]]
        <5>1. [pc |-> "query", key |-> k].pc \in {"idle", "query", "rows"}
          OBVIOUS
        <5> QED
          BY <4>2, <5>1, Zenon
      <4> QED
        BY <3>3, <4>1, <4>2 DEF StreamGet
    <3> QED
      BY <1>3, <3>1, <3>2, <3>3 DEF StreamStep
  <2> QED
    BY <1>0, <1>3, <2>1 DEF WorkerInv
<1>4. ASSUME NEW w \in Workers, clock' = clock, kind' = kind, kind = "jdbc_static",
             StaticStep(w)
      PROVE  WorkerInv'
  <2>1. \E x : wk' = [wk EXCEPT ![w] = x] /\ x.pc \in {"idle", "wantWrite", "load", "lookup"}
    <3>1. \A s : [pc |-> s].pc = s
      OBVIOUS
    <3>2. CASE StaticCheck(w)
      <4>1. wk' = [wk EXCEPT ![w] = [pc |-> "lookup"]]
            \/ wk' = [wk EXCEPT ![w] = [pc |-> "wantWrite"]]
        BY <3>2 DEF StaticCheck
      <4> QED
        BY <3>1, <4>1
    <3>3. CASE StaticLock(w)
      BY <3>1, <3>3 DEF StaticLock
    <3>4. CASE StaticLoad(w)
      BY <3>1, <3>4 DEF StaticLoad, Idle
    <3>5. CASE StaticLookup(w)
      BY <3>1, <3>5 DEF StaticLookup, Idle
    <3> QED
      BY <1>4, <3>2, <3>3, <3>4, <3>5 DEF StaticStep
  <2> QED
    BY <1>0, <1>4, <2>1 DEF WorkerInv
<1>5. ASSUME NEW w \in Workers, NEW k \in Keys, Throttle(w, k) \/ Aggregate(w, k) \/ Metrics(w, k)
      PROVE  wk' = wk
  BY <1>5 DEF Throttle, Aggregate, Metrics
<1> QED
  BY StepKinds, <1>1, <1>2, <1>3, <1>4, <1>5, <1>6

\* The workers start idle.
LEMMA InitWorkers == Init => WorkerInv
BY DEF Init, WorkerInv, Idle

-----------------------------------------------------------------------------
(* Reference data is loaded once per interval.                             *)

\* The write lock belongs to the one worker that loads, and it found the data stale.
StaticInv ==
  kind = "jdbc_static" =>
    /\ loads \in Seq(Nat)
    /\ \A i \in 1 .. Len(loads) - 1 : loads[i + 1] - loads[i] > Ttl
    /\ writer # Nothing => writer \in Workers /\ wk[writer].pc = "load"
    /\ \A w \in Workers : wk[w].pc = "load" => writer = w /\ ~ IsFresh

\* Every step keeps the loads apart and the lock with its loader.
LEMMA StaticInvStep == WorkerInv /\ StaticInv /\ [Next]_vars => StaticInv'
<1> SUFFICES ASSUME WorkerInv, StaticInv, [Next]_vars PROVE StaticInv'
  OBVIOUS
<1> USE FilterAssumption
<1>0. DOMAIN wk = Workers /\ clock \in Nat /\ Ttl \in Nat
  BY DEF WorkerInv
<1>1. CASE Elsewhere
  <2>1. SUFFICES ASSUME kind = "jdbc_static" PROVE StaticInv'
    BY <1>1 DEF StaticInv, Elsewhere
  <2>2. ~ IsFresh => ~ IsFresh'
    <3>1. CASE loads = <<>>
      BY <1>1, <3>1 DEF IsFresh, Elsewhere
    <3>2. CASE loads # <<>>
      <4>1. Last(loads) \in Nat
        BY <2>1, <3>2, LenProperties, EmptySeq DEF StaticInv, Last
      <4> QED
        BY <1>0, <1>1, <3>2, <4>1 DEF IsFresh, Elsewhere
    <3> QED
      BY <3>1, <3>2
  <2> QED
    BY <1>1, <2>1, <2>2 DEF StaticInv, Elsewhere
<1>2. ASSUME kind # "jdbc_static", kind' = kind PROVE StaticInv'
  BY <1>2 DEF StaticInv
<1>3. ASSUME NEW w \in Workers, clock' = clock, kind' = kind, kind = "jdbc_static",
             StaticStep(w)
      PROVE  StaticInv'
  <2>0. /\ loads \in Seq(Nat)
        /\ \A i \in 1 .. Len(loads) - 1 : loads[i + 1] - loads[i] > Ttl
        /\ writer # Nothing => writer \in Workers /\ wk[writer].pc = "load"
        /\ \A v \in Workers : wk[v].pc = "load" => writer = v /\ ~ IsFresh
        /\ w # Nothing
    BY <1>3 DEF StaticInv
  <2>1. CASE StaticCheck(w)
    <3>1. /\ loads' = loads /\ writer' = Nothing /\ writer = Nothing
          /\ wk' = [wk EXCEPT ![w] = [pc |-> "lookup"]]
             \/ wk' = [wk EXCEPT ![w] = [pc |-> "wantWrite"]]
      BY <2>1 DEF StaticCheck
    <3>2. \A v \in Workers : wk'[v].pc # "load"
      BY <1>0, <2>0, <3>1
    <3> QED
      BY <1>3, <2>0, <3>1, <3>2 DEF StaticInv
  <2>2. CASE StaticLock(w)
    <3>1. loads' = loads /\ writer = Nothing /\ IsFresh' = IsFresh
      BY <1>3, <2>2 DEF StaticLock, IsFresh
    <3>2. \A v \in Workers : wk[v].pc # "load"
      BY <2>0, <3>1
    <3>3. CASE IsFresh
      <4>1. wk' = [wk EXCEPT ![w] = [pc |-> "lookup"]] /\ writer' = writer
        BY <2>2, <3>3 DEF StaticLock
      <4>2. \A v \in Workers : wk'[v].pc # "load"
        BY <1>0, <3>2, <4>1
      <4> QED
        BY <1>3, <2>0, <3>1, <4>1, <4>2 DEF StaticInv
    <3>4. CASE ~ IsFresh
      <4>1. wk' = [wk EXCEPT ![w] = [pc |-> "load"]] /\ writer' = w
        BY <2>2, <3>4 DEF StaticLock
      <4>2. wk'[w].pc = "load" /\ \A v \in Workers : wk'[v].pc = "load" => v = w
        BY <1>0, <3>2, <4>1
      <4> QED
        BY <1>3, <2>0, <3>1, <3>4, <4>1, <4>2 DEF StaticInv
    <3> QED
      BY <3>3, <3>4
  <2>3. CASE StaticLoad(w)
    <3>1. writer = w /\ ~ IsFresh /\ wk[w].pc = "load" /\ writer' = Nothing
      BY <2>0, <2>3 DEF StaticLoad
    <3>2. \/ loads' = Append(loads, clock) /\ wk' = [wk EXCEPT ![w] = [pc |-> "lookup"]]
          \/ loads' = loads /\ wk' = [wk EXCEPT ![w] = Idle]
      BY <2>3 DEF StaticLoad
    <3>3. \A v \in Workers : wk'[v].pc # "load"
      <4>1. wk'[w].pc \in {"lookup", "idle"} /\ \A v \in Workers \ {w} : wk'[v] = wk[v]
        BY <1>0, <3>2 DEF Idle
      <4> QED
        BY <2>0, <3>1, <4>1
    <3>4. CASE loads' = Append(loads, clock)
      <4>1. PICK n \in Nat : n = Len(loads)
        BY <2>0, LenProperties
      <4>2. /\ loads' \in Seq(Nat) /\ Len(loads') = n + 1
            /\ \A i \in 1 .. n : loads'[i] = loads[i]
            /\ loads'[n + 1] = clock
        BY <1>0, <2>0, <3>4, <4>1, AppendProperties
      <4>3. ASSUME NEW i \in 1 .. n PROVE loads'[i + 1] - loads'[i] > Ttl
        <5>1. CASE i = n
          <6>1. loads # <<>> /\ Last(loads) = loads[n] /\ loads[n] \in Nat
            BY <2>0, <4>1, <5>1, EmptySeq, LenProperties DEF Last
          <6>2. ~ (clock - loads[n] <= Ttl)
            BY <3>1, <6>1 DEF IsFresh
          <6>3. loads'[i + 1] = clock /\ loads'[i] = loads[n]
            BY <4>2, <5>1
          <6>4. clock \in Nat /\ Ttl \in Nat
            BY <1>0
          <6>5. clock - loads[n] > Ttl
            BY <6>1, <6>2, <6>4
          <6> QED
            BY <6>3, <6>5
        <5>2. CASE i # n
          <6>1. i \in 1 .. Len(loads) - 1 /\ i + 1 \in 1 .. n
            BY <4>1, <5>2
          <6> QED
            BY <2>0, <4>2, <6>1
        <5> QED
          BY <5>1, <5>2
      <4> QED
        BY <3>1, <3>3, <4>2, <4>3 DEF StaticInv
    <3>5. CASE loads' = loads
      BY <2>0, <3>1, <3>3, <3>5 DEF StaticInv
    <3> QED
      BY <3>2, <3>4, <3>5
  <2>4. CASE StaticLookup(w)
    <3>1. loads' = loads /\ writer' = Nothing /\ writer = Nothing
          /\ wk' = [wk EXCEPT ![w] = Idle]
      BY <2>4 DEF StaticLookup
    <3>2. \A v \in Workers : wk'[v].pc # "load"
      BY <1>0, <2>0, <3>1 DEF Idle
    <3> QED
      BY <1>3, <2>0, <3>1, <3>2 DEF StaticInv
  <2> QED
    BY <1>3, <2>1, <2>2, <2>3, <2>4 DEF StaticStep
<1> QED
  BY StepKinds, <1>1, <1>2, <1>3

\* However many workers find the reference data stale at once, it is loaded once per
\* refresh interval, and the lock is held only by the worker that loads.
THEOREM LoadsApartHolds == Spec => []LoadsApart
<1>1. Init => StaticInv
  <2> SUFFICES ASSUME Init PROVE StaticInv
    OBVIOUS
  <2>1. loads = <<>> /\ writer = Nothing /\ \A w \in Workers : wk[w].pc = "idle"
    BY DEF Init, Idle
  <2> QED
    BY <2>1, EmptySeq DEF StaticInv
<1>2. StaticInv => LoadsApart
  BY DEF StaticInv, LoadsApart
<1> QED
  BY <1>1, <1>2, InitWorkers, WorkerStep, StaticInvStep, PTL DEF Spec

-----------------------------------------------------------------------------
(* throttle.                                                               *)

\* How many events a window lets through, and how many of its first n it has.
First == IF BeforeCount > 0 THEN BeforeCount ELSE 0
Let(n) == IF n <= First THEN 0 ELSE IF n > AfterCount THEN Allowance ELSE n - First

\* What the times p of a key's events tell with its window win open at time now:
\* all but the window's own lie before it, and the previous window's, all but the
\* last Allowance of those, a period before it.
OpenInv(p, win, now) ==
  /\ win.count \in Nat /\ win.start \in Nat /\ win.start <= now
  /\ Let(win.count) <= Len(p)
  /\ \A i \in 1 .. Len(p) :
       /\ i <= Len(p) - Let(win.count) => p[i] <= win.start
       /\ i <= Len(p) - Let(win.count) - Allowance => p[i] + WindowLife <= win.start

\* And without a window.
ShutInv(p, now) == \A i \in 1 .. Len(p) : i <= Len(p) - Allowance => p[i] + WindowLife <= now

PassInv(p, now) ==
  /\ p \in Seq(Nat)
  /\ \A i \in 1 .. Len(p) :
       /\ p[i] <= now
       /\ i + 2 * Allowance <= Len(p) => p[i] + WindowLife <= p[i + 2 * Allowance]

ThrottleInv ==
  /\ DOMAIN passes = Keys
  /\ \A k \in Keys : PassInv(passes[k], clock)
  /\ kind # "throttle" => \A k \in Keys : passes[k] = <<>>
  /\ kind = "throttle" =>
       \A k \in Keys : IF k \in DOMAIN table THEN OpenInv(passes[k], table[k], clock)
                                             ELSE ShutInv(passes[k], clock)

\* The constants a throttle counts with.
LEMMA ThrottleFacts ==
  /\ Allowance \in Nat /\ WindowLife \in Nat /\ Period \in Nat /\ MaxAge \in Nat
  /\ MaxAge >= WindowLife /\ Period >= WindowLife
  /\ \A n \in Nat : Let(n) \in Nat /\ Let(n) <= Allowance /\ Let(0) = 0
  /\ AfterCount >= 0 =>
       \A n \in Nat : Let(n + 1) = IF Throttled(n + 1) THEN Let(n) ELSE Let(n) + 1
<1>1. /\ BeforeCount \in Int /\ AfterCount \in Int
      /\ Period \in Nat /\ MaxAge \in Nat
  BY FilterAssumption
<1>2. PICK first \in Nat : first = First /\ (BeforeCount >= 0 => first = BeforeCount)
                          /\ (BeforeCount < 0 => first = 0)
  BY <1>1 DEF First
<1>3. Allowance = IF AfterCount > first THEN AfterCount - first ELSE 0
  BY <1>2 DEF Allowance, First
<1>4. WindowLife \in Nat /\ MaxAge >= WindowLife /\ Period >= WindowLife
  BY <1>1 DEF WindowLife
<1>5. \A n \in Nat : Let(n) = IF n <= first THEN 0 ELSE IF n > AfterCount THEN Allowance
                                                        ELSE n - first
  BY <1>2 DEF Let
<1>6. \A n \in Nat : Let(n) \in Nat /\ Let(n) <= Allowance /\ Let(0) = 0
  BY <1>1, <1>3, <1>5
<1>7. ASSUME AfterCount >= 0, NEW n \in Nat
      PROVE  Let(n + 1) = IF Throttled(n + 1) THEN Let(n) ELSE Let(n) + 1
  <2>1. Throttled(n + 1) <=> n + 1 <= first \/ n + 1 > AfterCount
    BY <1>1, <1>2, <1>7 DEF Throttled
  <2>2. PICK m \in Nat : m = n + 1
    OBVIOUS
  <2>3. Let(m) = IF m <= first THEN 0 ELSE IF m > AfterCount THEN Allowance ELSE m - first
    BY <1>5
  <2> QED
    BY <1>1, <1>3, <1>5, <1>7, <2>1, <2>2, <2>3
<1> QED
  BY <1>1, <1>3, <1>4, <1>6, <1>7

\* Time alone changes nothing.
LEMMA LaterKeeps ==
  ASSUME NEW p, NEW now \in Nat, NEW then \in Nat, now <= then, PassInv(p, now)
  PROVE  /\ PassInv(p, then)
         /\ \A win : OpenInv(p, win, now) => OpenInv(p, win, then)
         /\ ShutInv(p, now) => ShutInv(p, then)
<1>1. p \in Seq(Nat) /\ Len(p) \in Nat /\ \A i \in 1 .. Len(p) : p[i] \in Nat
  BY LenProperties, ElementOfSeq DEF PassInv
<1>2. WindowLife \in Nat /\ Allowance \in Nat
  BY ThrottleFacts
<1>3. PassInv(p, then)
  BY <1>1, <1>2 DEF PassInv
<1>4. \A win : OpenInv(p, win, now) => OpenInv(p, win, then)
  BY <1>1, <1>2 DEF OpenInv
<1>5. ShutInv(p, now) => ShutInv(p, then)
  BY <1>1, <1>2 DEF ShutInv
<1> QED
  BY <1>3, <1>4, <1>5

\* A window that is old enough can be forgotten.
LEMMA OverForgotten ==
  ASSUME NEW p, NEW win, NEW now \in Nat, PassInv(p, now), OpenInv(p, win, now),
         now - win.start >= WindowLife
  PROVE  ShutInv(p, now)
<1>1. p \in Seq(Nat) /\ Len(p) \in Nat /\ \A i \in 1 .. Len(p) : p[i] \in Nat
  BY LenProperties, ElementOfSeq DEF PassInv
<1>2. /\ WindowLife \in Nat /\ Allowance \in Nat /\ win.start \in Nat /\ win.count \in Nat
      /\ Let(win.count) \in Nat /\ Let(win.count) <= Allowance
  BY ThrottleFacts DEF OpenInv
<1>3. ASSUME NEW i \in 1 .. Len(p), i <= Len(p) - Allowance
      PROVE  p[i] + WindowLife <= now
  <2>1. i <= Len(p) - Let(win.count)
    BY <1>1, <1>2, <1>3
  <2>2. p[i] <= win.start
    BY <2>1 DEF OpenInv
  <2> QED
    BY <1>1, <1>2, <2>2
<1> QED
  BY <1>3 DEF ShutInv

\* A new window counts from nothing.
LEMMA NewWindow ==
  ASSUME NEW p, NEW now \in Nat, PassInv(p, now), ShutInv(p, now)
  PROVE  OpenInv(p, [count |-> 0, start |-> now], now)
<1>1. p \in Seq(Nat) /\ Len(p) \in Nat
  BY LenProperties DEF PassInv
<1>2. Let(0) = 0 /\ Allowance \in Nat
  BY ThrottleFacts
<1> QED
  BY <1>1, <1>2 DEF OpenInv, PassInv, ShutInv

\* An event counted in a window, and let through if its turn is within the limits.
LEMMA Counted ==
  ASSUME AfterCount >= 0,
         NEW p, NEW e, NEW now \in Nat, PassInv(p, now), OpenInv(p, e, now),
         NEW q, q = IF Throttled(e.count + 1) THEN p ELSE Append(p, now),
         NEW win, win.count = e.count + 1, win.start = e.start
  PROVE  PassInv(q, now) /\ OpenInv(q, win, now)
<1>1. p \in Seq(Nat) /\ \A i \in 1 .. Len(p) : p[i] \in Nat
  BY LenProperties, ElementOfSeq DEF PassInv
<1>2. PICK n \in Nat : n = Len(p)
  BY <1>1, LenProperties
<1>3. PICK c \in Nat : c = Let(e.count) /\ c <= Allowance /\ c <= n
  BY <1>2, ThrottleFacts DEF OpenInv
<1>4. /\ e.count \in Nat /\ e.start \in Nat /\ e.start <= now
      /\ WindowLife \in Nat /\ Allowance \in Nat
  BY ThrottleFacts DEF OpenInv
<1>5. CASE Throttled(e.count + 1)
  <2>1. Let(win.count) = Let(e.count) /\ q = p
    BY <1>4, <1>5, ThrottleFacts
  <2> QED
    BY <1>4, <2>1 DEF OpenInv
<1>6. CASE ~ Throttled(e.count + 1)
  <2>1. Let(win.count) = c + 1 /\ c + 1 <= Allowance
    <3>1. Let(e.count + 1) = Let(e.count) + 1
      BY <1>4, <1>6, ThrottleFacts
    <3>2. PICK m \in Nat : m = e.count + 1
      BY <1>4
    <3>3. Let(m) <= Allowance
      BY ThrottleFacts
    <3> QED
      BY <1>3, <3>1, <3>2, <3>3
  <2>2. /\ q \in Seq(Nat) /\ Len(q) = n + 1 /\ q[n + 1] = now
        /\ \A i \in 1 .. n : q[i] = p[i]
    BY <1>1, <1>2, <1>6, AppendProperties
  <2>3. OpenInv(q, win, now)
    <3>1. ASSUME NEW i \in 1 .. n + 1
          PROVE  /\ i <= n + 1 - (c + 1) => q[i] <= e.start
                 /\ i <= n + 1 - (c + 1) - Allowance => q[i] + WindowLife <= e.start
      <4>1. CASE i = n + 1
        BY <1>3, <1>4, <4>1
      <4>2. CASE i # n + 1
        <5>1. i \in 1 .. Len(p) /\ q[i] = p[i]
          BY <1>2, <2>2, <4>2
        <5>2. /\ i <= n - c => p[i] <= e.start
              /\ i <= n - c - Allowance => p[i] + WindowLife <= e.start
          BY <1>2, <1>3, <5>1 DEF OpenInv
        <5> QED
          BY <1>3, <1>4, <5>1, <5>2
      <4> QED
        BY <4>1, <4>2
    <3>2. c + 1 <= n + 1 /\ win.count \in Nat
      BY <1>3, <1>4
    <3> QED
      BY <1>4, <2>1, <2>2, <3>1, <3>2 DEF OpenInv
  <2>4. ASSUME NEW i \in 1 .. n + 1
        PROVE  /\ q[i] <= now
               /\ i + 2 * Allowance <= n + 1 => q[i] + WindowLife <= q[i + 2 * Allowance]
    <3>1. CASE i = n + 1
      BY <1>3, <1>4, <2>1, <2>2, <3>1
    <3>2. CASE i # n + 1
      <4>1. i \in 1 .. n /\ q[i] = p[i] /\ p[i] \in Nat
        BY <1>1, <1>2, <2>2, <3>2
      <4>2. CASE i + 2 * Allowance = n + 1
        <5>1. i <= n - c - Allowance
          BY <1>3, <1>4, <2>1, <4>1, <4>2
        <5>2. p[i] + WindowLife <= e.start
          BY <1>2, <1>3, <4>1, <5>1 DEF OpenInv
        <5>3. q[i + 2 * Allowance] = now
          BY <2>2, <4>2
        <5>4. p[i] <= now
          BY <1>2, <4>1 DEF PassInv
        <5>5. p[i] + WindowLife <= now
          BY <1>4, <4>1, <5>2
        <5> QED
          BY <4>1, <5>3, <5>4, <5>5
      <4>3. CASE i + 2 * Allowance # n + 1
        <5>1. i + 2 * Allowance <= n + 1 => i + 2 * Allowance \in 1 .. n
          BY <1>4, <4>1, <4>3
        <5> QED
          BY <1>2, <1>4, <2>2, <4>1, <5>1 DEF PassInv
      <4> QED
        BY <4>2, <4>3
    <3> QED
      BY <3>1, <3>2
  <2> QED
    BY <2>2, <2>3, <2>4 DEF PassInv
<1> QED
  BY <1>5, <1>6

\* Every step keeps what the windows tell of the times events passed.
LEMMA ThrottleInvStep ==
  ASSUME AfterCount >= 0
  PROVE  WorkerInv /\ ThrottleInv /\ [Next]_vars => ThrottleInv'
<1> SUFFICES ASSUME WorkerInv, ThrottleInv, [Next]_vars PROVE ThrottleInv'
  OBVIOUS
<1>0. clock \in Nat
  BY DEF WorkerInv
<1>1. CASE Elsewhere
  <2>1. clock' \in Nat /\ clock <= clock'
    BY <1>0, <1>1 DEF Elsewhere
  <2>2. passes' = passes /\ table' = table /\ kind' = kind
    BY <1>1 DEF Elsewhere
  <2> QED
    BY <1>0, <2>1, <2>2, LaterKeeps DEF ThrottleInv
<1>2. ASSUME clock' = clock, kind' = kind, kind # "throttle", passes' = passes
      PROVE  ThrottleInv'
  BY <1>2 DEF ThrottleInv
<1>3. ASSUME NEW w \in Workers, NEW k \in Keys, clock' = clock, kind' = kind,
             kind = "throttle", Throttle(w, k)
      PROVE  ThrottleInv'
  <2> DEFINE young == Young(table)
             e == ThrottleWindow(young, k)
             win == [e EXCEPT !.count = e.count + 1]
  <2>1. /\ table' = Insert(young, k, win)
        /\ passes' = IF Throttled(e.count + 1) THEN passes
                     ELSE [passes EXCEPT ![k] = Append(@, clock)]
    BY <1>3 DEF Throttle
  <2>2. /\ DOMAIN passes = Keys
        /\ \A x \in Keys : PassInv(passes[x], clock)
        /\ \A x \in Keys : IF x \in DOMAIN table THEN OpenInv(passes[x], table[x], clock)
                                                 ELSE ShutInv(passes[x], clock)
    BY <1>3 DEF ThrottleInv
  <2>3. \A x \in Keys : IF x \in DOMAIN young THEN young[x] = table[x] /\ OpenInv(passes[x], table[x], clock)
                                              ELSE ShutInv(passes[x], clock)
    <3> SUFFICES ASSUME NEW x \in Keys
                 PROVE  IF x \in DOMAIN young
                        THEN young[x] = table[x] /\ OpenInv(passes[x], table[x], clock)
                        ELSE ShutInv(passes[x], clock)
      OBVIOUS
    <3>1. CASE x \in DOMAIN young
      BY <2>2, <3>1 DEF Young, Restrict
    <3>2. CASE x \notin DOMAIN table
      BY <2>2, <3>2 DEF Young, Restrict
    <3>3. CASE x \in DOMAIN table /\ x \notin DOMAIN young
      <4>1. OpenInv(passes[x], table[x], clock)
        BY <2>2, <3>3
      <4>2. ~ (clock - table[x].start < MaxAge)
        BY <3>3 DEF Young, Restrict
      <4>3. table[x].start \in Nat
        BY <4>1 DEF OpenInv
      <4>4. MaxAge \in Nat /\ WindowLife \in Nat /\ MaxAge >= WindowLife
        BY ThrottleFacts
      <4>5. clock - table[x].start >= WindowLife
        BY <1>0, <4>2, <4>3, <4>4
      <4> QED
        BY <1>0, <2>2, <3>3, <4>1, <4>5, OverForgotten
    <3> QED
      BY <3>1, <3>2, <3>3
  <2>4. OpenInv(passes[k], e, clock)
    <3>1. CASE k \in DOMAIN young /\ clock - young[k].start < Period
      BY <2>3, <3>1 DEF ThrottleWindow
    <3>2. CASE ~ (k \in DOMAIN young /\ clock - young[k].start < Period)
      <4>1. e = [count |-> 0, start |-> clock]
        BY <3>2 DEF ThrottleWindow
      <4>2. ShutInv(passes[k], clock)
        <5>1. CASE k \notin DOMAIN young
          BY <2>3, <5>1
        <5>2. CASE k \in DOMAIN young
          <6>1. OpenInv(passes[k], young[k], clock)
            BY <2>3, <5>2
          <6>2. /\ young[k].start \in Nat
                /\ Period \in Nat /\ WindowLife \in Nat /\ Period >= WindowLife
            BY <6>1, ThrottleFacts DEF OpenInv
          <6>3. clock - young[k].start >= WindowLife
            BY <1>0, <3>2, <5>2, <6>2
          <6> QED
            BY <1>0, <2>2, <6>1, <6>3, OverForgotten
        <5> QED
          BY <5>1, <5>2
      <4> QED
        BY <1>0, <2>2, <4>1, <4>2, NewWindow
    <3> QED
      BY <3>1, <3>2
  <2>5. win.count = e.count + 1 /\ win.start = e.start
    <3>1. e = young[k] \/ e = [count |-> 0, start |-> clock]
      BY DEF ThrottleWindow
    <3> QED
      BY <3>1
  <2>6. /\ DOMAIN passes' = Keys
        /\ \A x \in Keys \ {k} : passes'[x] = passes[x]
        /\ passes'[k] = IF Throttled(e.count + 1) THEN passes[k] ELSE Append(passes[k], clock)
    BY <2>1, <2>2
  <2>7. PassInv(passes'[k], clock) /\ OpenInv(passes'[k], win, clock)
    BY <1>0, <2>2, <2>4, <2>5, <2>6, Counted
  <2>8. DOMAIN table' = DOMAIN young \union {k} /\ table'[k] = win
        /\ \A x \in DOMAIN young \ {k} : table'[x] = young[x]
    BY <2>1 DEF Insert
  <2>9. ASSUME NEW x \in Keys
        PROVE  /\ PassInv(passes'[x], clock)
               /\ IF x \in DOMAIN table' THEN OpenInv(passes'[x], table'[x], clock)
                                         ELSE ShutInv(passes'[x], clock)
    <3>1. CASE x = k
      BY <2>7, <2>8, <3>1
    <3>2. CASE x # k
      BY <2>2, <2>3, <2>6, <2>8, <3>2
    <3> QED
      BY <3>1, <3>2
  <2> QED
    BY <1>3, <2>6, <2>9 DEF ThrottleInv
<1>4. ASSUME NEW w \in Workers, NEW k \in Keys, Aggregate(w, k) \/ Metrics(w, k)
      PROVE  passes' = passes
  BY <1>4 DEF Aggregate, Metrics
<1>5. ASSUME NEW w \in Workers, StreamStep(w) \/ StaticStep(w)
      PROVE  passes' = passes
  BY <1>5 DEF StreamStep, StreamGet, StreamQuery, StreamInsert,
              StaticStep, StaticCheck, StaticLock, StaticLoad, StaticLookup
<1> QED
  BY StepKinds, <1>1, <1>2, <1>3, <1>4, <1>5

\* Whatever the settings, as long as there is an after_count: any stretch shorter than
\* the period, or than max_age when that is shorter, lets at most twice the allowance of a
\* key's events through, however windows are reset and removed.
THEOREM ThrottleLimitHolds == Spec => []ThrottleLimit
<1>1. Init => ThrottleInv
  <2> SUFFICES ASSUME Init PROVE ThrottleInv
    OBVIOUS
  <2>1. /\ DOMAIN passes = Keys /\ \A k \in Keys : passes[k] = <<>>
        /\ DOMAIN table = {} /\ clock = 0
    BY DEF Init
  <2>2. <<>> \in Seq(Nat) /\ Len(<<>>) = 0
    BY EmptySeq
  <2>3. PassInv(<<>>, clock) /\ ShutInv(<<>>, clock)
    BY <2>2 DEF PassInv, ShutInv
  <2> QED
    BY <2>1, <2>3 DEF ThrottleInv
<1>2. ThrottleInv => ThrottleLimit
  <2> SUFFICES ASSUME ThrottleInv, NEW k \in Keys, NEW i \in DOMAIN passes[k],
                      i + 2 * Allowance \in DOMAIN passes[k]
               PROVE  passes[k][i + 2 * Allowance] - passes[k][i] >= WindowLife
    BY DEF ThrottleLimit
  <2>1. PassInv(passes[k], clock)
    BY DEF ThrottleInv
  <2>2. PICK n \in Nat : n = Len(passes[k]) /\ DOMAIN passes[k] = 1 .. n
    BY <2>1, LenProperties DEF PassInv
  <2>3. \A x \in 1 .. n : passes[k][x] \in Nat
    BY <2>1, <2>2, ElementOfSeq DEF PassInv
  <2>4. passes[k][i] + WindowLife <= passes[k][i + 2 * Allowance]
    <3>1. \A x \in 1 .. n : x + 2 * Allowance <= n
                            => passes[k][x] + WindowLife <= passes[k][x + 2 * Allowance]
      BY <2>1, <2>2 DEF PassInv
    <3>2. i \in 1 .. n /\ i + 2 * Allowance <= n
      BY <2>2, ThrottleFacts
    <3> QED
      BY <3>1, <3>2
  <2>5. WindowLife \in Nat /\ passes[k][i] \in Nat /\ passes[k][i + 2 * Allowance] \in Nat
    BY <2>2, <2>3, ThrottleFacts
  <2> QED
    BY <2>4, <2>5
<1>3. CASE AfterCount >= 0
  <2>1. WorkerInv /\ ThrottleInv /\ [Next]_vars => ThrottleInv'
    BY <1>3, ThrottleInvStep
  <2> QED
    BY <1>1, <1>2, <2>1, InitWorkers, WorkerStep, PTL DEF Spec
<1>4. CASE ~ (AfterCount >= 0)
  <2>1. ThrottleLimit
    BY <1>4 DEF ThrottleLimit
  <2> QED
    BY <2>1, PTL
<1> QED
  BY <1>3, <1>4

-----------------------------------------------------------------------------
(* aggregate.                                                              *)

\* Where the contribution of an event is, and that it is there once: among the
\* members of a sequence of sets, and among the live maps.
Among(q, id) == \E i \in 1 .. Len(q) : id \in q[i]
Apart(S, id) == \A x, y \in S : id \in x /\ id \in y => x = y
Once(q, id) == \A i, j \in 1 .. Len(q) : id \in q[i] /\ id \in q[j] => i = j
Live(t, id) == \E k \in DOMAIN t : id \in t[k].data
LiveOnce(t, id) == \A k, l \in DOMAIN t : id \in t[k].data /\ id \in t[l].data => k = l

AggregateInv ==
  kind = "aggregate" /\ setting.action = "update" =>
    /\ given \in Nat /\ IsFiniteSet(DOMAIN table) /\ pushed \in Seq(SUBSET Nat)
    /\ \A k \in DOMAIN table : table[k].data \in SUBSET Nat
    /\ \A id \in Nat :
         /\ Once(pushed, id) /\ LiveOnce(table, id)
         /\ id \in 1 .. given => (Among(pushed, id) <=> ~ Live(table, id))
         /\ id \notin 1 .. given => ~ Among(pushed, id) /\ ~ Live(table, id)

\* Joined sequences hold what both hold, once if nothing is in both.
LEMMA JoinedOnce ==
  ASSUME NEW p \in Seq(SUBSET Nat), NEW q \in Seq(SUBSET Nat), NEW id
  PROVE  /\ p \o q \in Seq(SUBSET Nat)
         /\ Among(p \o q, id) <=> Among(p, id) \/ Among(q, id)
         /\ Once(p, id) /\ Once(q, id) /\ ~ (Among(p, id) /\ Among(q, id)) => Once(p \o q, id)
<1>1. PICK m \in Nat : m = Len(p)
  BY LenProperties
<1>2. PICK n \in Nat : n = Len(q)
  BY LenProperties
<1> DEFINE r == p \o q
<1>3. r \in Seq(SUBSET Nat) /\ Len(r) = m + n
      /\ \A i \in 1 .. m + n : r[i] = IF i <= m THEN p[i] ELSE q[i - m]
  BY <1>1, <1>2, ConcatProperties
<1>4. \A i \in 1 .. m : i \in 1 .. m + n /\ r[i] = p[i]
  BY <1>3
<1>5. \A i \in 1 .. n : m + i \in 1 .. m + n /\ r[m + i] = q[i]
  <2> SUFFICES ASSUME NEW i \in 1 .. n PROVE m + i \in 1 .. m + n /\ r[m + i] = q[i]
    OBVIOUS
  <2>1. m + i \in 1 .. m + n /\ ~ (m + i <= m) /\ (m + i) - m = i
    OBVIOUS
  <2> QED
    BY <1>3, <2>1
<1>6. \A i \in 1 .. m + n : i \in 1 .. m \/ (i > m /\ i - m \in 1 .. n /\ r[i] = q[i - m])
  BY <1>3
<1>7. Among(r, id) <=> Among(p, id) \/ Among(q, id)
  <2>1. ASSUME Among(p, id) PROVE Among(r, id)
    BY <1>1, <1>3, <1>4, <2>1 DEF Among
  <2>2. ASSUME Among(q, id) PROVE Among(r, id)
    BY <1>2, <1>3, <1>5, <2>2 DEF Among
  <2>3. ASSUME Among(r, id) PROVE Among(p, id) \/ Among(q, id)
    <3>1. PICK i \in 1 .. m + n : id \in r[i]
      BY <1>3, <2>3 DEF Among
    <3> QED
      BY <1>1, <1>2, <1>4, <1>6, <3>1 DEF Among
  <2> QED
    BY <2>1, <2>2, <2>3
<1>8. ASSUME Once(p, id), Once(q, id), ~ (Among(p, id) /\ Among(q, id)) PROVE Once(r, id)
  <2> SUFFICES ASSUME NEW i \in 1 .. m + n, NEW j \in 1 .. m + n, id \in r[i], id \in r[j]
               PROVE  i = j
    BY <1>3 DEF Once
  <2>1. CASE i \in 1 .. m /\ j \in 1 .. m
    BY <1>1, <1>4, <1>8, <2>1 DEF Once
  <2>2. CASE i \notin 1 .. m /\ j \notin 1 .. m
    <3>1. /\ i - m \in 1 .. n /\ r[i] = q[i - m]
          /\ j - m \in 1 .. n /\ r[j] = q[j - m]
      BY <1>6, <2>2
    <3>2. i - m = j - m
      BY <1>2, <1>8, <3>1 DEF Once
    <3> QED
      BY <3>2
  <2>3. CASE i \in 1 .. m /\ j \notin 1 .. m
    BY <1>1, <1>2, <1>4, <1>6, <1>8, <2>3 DEF Among
  <2>4. CASE i \notin 1 .. m /\ j \in 1 .. m
    BY <1>1, <1>2, <1>4, <1>6, <1>8, <2>4 DEF Among
  <2> QED
    BY <2>1, <2>2, <2>3, <2>4
<1> QED
  BY <1>3, <1>7, <1>8

\* A set of maps made a sequence holds what the set holds, and once if the set does.
LEMMA SequencedOnce ==
  ASSUME NEW S \in SUBSET (SUBSET Nat), IsFiniteSet(S), NEW id
  PROVE  /\ SetToSeq(S) \in Seq(SUBSET Nat)
         /\ Among(SetToSeq(S), id) <=> \E x \in S : id \in x
         /\ Apart(S, id) => Once(SetToSeq(S), id)
<1>1. PICK n \in Nat : n = Cardinality(S)
  BY FS_CardinalityType
<1> DEFINE q == SetToSeq(S)
<1>2. q \in [1 .. n -> S] /\ IsInjective(q)
  <2>1. \E f \in [1 .. n -> S] : IsInjective(f)
    <3>1. PICK f : f \in Bijection(1 .. n, S)
      BY <1>1, FS_CardinalityType DEF ExistsBijection
    <3> QED
      BY <3>1 DEF Bijection, Injection
  <2> QED
    BY <1>1, <2>1, Zenon DEF SetToSeq
<1>3. q \in Surjection(1 .. n, S)
  <2>1. q \in Injection(1 .. n, S)
    BY <1>2, Zenon DEF Injection
  <2>2. Cardinality(1 .. n) = n
    BY FS_Interval
  <2> QED
    BY <1>1, <2>1, <2>2, FS_Injection
<1>4. q \in Seq(SUBSET Nat) /\ Len(q) = n
  <2>1. q \in [1 .. n -> SUBSET Nat]
    BY <1>2
  <2> QED
    BY <2>1, LenProperties
<1>5. Among(q, id) <=> \E x \in S : id \in x
  <2>1. ASSUME Among(q, id) PROVE \E x \in S : id \in x
    BY <1>2, <1>4, <2>1 DEF Among
  <2>2. ASSUME NEW x \in S, id \in x PROVE Among(q, id)
    <3>1. PICK i \in 1 .. n : q[i] = x
      BY <1>3 DEF Surjection
    <3> QED
      BY <1>4, <2>2, <3>1 DEF Among
  <2> QED
    BY <2>1, <2>2
<1>6. ASSUME Apart(S, id) PROVE Once(q, id)
  <2> SUFFICES ASSUME NEW i \in 1 .. n, NEW j \in 1 .. n, id \in q[i], id \in q[j]
               PROVE  i = j
    BY <1>4 DEF Once
  <2>1. q[i] = q[j]
    BY <1>2, <1>6 DEF Apart
  <2> QED
    BY <1>2, <2>1 DEF IsInjective
<1> QED
  BY <1>4, <1>5, <1>6

\* Every step keeps each contribution in one place.
LEMMA AggregateInvStep == WorkerInv /\ AggregateInv /\ [Next]_vars => AggregateInv'
<1> SUFFICES ASSUME WorkerInv, AggregateInv, [Next]_vars PROVE AggregateInv'
  OBVIOUS
<1>1. CASE Elsewhere
  BY <1>1 DEF AggregateInv, Elsewhere, Among, Once, Live, LiveOnce
<1>2. ASSUME kind' = kind, kind # "aggregate" PROVE AggregateInv'
  BY <1>2 DEF AggregateInv
<1>3. ASSUME NEW w \in Workers, NEW k \in Keys, kind' = kind, setting' = setting,
             Aggregate(w, k)
      PROVE  AggregateInv'
  <2> SUFFICES ASSUME kind = "aggregate", setting.action = "update" PROVE AggregateInv'
    BY <1>3 DEF AggregateInv
  <2> DEFINE n == given + 1
             over == TimedOut
             live == Without(table, over)
             merged == IF k \in DOMAIN live
                       THEN Insert(live, k, [data |-> live[k].data \union {n}, at |-> clock])
                       ELSE Insert(live, k, [data |-> {n}, at |-> clock])
             gone == {table[x].data : x \in over}
             ended == IF setting.flag = "end" THEN <<merged[k].data>> ELSE <<>>
  <2>1. /\ given' = n
        /\ table' = IF setting.flag = "end" THEN Without(merged, {k}) ELSE merged
        /\ pushed' = (pushed \o SetToSeq(gone)) \o ended
    BY <1>3 DEF Aggregate, Give
  <2>2. /\ given \in Nat /\ IsFiniteSet(DOMAIN table) /\ pushed \in Seq(SUBSET Nat)
        /\ \A x \in DOMAIN table : table[x].data \in SUBSET Nat
        /\ \A id \in Nat :
             /\ Once(pushed, id) /\ LiveOnce(table, id)
             /\ id \in 1 .. given => (Among(pushed, id) <=> ~ Live(table, id))
             /\ id \notin 1 .. given => ~ Among(pushed, id) /\ ~ Live(table, id)
    BY DEF AggregateInv
  <2>3. over \subseteq DOMAIN table
    BY DEF TimedOut
  <2>4. DOMAIN live = DOMAIN table \ over /\ \A x \in DOMAIN live : live[x] = table[x]
    BY DEF Without, Restrict
  <2>5. /\ DOMAIN merged = DOMAIN live \union {k}
        /\ merged[k].data = (IF k \in DOMAIN live THEN table[k].data ELSE {}) \union {n}
        /\ \A x \in DOMAIN live \ {k} : merged[x] = table[x]
    <3>1. CASE k \in DOMAIN live
      BY <2>4, <3>1 DEF Insert
    <3>2. CASE k \notin DOMAIN live
      BY <2>4, <3>2 DEF Insert
    <3> QED
      BY <3>1, <3>2
  <2> HIDE DEF live, merged
  <2>6. n \in Nat /\ given' \in Nat /\ IsFiniteSet(DOMAIN table')
    <3>1. IsFiniteSet(DOMAIN table \ over)
      BY <2>2, FS_Subset
    <3>2. IsFiniteSet(DOMAIN merged)
      BY <2>4, <2>5, <3>1, FS_AddElement
    <3>3. IsFiniteSet(DOMAIN merged \ {k})
      BY <3>2, FS_RemoveElement
    <3> QED
      BY <2>1, <2>2, <3>2, <3>3 DEF Without, Restrict
  <2>7. \A x \in DOMAIN merged : merged[x].data \in SUBSET Nat
    BY <2>2, <2>3, <2>4, <2>5, <2>6
  <2>8. /\ DOMAIN table' = IF setting.flag = "end" THEN DOMAIN merged \ {k} ELSE DOMAIN merged
        /\ \A x \in DOMAIN table' : table'[x] = merged[x]
    BY <2>1 DEF Without, Restrict
  <2>9. gone \in SUBSET (SUBSET Nat) /\ IsFiniteSet(gone)
    <3>1. gone \in SUBSET (SUBSET Nat)
      BY <2>2, <2>3
    <3>2. IsFiniteSet(over)
      BY <2>2, <2>3, FS_Subset
    <3>3. [x \in over |-> table[x].data] \in Surjection(over, gone)
      BY DEF Surjection
    <3> QED
      BY <3>1, <3>2, <3>3, FS_Surjection
  <2>10. ended \in Seq(SUBSET Nat)
         /\ \A id : /\ Once(ended, id)
                    /\ Among(ended, id) <=> setting.flag = "end" /\ id \in merged[k].data
    <3>1. CASE setting.flag = "end"
      <4>1. ended = <<merged[k].data>> /\ merged[k].data \in SUBSET Nat
        BY <2>5, <2>7, <3>1
      <4>2. \A v \in SUBSET Nat : <<v>> \in Seq(SUBSET Nat) /\ Len(<<v>>) = 1 /\ <<v>>[1] = v
        OBVIOUS
      <4>3. ended \in Seq(SUBSET Nat) /\ Len(ended) = 1 /\ ended[1] = merged[k].data
        BY <4>1, <4>2, Zenon
      <4> QED
        BY <3>1, <4>3 DEF Once, Among
    <3>2. CASE setting.flag # "end"
      <4>1. ended = <<>> /\ ended \in Seq(SUBSET Nat) /\ Len(ended) = 0
        BY <3>2, EmptySeq
      <4> QED
        BY <3>2, <4>1 DEF Once, Among
    <3> QED
      BY <3>1, <3>2
  <2> HIDE DEF ended, gone
  <2>11. SetToSeq(gone) \in Seq(SUBSET Nat) /\ pushed \o SetToSeq(gone) \in Seq(SUBSET Nat)
         /\ pushed' \in Seq(SUBSET Nat)
    <3>1. SetToSeq(gone) \in Seq(SUBSET Nat)
      BY <2>9, SequencedOnce
    <3>2. pushed \o SetToSeq(gone) \in Seq(SUBSET Nat)
      BY <2>2, <3>1, ConcatProperties
    <3> QED
      BY <2>1, <2>10, <3>1, <3>2, ConcatProperties
  <2>12. ASSUME NEW id \in Nat
         PROVE  /\ Once(pushed', id) /\ LiveOnce(table', id)
                /\ id \in 1 .. given' => (Among(pushed', id) <=> ~ Live(table', id))
                /\ id \notin 1 .. given' => ~ Among(pushed', id) /\ ~ Live(table', id)
    <3> DEFINE inGone == \E x \in over : id \in table[x].data
               inMerged == \E x \in DOMAIN merged : id \in merged[x].data
    <3>1. /\ Among(SetToSeq(gone), id) <=> inGone
          /\ Once(SetToSeq(gone), id)
      <4>1. (\E x \in gone : id \in x) <=> inGone
        BY DEF gone
      <4>2. Apart(gone, id)
        BY <2>2, <2>3 DEF gone, LiveOnce, Apart
      <4>3. PICK T \in SUBSET (SUBSET Nat) : T = gone /\ IsFiniteSet(T)
        BY <2>9, Zenon
      <4>4. /\ Among(SetToSeq(T), id) <=> \E x \in T : id \in x
            /\ Apart(T, id) => Once(SetToSeq(T), id)
        <5>1. IsFiniteSet(T)
          BY <4>3
        <5> QED
          BY <5>1, SequencedOnce
      <4> QED
        BY <4>1, <4>2, <4>3, <4>4
    <3>2. inGone => Live(table, id)
      BY <2>3 DEF Live
    <3>3. LiveOnce(merged, id)
      <4>1. ASSUME NEW x \in DOMAIN merged, NEW y \in DOMAIN merged,
                   id \in merged[x].data, id \in merged[y].data
            PROVE  x = y
        <5>1. CASE id = n
          <6>1. ~ Live(table, n)
            BY <2>2, <2>6
          <6>2. \A z \in DOMAIN merged : n \in merged[z].data => z = k
            BY <2>4, <2>5, <6>1 DEF Live
          <6> QED
            BY <4>1, <5>1, <6>2
        <5>2. CASE id # n
          <6>1. \A z \in DOMAIN merged : id \in merged[z].data
                                         => z \in DOMAIN table /\ id \in table[z].data
            BY <2>4, <2>5, <5>2
          <6> QED
            BY <2>2, <4>1, <6>1 DEF LiveOnce
        <5> QED
          BY <5>1, <5>2
      <4> QED
        BY <4>1 DEF LiveOnce
    <3>4. inMerged <=> (id = n \/ (Live(table, id) /\ ~ inGone))
      <4>1. ASSUME inMerged PROVE id = n \/ (Live(table, id) /\ ~ inGone)
        <5>1. PICK x \in DOMAIN merged : id \in merged[x].data
          BY <4>1
        <5>2. ASSUME id # n PROVE Live(table, id) /\ ~ inGone
          <6>1. x \in DOMAIN table /\ x \notin over /\ id \in table[x].data
            BY <2>4, <2>5, <5>1, <5>2
          <6>2. \A y \in over : id \in table[y].data => y = x
            BY <2>2, <2>3, <6>1 DEF LiveOnce
          <6> QED
            BY <6>1, <6>2 DEF Live
        <5> QED
          BY <5>2
      <4>2. ASSUME id = n PROVE inMerged
        BY <2>5, <4>2
      <4>3. ASSUME Live(table, id), ~ inGone PROVE inMerged
        <5>1. PICK x \in DOMAIN table : id \in table[x].data
          BY <4>3 DEF Live
        <5>2. x \in DOMAIN live
          BY <2>4, <4>3, <5>1
        <5> QED
          BY <2>5, <5>1, <5>2
      <4> QED
        BY <4>1, <4>2, <4>3
    <3>5. Live(table', id) <=> inMerged /\ ~ Among(ended, id)
      <4>1. Among(ended, id) <=> setting.flag = "end" /\ id \in merged[k].data
        BY <2>10
      <4>2. k \in DOMAIN merged
        BY <2>5
      <4> QED
        BY <2>8, <3>3, <4>1, <4>2 DEF Live, LiveOnce
    <3>6. Among(ended, id) => inMerged
      BY <2>5, <2>10
    <3>7. LiveOnce(table', id)
      BY <2>8, <3>3 DEF LiveOnce
    <3>8. /\ Among(pushed \o SetToSeq(gone), id) <=> Among(pushed, id) \/ inGone
          /\ ~ (Among(pushed, id) /\ inGone) => Once(pushed \o SetToSeq(gone), id)
      BY <2>2, <2>11, <3>1, JoinedOnce
    <3>9. /\ Among(pushed', id) <=> Among(pushed, id) \/ inGone \/ Among(ended, id)
          /\ /\ ~ (Among(pushed, id) /\ inGone)
             /\ ~ ((Among(pushed, id) \/ inGone) /\ Among(ended, id))
             => Once(pushed', id)
      <4> DEFINE q == pushed \o SetToSeq(gone)
      <4>1. q \in Seq(SUBSET Nat) /\ ended \in Seq(SUBSET Nat) /\ pushed' = q \o ended
        BY <2>1, <2>10, <2>11
      <4>2. Once(ended, id)
        BY <2>10
      <4>3. /\ Among(q, id) <=> Among(pushed, id) \/ inGone
            /\ ~ (Among(pushed, id) /\ inGone) => Once(q, id)
        BY <3>8
      <4> HIDE DEF q, inGone
      <4>4. /\ Among(q \o ended, id) <=> Among(q, id) \/ Among(ended, id)
            /\ Once(q, id) /\ ~ (Among(q, id) /\ Among(ended, id)) => Once(q \o ended, id)
        BY <4>1, <4>2, JoinedOnce
      <4> QED
        BY <4>1, <4>3, <4>4, Zenon
    <3>10. ~ (Among(pushed, id) /\ Live(table, id))
      BY <2>2
    <3>11. id \in 1 .. given' <=> id \in 1 .. given \/ id = n
      BY <2>1, <2>2
    <3>12. id \in 1 .. given => id # n /\ (Among(pushed, id) \/ Live(table, id))
      BY <2>2
    <3>13. id = n => ~ Among(pushed, id) /\ ~ Live(table, id)
      BY <2>2
    <3>14. id \notin 1 .. given => ~ Among(pushed, id) /\ ~ Live(table, id)
      BY <2>2
    <3> QED
      BY <3>2, <3>4, <3>5, <3>6, <3>7, <3>9, <3>10, <3>11, <3>12, <3>13, <3>14
  <2>13. \A x \in DOMAIN table' : table'[x].data \in SUBSET Nat
    BY <2>7, <2>8
  <2> QED
    BY <2>6, <2>11, <2>12, <2>13 DEF AggregateInv
<1> QED
  BY StepKinds, <1>1, <1>2, <1>3

\* With map_action update what an event contributed is in exactly one place, its
\* task's live map or one event pushed on timeout or at the end of the task.
THEOREM AggregateConservesHolds == Spec => []AggregateConserves
<1>1. Init => AggregateInv
  <2> SUFFICES ASSUME Init PROVE AggregateInv
    OBVIOUS
  <2>1. DOMAIN table = {} /\ pushed = <<>> /\ Len(pushed) = 0 /\ given = 0
    BY EmptySeq DEF Init
  <2>2. IsFiniteSet({}) /\ <<>> \in Seq(SUBSET Nat)
    BY FS_EmptySet, EmptySeq
  <2> QED
    BY <2>1, <2>2 DEF AggregateInv, Among, Once, Live, LiveOnce
<1>2. AggregateInv => AggregateConserves
  <2> SUFFICES ASSUME AggregateInv, kind = "aggregate", setting.action = "update",
                      NEW id \in 1 .. given
               PROVE  Cardinality({k \in DOMAIN table : id \in table[k].data})
                        + Cardinality({i \in DOMAIN pushed : id \in pushed[i]}) = 1
    BY DEF AggregateConserves
  <2> DEFINE K == {k \in DOMAIN table : id \in table[k].data}
             I == {i \in DOMAIN pushed : id \in pushed[i]}
  <2>1. /\ Once(pushed, id) /\ LiveOnce(table, id)
        /\ Among(pushed, id) <=> ~ Live(table, id)
        /\ DOMAIN pushed = 1 .. Len(pushed)
    BY LenProperties DEF AggregateInv
  <2>2. Cardinality({}) = 0 /\ \A x : Cardinality({x}) = 1
    BY FS_EmptySet, FS_Singleton
  <2>3. CASE Among(pushed, id)
    <3>1. PICK i \in DOMAIN pushed : id \in pushed[i]
      BY <2>1, <2>3 DEF Among
    <3>2. I = {i}
      BY <2>1, <3>1 DEF Once
    <3>3. K = {}
      BY <2>1, <2>3 DEF Live
    <3>4. Cardinality(I) = 1 /\ Cardinality(K) = 0
      BY <2>2, <3>2, <3>3, Zenon
    <3> QED
      BY <3>4
  <2>4. CASE Live(table, id)
    <3>1. PICK k \in DOMAIN table : id \in table[k].data
      BY <2>4 DEF Live
    <3>2. K = {k}
      BY <2>1, <3>1 DEF LiveOnce
    <3>3. I = {}
      BY <2>1, <2>4 DEF Among
    <3>4. Cardinality(I) = 0 /\ Cardinality(K) = 1
      BY <2>2, <3>2, <3>3, Zenon
    <3> QED
      BY <3>4
  <2> QED
    BY <2>1, <2>3, <2>4
<1> QED
  BY <1>1, <1>2, InitWorkers, WorkerStep, AggregateInvStep, PTL DEF Spec

-----------------------------------------------------------------------------
(* The result cache of jdbc_streaming.                                     *)

\* An answer of the database read at one time and stamped at another.
FreshEntry(e, now, wait) ==
  /\ e.read \in Nat /\ e.at \in Nat /\ e.at <= now
  /\ e.at - e.read <= wait

CacheInv ==
  kind = "jdbc_streaming" =>
    /\ order \in Seq(Keys) /\ Range(order) = DOMAIN table
    /\ IsInjective(order) /\ Len(order) <= Capacity
    /\ slow \in Nat
    /\ \A k \in DOMAIN table : FreshEntry(table[k], clock, slow)
    /\ \A w \in Workers : wk[w].pc \in {"query", "rows"} => wk[w].key \in Keys
    /\ \A w \in Workers : wk[w].pc = "rows" => wk[w].read \in Nat
    /\ served # Nothing => served.at - served.read <= Ttl + slow

\* A key leaves an order that holds every key once.
LEMMA RemovedKey ==
  ASSUME NEW s \in Seq(Keys), IsInjective(s), NEW k \in Range(s)
  PROVE  /\ RemoveFirst(s, k) \in Seq(Keys) /\ IsInjective(RemoveFirst(s, k))
         /\ Range(RemoveFirst(s, k)) = Range(s) \ {k}
         /\ Len(RemoveFirst(s, k)) <= Len(s)
<1>1. PICK n \in Nat : n = Len(s) /\ DOMAIN s = 1 .. n
  BY LenProperties
<1>2. \A i \in 1 .. n : s[i] \in Keys
  BY <1>1, ElementOfSeq
<1>3. PICK j \in 1 .. n : s[j] = k
  BY <1>1 DEF Range
<1>4. \A i, m \in 1 .. n : s[i] = s[m] => i = m
  BY <1>1 DEF IsInjective
<1>5. RemoveFirst(s, k) = SubSeq(s, 1, j - 1) \o SubSeq(s, j + 1, n)
  <2>1. {i \in 1 .. Len(s) : s[i] = k} = {j}
    BY <1>1, <1>3, <1>4
  <2>2. Min({j}) = j
    BY DEF Min
  <2>3. RemoveFirst(s, k) = RemoveAt(s, Min({i \in 1 .. Len(s) : s[i] = k}))
    BY <1>1, <1>3, <2>1 DEF RemoveFirst, SelectInSeq
  <2> QED
    BY <1>1, <2>1, <2>2, <2>3, Zenon DEF RemoveAt
<1> DEFINE p == SubSeq(s, 1, j - 1)
           q == SubSeq(s, j + 1, n)
           r == p \o q
<1>6. /\ p \in Seq(Keys) /\ Len(p) = j - 1
      /\ \A i \in 1 .. j - 1 : p[i] = s[i]
  BY <1>2, SubSeqProperties
<1>7. /\ q \in Seq(Keys) /\ Len(q) = n - j
      /\ \A i \in 1 .. n - j : q[i] = s[j + i]
  <2>1. \A i \in j + 1 .. n : s[i] \in Keys
    BY <1>2
  <2>2. /\ q \in Seq(Keys) /\ Len(q) = IF j + 1 <= n THEN n - (j + 1) + 1 ELSE 0
        /\ \A i \in 1 .. n - (j + 1) + 1 : q[i] = s[(j + 1) + i - 1]
    BY <2>1, SubSeqProperties
  <2>3. n - (j + 1) + 1 = n - j /\ \A i \in Int : (j + 1) + i - 1 = j + i
    OBVIOUS
  <2> QED
    BY <2>2, <2>3
<1> HIDE DEF p, q
<1>8. /\ r \in Seq(Keys) /\ Len(r) = n - 1
      /\ \A i \in 1 .. n - 1 : r[i] = IF i <= j - 1 THEN p[i] ELSE q[i - (j - 1)]
  <2>1. /\ r \in Seq(Keys) /\ Len(r) = Len(p) + Len(q)
        /\ \A i \in 1 .. Len(p) + Len(q) : r[i] = IF i <= Len(p) THEN p[i] ELSE q[i - Len(p)]
    BY <1>6, <1>7, ConcatProperties
  <2>2. Len(p) = j - 1 /\ Len(p) + Len(q) = n - 1
    BY <1>6, <1>7
  <2> QED
    BY <2>1, <2>2
<1>13. RemoveFirst(s, k) = r
  BY <1>5 DEF p, q
<1> HIDE DEF r
<1>9. \A i \in 1 .. n - 1 : r[i] = IF i < j THEN s[i] ELSE s[i + 1]
  <2> SUFFICES ASSUME NEW i \in 1 .. n - 1 PROVE r[i] = IF i < j THEN s[i] ELSE s[i + 1]
    OBVIOUS
  <2>1. CASE i < j
    <3>1. i \in 1 .. j - 1
      BY <2>1
    <3> QED
      BY <1>6, <1>8, <2>1, <3>1
  <2>2. CASE ~ (i < j)
    <3>1. i - (j - 1) \in 1 .. n - j /\ j + (i - (j - 1)) = i + 1 /\ ~ (i <= j - 1)
      BY <2>2
    <3> QED
      BY <1>7, <1>8, <2>2, <3>1
  <2> QED
    BY <2>1, <2>2
<1>10. DOMAIN r = 1 .. n - 1
  BY <1>8, LenProperties
<1>11. IsInjective(r)
  <2> SUFFICES ASSUME NEW a \in 1 .. n - 1, NEW b \in 1 .. n - 1, r[a] = r[b] PROVE a = b
    BY <1>10 DEF IsInjective
  <2> DEFINE At(i) == IF i < j THEN i ELSE i + 1
  <2>1. At(a) \in 1 .. n /\ At(b) \in 1 .. n /\ r[a] = s[At(a)] /\ r[b] = s[At(b)]
    BY <1>9
  <2>2. At(a) = At(b)
    BY <1>4, <2>1, Zenon
  <2> QED
    BY <2>2
<1>12. Range(r) = Range(s) \ {k}
  <2>1. ASSUME NEW i \in 1 .. n - 1 PROVE r[i] \in Range(s) \ {k}
    <3>1. PICK m \in 1 .. n : r[i] = s[m] /\ m # j
      <4>1. CASE i < j
        BY <1>9, <4>1
      <4>2. CASE ~ (i < j)
        <5>1. i + 1 \in 1 .. n /\ i + 1 # j
          BY <4>2
        <5> QED
          BY <1>9, <4>2, <5>1
      <4> QED
        BY <4>1, <4>2
    <3> QED
      BY <1>1, <1>3, <1>4, <3>1 DEF Range
  <2>2. ASSUME NEW m \in 1 .. n, s[m] # k PROVE \E i \in 1 .. n - 1 : r[i] = s[m]
    <3>1. CASE m < j
      <4>1. m \in 1 .. n - 1
        BY <3>1
      <4> QED
        BY <1>9, <3>1, <4>1
    <3>2. CASE m > j
      <4>1. m - 1 \in 1 .. n - 1 /\ ~ (m - 1 < j) /\ (m - 1) + 1 = m
        BY <3>2
      <4> QED
        BY <1>9, <4>1
    <3>3. m # j
      BY <1>3, <2>2
    <3> QED
      BY <3>1, <3>2, <3>3
  <2>3. Range(r) = {r[i] : i \in 1 .. n - 1} /\ Range(s) = {s[i] : i \in 1 .. n}
    BY <1>1, <1>10 DEF Range
  <2>4. \A x \in Range(r) : x \in Range(s) \ {k}
    BY <2>1, <2>3
  <2>5. \A x \in Range(s) \ {k} : x \in Range(r)
    BY <2>2, <2>3
  <2> QED
    BY <2>4, <2>5
<1>14. Len(r) <= Len(s)
  BY <1>1, <1>8
<1> QED
  BY <1>8, <1>11, <1>12, <1>13, <1>14

\* A new key joins an order that holds every key once.
LEMMA AppendedKey ==
  ASSUME NEW s \in Seq(Keys), IsInjective(s), NEW k \in Keys, k \notin Range(s)
  PROVE  /\ Append(s, k) \in Seq(Keys) /\ IsInjective(Append(s, k))
         /\ Range(Append(s, k)) = Range(s) \union {k}
         /\ Len(Append(s, k)) = Len(s) + 1
<1>1. PICK n \in Nat : n = Len(s) /\ DOMAIN s = 1 .. n
  BY LenProperties
<1>2. PICK r : r = Append(s, k)
  OBVIOUS
<1>3. /\ r \in Seq(Keys) /\ Len(r) = n + 1 /\ r[n + 1] = k
      /\ \A i \in 1 .. n : r[i] = s[i]
  BY <1>1, <1>2, AppendProperties
<1>4. DOMAIN r = 1 .. n + 1
  BY <1>3, LenProperties
<1>5. \A i \in 1 .. n : s[i] \in Range(s) /\ r[i] # k
  BY <1>1, <1>3 DEF Range
<1>6. IsInjective(r)
  <2> SUFFICES ASSUME NEW a \in 1 .. n + 1, NEW b \in 1 .. n + 1, r[a] = r[b] PROVE a = b
    BY <1>4 DEF IsInjective
  <2>1. CASE a \in 1 .. n /\ b \in 1 .. n
    BY <1>1, <1>3, <2>1 DEF IsInjective
  <2>2. (a \in 1 .. n \/ a = n + 1) /\ (b \in 1 .. n \/ b = n + 1)
    OBVIOUS
  <2> QED
    BY <1>3, <1>5, <2>1, <2>2
<1>7. Range(r) = Range(s) \union {k}
  <2>1. \A i \in 1 .. n + 1 : i \in 1 .. n \/ i = n + 1
    OBVIOUS
  <2>2. n + 1 \in 1 .. n + 1 /\ \A i \in 1 .. n : i \in 1 .. n + 1
    OBVIOUS
  <2> QED
    BY <1>1, <1>3, <1>4, <2>1, <2>2 DEF Range
<1> QED
  BY <1>1, <1>2, <1>3, <1>6, <1>7

\* What is left of an order when its front is gone.
LEMMA FrontGone ==
  ASSUME NEW s \in Seq(Keys), IsInjective(s), NEW n \in Nat, n = Len(s), NEW m \in 1 .. n + 1
  PROVE  /\ SubSeq(s, m, n) \in Seq(Keys) /\ Len(SubSeq(s, m, n)) = n - m + 1
         /\ IsInjective(SubSeq(s, m, n)) /\ Range(SubSeq(s, m, n)) \subseteq Range(s)
<1>1. DOMAIN s = 1 .. n
  BY LenProperties
<1>2. \A i \in m .. n : s[i] \in Keys
  BY ElementOfSeq
<1>3. PICK r : r = SubSeq(s, m, n)
  OBVIOUS
<1>4. /\ r \in Seq(Keys) /\ Len(r) = n - m + 1
      /\ \A i \in 1 .. n - m + 1 : r[i] = s[m + i - 1]
  BY <1>2, <1>3, SubSeqProperties
<1>5. DOMAIN r = 1 .. n - m + 1
  BY <1>4, LenProperties
<1>6. \A i \in 1 .. n - m + 1 : m + i - 1 \in 1 .. n
  OBVIOUS
<1>7. IsInjective(r)
  <2> SUFFICES ASSUME NEW a \in 1 .. n - m + 1, NEW b \in 1 .. n - m + 1, r[a] = r[b]
               PROVE  a = b
    BY <1>5 DEF IsInjective
  <2>1. s[m + a - 1] = s[m + b - 1] /\ m + a - 1 \in 1 .. n /\ m + b - 1 \in 1 .. n
    BY <1>4, <1>6
  <2>2. m + a - 1 = m + b - 1
    BY <1>1, <2>1 DEF IsInjective
  <2> QED
    BY <2>2
<1>8. Range(r) \subseteq Range(s)
  BY <1>1, <1>4, <1>5, <1>6 DEF Range
<1> QED
  BY <1>3, <1>4, <1>7, <1>8

\* Every step keeps the order and the map of the cache in step, and what is in them
\* as fresh as the slowest query allows.
LEMMA CacheInvStep == WorkerInv /\ CacheInv /\ [Next]_vars => CacheInv'
<1> SUFFICES ASSUME WorkerInv, CacheInv, [Next]_vars PROVE CacheInv'
  OBVIOUS
<1>0. clock \in Nat /\ DOMAIN wk = Workers /\ Ttl \in Nat /\ Capacity \in Nat
  BY FilterAssumption DEF WorkerInv
<1>1. CASE Elsewhere
  <2>1. clock' \in Nat /\ clock <= clock'
    BY <1>0, <1>1 DEF Elsewhere
  <2>2. \A x : FreshEntry(x, clock, slow) => FreshEntry(x, clock', slow)
    BY <1>0, <2>1 DEF FreshEntry
  <2> QED
    BY <1>1, <2>2 DEF CacheInv, Elsewhere
<1>2. ASSUME kind' = kind, kind # "jdbc_streaming" PROVE CacheInv'
  BY <1>2 DEF CacheInv
<1>3. ASSUME NEW w \in Workers, clock' = clock, kind' = kind, kind = "jdbc_streaming",
             StreamStep(w)
      PROVE  CacheInv'
  <2>0. /\ order \in Seq(Keys) /\ Range(order) = DOMAIN table
        /\ IsInjective(order) /\ Len(order) <= Capacity
        /\ slow \in Nat
        /\ \A k \in DOMAIN table : FreshEntry(table[k], clock, slow)
        /\ \A v \in Workers : wk[v].pc \in {"query", "rows"} => wk[v].key \in Keys
        /\ \A v \in Workers : wk[v].pc = "rows" => wk[v].read \in Nat
        /\ served # Nothing => served.at - served.read <= Ttl + slow
    BY <1>3 DEF CacheInv
  <2> DEFINE Places(f) == /\ \A v \in Workers : f[v].pc \in {"query", "rows"} => f[v].key \in Keys
                          /\ \A v \in Workers : f[v].pc = "rows" => f[v].read \in Nat
             Cached(o, t, s) == /\ o \in Seq(Keys) /\ Range(o) = DOMAIN t
                                /\ IsInjective(o) /\ Len(o) <= Capacity
                                /\ \A x \in DOMAIN t : FreshEntry(t[x], clock, s)
  <2>1. SUFFICES /\ Places(wk') /\ Cached(order', table', slow') /\ slow' \in Nat
                 /\ served' # Nothing => served'.at - served'.read <= Ttl + slow'
    BY <1>3 DEF CacheInv
  <2>2. Places(wk) /\ Cached(order, table, slow)
    BY <2>0
  <2>3. Places([wk EXCEPT ![w] = Idle])
    BY <1>0, <2>0 DEF Idle
  <2> HIDE DEF Places, Cached
  <2>4. ASSUME NEW k \in Keys, StreamGet(w, k)
        PROVE  /\ Places(wk') /\ Cached(order', table', slow') /\ slow' \in Nat
               /\ served' # Nothing => served'.at - served'.read <= Ttl + slow'
    <3>1. slow' = slow
      BY <2>4 DEF StreamGet
    <3>2. CASE k \in DOMAIN table /\ ~ Expired(k) /\ Capacity > 0
      <4>1. /\ served' = [read |-> table[k].read, at |-> clock]
            /\ table' = table /\ order' = order /\ wk' = wk
        BY <2>4, <3>2 DEF StreamGet
      <4>2. FreshEntry(table[k], clock, slow) /\ clock - table[k].at <= Ttl
        BY <2>0, <3>2, <1>0 DEF Expired, FreshEntry
      <4>3. clock - table[k].read <= Ttl + slow
        BY <1>0, <2>0, <4>2 DEF FreshEntry
      <4> QED
        BY <2>0, <2>2, <3>1, <4>1, <4>3
    <3>3. CASE ~ (k \in DOMAIN table /\ ~ Expired(k) /\ Capacity > 0)
      <4>1. wk' = [wk EXCEPT ![w] = [pc |-> "query", key |-> k]] /\ served' = served
        BY <2>4, <3>3 DEF StreamGet
      <4>2. Places(wk')
        BY <1>0, <2>0, <4>1 DEF Places
      <4>3. Cached(order', table', slow)
        <5>1. CASE k \notin DOMAIN table
          BY <2>2, <2>4, <3>3, <5>1 DEF StreamGet
        <5>2. CASE k \in DOMAIN table
          <6>1. table' = Without(table, {k}) /\ order' = RemoveFirst(order, k)
            BY <2>4, <3>3, <5>2 DEF StreamGet, CacheDrop
          <6>2. DOMAIN table' = DOMAIN table \ {k} /\ \A x \in DOMAIN table' : table'[x] = table[x]
            BY <6>1 DEF Without, Restrict
          <6>3. /\ order' \in Seq(Keys) /\ IsInjective(order')
                /\ Range(order') = Range(order) \ {k} /\ Len(order') <= Len(order)
            BY <2>0, <5>2, <6>1, RemovedKey
          <6>4. Len(order') <= Capacity
            <7>1. Len(order) \in Nat /\ Len(order') \in Nat
              BY <2>0, <6>3, LenProperties
            <7> QED
              BY <1>0, <2>0, <6>3, <7>1
          <6> QED
            BY <2>0, <6>2, <6>3, <6>4 DEF Cached
        <5> QED
          BY <5>1, <5>2
      <4> QED
        BY <2>0, <3>1, <4>1, <4>2, <4>3
    <3> QED
      BY <3>2, <3>3
  <2>5. ASSUME StreamQuery(w)
        PROVE  /\ Places(wk') /\ Cached(order', table', slow') /\ slow' \in Nat
               /\ served' # Nothing => served'.at - served'.read <= Ttl + slow'
    <3>1. /\ wk[w].pc = "query" /\ order' = order /\ table' = table /\ slow' = slow
          /\ served' = served
      BY <2>5 DEF StreamQuery
    <3>2. Places(wk')
      <4>1. CASE wk' = [wk EXCEPT ![w] = [pc |-> "rows", key |-> wk[w].key, read |-> clock]]
        BY <1>0, <2>0, <3>1, <4>1 DEF Places
      <4> QED
        BY <2>3, <2>5, <4>1 DEF StreamQuery
    <3> QED
      BY <2>0, <2>2, <3>1, <3>2
  <2>6. ASSUME StreamInsert(w)
        PROVE  /\ Places(wk') /\ Cached(order', table', slow') /\ slow' \in Nat
               /\ served' # Nothing => served'.at - served'.read <= Ttl + slow'
    <3> DEFINE k == wk[w].key
               evict == IF k \in DOMAIN table \/ Len(order) < Capacity THEN 0
                        ELSE Len(order) - Capacity + 1
               kept == SubSeq(order, evict + 1, Len(order))
               entry == [read |-> wk[w].read, at |-> clock]
    <3>1. /\ wk[w].pc = "rows" /\ wk' = [wk EXCEPT ![w] = Idle] /\ served' = entry
          /\ slow' = IF clock - wk[w].read > slow THEN clock - wk[w].read ELSE slow
      BY <2>6 DEF StreamInsert
    <3>2. k \in Keys /\ wk[w].read \in Nat
      BY <2>0, <3>1
    <3>3. slow' \in Nat /\ slow <= slow' /\ clock - wk[w].read <= slow'
      BY <1>0, <2>0, <3>1, <3>2
    <3>4. FreshEntry(entry, clock, slow') /\ entry.at - entry.read <= Ttl + slow'
      BY <1>0, <3>2, <3>3 DEF FreshEntry
    <3>5. \A x \in DOMAIN table : FreshEntry(table[x], clock, slow')
      BY <1>0, <2>0, <3>3 DEF FreshEntry
    <3>6. Cached(order', table', slow')
      <4>1. CASE (Capacity = 0 \/ k \in Big) /\ UNCHANGED <<table, order>>
        <5>1. table' = table /\ order' = order
          BY <2>6, <4>1 DEF StreamInsert
        <5> QED
          BY <2>0, <3>5, <5>1 DEF Cached
      <4>2. CASE /\ Capacity > 0
                /\ table' = Insert(Restrict(table, Range(kept)), k, entry)
                /\ order' = IF k \in DOMAIN table THEN order ELSE Append(kept, k)
        <5>1. /\ table' = Insert(Restrict(table, Range(kept)), k, entry)
              /\ order' = IF k \in DOMAIN table THEN order ELSE Append(kept, k)
          BY <2>6, <4>2 DEF StreamInsert
        <5>2. /\ DOMAIN table' = Range(kept) \union {k} /\ table'[k] = entry
              /\ \A x \in Range(kept) \ {k} : table'[x] = table[x]
          BY <5>1 DEF Insert, Restrict
        <5>3. CASE k \in DOMAIN table
          <6>1. kept = order
            <7>1. evict = 0
              BY <5>3
            <7>2. SubSeq(order, 1, Len(order)) = order
              BY <2>0, SubSeqFull
            <7> QED
              BY <7>1, <7>2
          <6> QED
            BY <2>0, <3>4, <3>5, <5>1, <5>2, <5>3, <6>1 DEF Cached
        <5>4. CASE k \notin DOMAIN table
          <6>1. Len(order) \in Nat /\ Capacity > 0
            BY <1>0, <2>0, <4>2, LenProperties
          <6>2. PICK n \in Nat : n = Len(order)
            BY <6>1
          <6>9. n <= Capacity /\ Capacity \in Nat
            BY <1>0, <2>0, <6>2
          <6>10. evict = IF n < Capacity THEN 0 ELSE n - Capacity + 1
            BY <5>4, <6>2
          <6> HIDE DEF evict
          <6>11. ASSUME n < Capacity
                PROVE  evict + 1 \in 1 .. n + 1 /\ n - (evict + 1) + 1 < Capacity
            BY <6>9, <6>10, <6>11
          <6>12. ASSUME n = Capacity
                PROVE  evict + 1 \in 1 .. n + 1 /\ n - (evict + 1) + 1 < Capacity
            BY <6>1, <6>9, <6>10, <6>12
          <6>13. evict + 1 \in 1 .. n + 1 /\ n - (evict + 1) + 1 < Capacity
            BY <6>9, <6>11, <6>12
          <6>3. PICK m \in 1 .. n + 1 : m = evict + 1 /\ n - m + 1 < Capacity
            BY <6>13
          <6>4. kept = SubSeq(order, m, n)
            BY <6>2, <6>3
          <6> HIDE DEF kept, entry
          <6>5. /\ kept \in Seq(Keys) /\ Len(kept) = n - m + 1
                /\ IsInjective(kept) /\ Range(kept) \subseteq Range(order)
            <7>1. order \in Seq(Keys) /\ IsInjective(order)
              BY <2>0
            <7> QED
              BY <6>2, <6>4, <7>1, FrontGone
          <6>6. k \notin Range(kept)
            BY <2>0, <5>4, <6>5
          <6>7. /\ Append(kept, k) \in Seq(Keys) /\ IsInjective(Append(kept, k))
                /\ Range(Append(kept, k)) = Range(kept) \union {k}
                /\ Len(Append(kept, k)) = Len(kept) + 1
            BY <3>2, <6>5, <6>6, AppendedKey
          <6>8. Len(Append(kept, k)) <= Capacity
            BY <1>0, <6>3, <6>5, <6>7
          <6> QED
            BY <2>0, <3>4, <3>5, <5>1, <5>2, <5>4, <6>5, <6>7, <6>8 DEF Cached
        <5> QED
          BY <5>3, <5>4
      <4> QED
        BY <2>6, <4>1, <4>2 DEF StreamInsert
    <3> QED
      BY <2>3, <3>1, <3>3, <3>4, <3>6
  <2> QED
    BY <1>3, <2>4, <2>5, <2>6 DEF StreamStep
<1> QED
  BY StepKinds, <1>1, <1>2, <1>3

\* The cache's order and map hold the same keys, each once and no more than cache_size,
\* and the rows an event gets were in the database no longer ago than the expiration
\* plus the slowest query.
THEOREM CacheSoundHolds == Spec => []CacheSound
<1>1. Init => CacheInv
  <2> SUFFICES ASSUME Init PROVE CacheInv
    OBVIOUS
  <2>1. /\ DOMAIN table = {} /\ order = <<>> /\ slow = 0 /\ served = Nothing
        /\ \A w \in Workers : wk[w].pc = "idle"
    BY DEF Init, Idle
  <2>2. <<>> \in Seq(Keys) /\ Len(<<>>) = 0 /\ Capacity \in Nat
    BY EmptySeq, FilterAssumption
  <2>3. Range(<<>>) = {} /\ IsInjective(<<>>)
    BY DEF Range, IsInjective
  <2> QED
    BY <2>1, <2>2, <2>3 DEF CacheInv
<1>2. CacheInv => CacheSound
  BY DEF CacheInv, CacheSound
<1> QED
  BY <1>1, <1>2, InitWorkers, WorkerStep, CacheInvStep, PTL DEF Spec

-----------------------------------------------------------------------------
(* The decoders of the codecs.                                             *)

Cost == MaxFields + 3
Kinds == {"tag", "key", "map", "seq"}
InSlice == {"template", "data", "values", "port"}
AtTop == {"idle", "record", "set", "part", "meta", "entry", "sync", "block",
          "density", "host", "header", "action", "source"}

\* The last slice was inside its buffer.
SliceInv ==
  /\ {slice.from, slice.to, slice.bound} \subseteq Nat
  /\ slice.from <= slice.to /\ slice.to <= slice.bound

\* The template cache.
TemplatesInv ==
  /\ templates \in [Ids -> Seq(Int)]
  /\ Cardinality(Known) <= MaxTemplates
  /\ \A id \in Known : templates[id] \in Seq(Nat) /\ Len(templates[id]) <= MaxFields

\* Enclosing messages end where or before the ones around them do.
Nested ==
  /\ nest \in Seq(Nat) /\ Len(nest) <= MaxDepth
  /\ \A i \in 1 .. Len(nest) : off <= nest[i] /\ nest[i] <= len
  /\ \A i, j \in 1 .. Len(nest) : i <= j => nest[j] <= nest[i]

\* Where the cursor is, and in what.
PlaceInv ==
  /\ len \in Nat /\ off \in Nat /\ off <= len
  /\ pc \in InSlice \union AtTop \union {"field", "value", "item"}
  /\ pc \in AtTop => nest = << >>
  /\ pc \in InSlice => \E lim \in Nat : nest = <<lim>> /\ off <= lim /\ lim <= len
  /\ pc = "field" => Nested
  /\ pc \in {"value", "item"} => nest \in Seq(Kinds) /\ Len(nest) <= MaxDepth
  /\ pc = "item" => nest # << >>
  /\ pc = "data" => todo \in Seq(Nat)
  /\ pc = "values" => /\ todo[1] \in Nat /\ todo[2] \in Nat /\ off + 2 <= Limit
                      /\ todo[2] > 0 => off + 2 + todo[2] <= Limit

\* What the iterations so far had to read.  Only the fields of a template, and
\* the closing of what is open, read nothing.
BudgetInv ==
  /\ steps \in Nat
  /\ pc \in {"idle", "density"} => steps = 0
  /\ pc \in {"record", "part", "meta", "entry", "sync", "block", "host", "header"} => steps <= off
  /\ pc = "set" => steps <= Cost * off
  /\ pc = "template" => steps + 1 <= Cost * off
  /\ pc = "data" => steps + Len(todo) + 1 <= Cost * off
  /\ pc = "values" => steps + 3 <= off + todo[2]
  /\ pc = "field" => steps + Len(nest) <= 2 * off
  /\ pc = "value" => steps + Len(nest) <= 3 * off + 2
  /\ pc = "item" => steps + Len(nest) <= 3 * off + 1
  /\ pc = "port" => steps <= off + 1 /\ steps + 1 <= Limit
  /\ pc = "action" => steps <= 2 * off
  /\ pc = "source" => steps + 1 <= 2 * off

DecoderInv == SliceInv /\ TemplatesInv /\ PlaceInv /\ BudgetInv

\* More of the data pays for more iterations.
LEMMA CostGrows ==
  ASSUME NEW a \in Nat, NEW b \in Nat, a <= b
  PROVE  /\ Cost \in Nat /\ Cost >= 4
         /\ Cost * a \in Nat /\ Cost * b \in Nat /\ Cost * a <= Cost * b
         /\ a < b => Cost * a + Cost <= Cost * b
         /\ a <= Cost * a
<1>1. PICK c \in Nat : c = Cost /\ c >= 4
  BY DecoderAssumption DEF Cost
<1>2. PICK d \in Nat : b = a + d
  <2>1. b - a \in Nat /\ b = a + (b - a)
    OBVIOUS
  <2> QED
    BY <2>1
<1>3. c * b = c * a + c * d /\ c * a \in Nat /\ c * d \in Nat /\ c * b \in Nat
  BY <1>2
<1>4. d > 0 => c * d >= c
  <2>1. d > 0 => c * d = c + c * (d - 1) /\ d - 1 \in Nat
    OBVIOUS
  <2>2. \A e \in Nat : c * e \in Nat
    OBVIOUS
  <2> QED
    BY <2>1, <2>2
<1>5. c * a >= a
  <2>1. c * a = a + (c - 1) * a /\ c - 1 \in Nat
    BY <1>1
  <2>2. \A e \in Nat : e * a \in Nat
    OBVIOUS
  <2> QED
    BY <2>1, <2>2
<1>6. c * a <= c * b /\ (a < b => c * a + c <= c * b)
  BY <1>2, <1>3, <1>4
<1> QED
  BY <1>1, <1>3, <1>5, <1>6

LEMMA CostSteps ==
  ASSUME NEW a \in Nat, NEW n \in Nat, n > 0
  PROVE  /\ Cost \in Nat /\ Cost >= 4
         /\ Cost * (a + n) \in Nat /\ Cost * a + Cost <= Cost * (a + n)
<1>1. PICK b \in Nat : b = a + n
  OBVIOUS
<1>2. a < b /\ a <= b
  BY <1>1
<1>3. Cost \in Nat /\ Cost >= 4 /\ Cost * b \in Nat /\ Cost * a + Cost <= Cost * b
  BY <1>2, CostGrows
<1> QED
  BY <1>1, <1>3

\* A decoder that returns leaves nothing behind but the templates.
LEMMA ReturnKeeps == DecoderInv /\ Return => DecoderInv'
<1> SUFFICES ASSUME DecoderInv, Return PROVE DecoderInv'
  OBVIOUS
<1>1. SliceInv'
  BY DEF Return, NoSlice, SliceInv
<1>2. TemplatesInv'
  BY DEF Return, DecoderInv, TemplatesInv, Known
<1>3. PlaceInv'
  BY DEF Return, PlaceInv, InSlice, AtTop
<1>4. BudgetInv'
  BY DEF Return, BudgetInv
<1> QED
  BY <1>1, <1>2, <1>3, <1>4 DEF DecoderInv

\* The parts of the invariant that an iteration outside the templates and
\* without a slice leaves alone.
LEMMA CacheKept ==
  ASSUME DecoderInv, templates' = templates
  PROVE  TemplatesInv'
  BY DEF DecoderInv, TemplatesInv, Known

LEMMA Taken ==
  ASSUME NEW a \in Nat, NEW b \in Nat, NEW c \in Nat, a <= b, b <= c, Take(a, b, c)
  PROVE  SliceInv'
  BY DEF Take, SliceInv

\* The loops over records, parts' values, headers and lines of the data.
LEMMA StartKeeps ==
  ASSUME DecoderInv, NEW f \in Formats, NEW n \in Nat, StartDecode(f, n)
  PROVE  DecoderInv'
<1>1. /\ pc = "idle" /\ n >= HeaderLen(f) /\ pc' = FirstLoop(f) /\ len' = n
      /\ off' = IF f \in {"v5", "v9", "ipfix", "avro"} THEN HeaderLen(f) ELSE 0
      /\ nest' = << >> /\ steps' = 0 /\ templates' = templates /\ slice' = slice
  BY DEF StartDecode
<1>2. HeaderLen(f) \in Nat
  BY DEF HeaderLen
<1>3. pc' \in {"record", "set", "part", "meta", "field", "density", "host", "header", "action"}
  BY <1>1 DEF FirstLoop, Formats
<1>4. SliceInv'
  BY <1>1 DEF DecoderInv, SliceInv
<1>5. TemplatesInv'
  BY <1>1, CacheKept
<1>6. len' \in Nat /\ off' \in Nat /\ off' <= len'
  BY <1>1, <1>2
<1>7. PlaceInv'
  <2>1. Nested'
    BY <1>1, DecoderAssumption DEF Nested
  <2> QED
    BY <1>1, <1>3, <1>6, <2>1 DEF PlaceInv, InSlice, AtTop
<1>8. BudgetInv'
  <2>1. Cost * off' \in Nat
    BY <1>6, CostGrows
  <2> QED
    BY <1>1, <1>3, <1>6, <2>1 DEF BudgetInv
<1> QED
  BY <1>4, <1>5, <1>7, <1>8 DEF DecoderInv

\* An iteration of a loop that is in no slice: what was read pays for it.
LEMMA TopKeeps ==
  ASSUME DecoderInv, NEW p, NEW o \in Nat, Iterate(p, o), o <= len,
         p \in AtTop \ {"idle", "density"}, nest' = << >>, SliceInv', TemplatesInv',
         \/ /\ p \in {"record", "part", "meta", "entry", "sync", "block", "host", "header"}
            /\ steps + 1 <= o
         \/ p = "set" /\ steps + 1 <= Cost * o
         \/ p = "action" /\ steps + 1 <= 2 * o
         \/ p = "source" /\ steps + 2 <= 2 * o
  PROVE  DecoderInv'
<1>1. pc' = p /\ off' = o /\ steps' = steps + 1 /\ len' = len /\ steps \in Nat /\ len \in Nat
  BY DEF Iterate, DecoderInv, BudgetInv, PlaceInv
<1>2. PlaceInv'
  BY <1>1 DEF PlaceInv, InSlice, AtTop
<1>3. BudgetInv'
  BY <1>1 DEF BudgetInv, AtTop
<1> QED
  BY <1>2, <1>3 DEF DecoderInv

LEMMA V5Keeps == DecoderInv /\ V5Record => DecoderInv'
<1> SUFFICES ASSUME DecoderInv, V5Record PROVE DecoderInv'
  OBVIOUS
<1>0. pc = "record" /\ off \in Nat /\ len \in Nat /\ nest = << >> /\ steps \in Nat /\ steps <= off
  BY DEF V5Record, DecoderInv, PlaceInv, BudgetInv, AtTop
<1>1. CASE Return
  BY <1>1, ReturnKeeps
<1>2. CASE ~Return
  <2>1. /\ off + 48 <= len /\ Take(off, off + 48, len) /\ Iterate("record", off + 48)
        /\ UNCHANGED <<nest, templates>>
    BY <1>0, <1>2 DEF V5Record
  <2>2. SliceInv' /\ TemplatesInv'
    BY <1>0, <2>1, Taken, CacheKept
  <2> QED
    BY <1>0, <2>1, <2>2, TopKeeps DEF AtTop
<1> QED
  BY <1>1, <1>2

\* A set costs its header; its template or its data pay with it.
LEMMA SetKeeps ==
  ASSUME DecoderInv, NEW id, NEW n \in Nat, FlowSet(id, n)
  PROVE  DecoderInv'
<1>0. /\ pc = "set" /\ off \in Nat /\ len \in Nat /\ nest = << >>
      /\ steps \in Nat /\ steps <= Cost * off
  BY DEF FlowSet, DecoderInv, PlaceInv, BudgetInv, AtTop
<1>1. CASE Return
  BY <1>1, ReturnKeeps
<1>2. CASE ~Return
  <2>1. /\ n >= 4 /\ off + n <= len /\ Take(off + 4, off + n, len) /\ templates' = templates
        /\ \/ Iterate("template", off + 4) /\ nest' = <<off + n>>
           \/ /\ id \in Ids /\ templates[id] # Unknown
              /\ Iterate("data", off + 4) /\ nest' = <<off + n>> /\ todo' = templates[id]
           \/ Iterate("set", off + n) /\ nest' = nest
    BY <1>0, <1>2 DEF FlowSet, SetTooShort
  <2>2. SliceInv' /\ TemplatesInv'
    BY <1>0, <2>1, Taken, CacheKept
  <2>3. /\ Cost \in Nat /\ Cost >= 4 /\ Cost = MaxFields + 3 /\ MaxFields \in Nat
        /\ Cost * (off + 4) \in Nat /\ Cost * off + Cost <= Cost * (off + 4)
        /\ Cost * (off + n) \in Nat /\ Cost * off + Cost <= Cost * (off + n)
    <3>1. n > 0 /\ 4 \in Nat /\ 4 > 0
      BY <2>1
    <3>2. /\ Cost \in Nat /\ Cost >= 4
          /\ Cost * (off + 4) \in Nat /\ Cost * off + Cost <= Cost * (off + 4)
      BY <1>0, <3>1, CostSteps, Zenon
    <3>3. Cost * (off + n) \in Nat /\ Cost * off + Cost <= Cost * (off + n)
      BY <1>0, <3>1, CostSteps, Zenon
    <3>4. Cost = MaxFields + 3 /\ MaxFields \in Nat
      BY DecoderAssumption DEF Cost
    <3> QED
      BY <3>2, <3>3, <3>4
  <2>4. PICK b \in Nat : b = Cost * off
    BY <1>0, CostGrows
  <2>5. CASE Iterate("template", off + 4) /\ nest' = <<off + n>>
    <3>1. PlaceInv'
      BY <1>0, <2>1, <2>5 DEF PlaceInv, Iterate, InSlice, AtTop
    <3>2. steps + 2 <= Cost * (off + 4)
      BY <1>0, <2>3, <2>4
    <3>3. BudgetInv'
      BY <1>0, <2>5, <3>2 DEF BudgetInv, Iterate
    <3> QED
      BY <2>2, <3>1, <3>3 DEF DecoderInv
  <2>6. CASE /\ id \in Ids /\ templates[id] # Unknown
             /\ Iterate("data", off + 4) /\ nest' = <<off + n>> /\ todo' = templates[id]
    <3>1. todo' \in Seq(Nat) /\ Len(todo') <= MaxFields /\ Len(todo') \in Nat
      BY <2>6 DEF DecoderInv, TemplatesInv, Known
    <3>2. PlaceInv'
      BY <1>0, <2>1, <2>6, <3>1 DEF PlaceInv, Iterate, InSlice, AtTop
    <3>3. steps + 1 + Len(todo') + 1 <= Cost * (off + 4)
      BY <1>0, <2>3, <2>4, <3>1
    <3>4. BudgetInv'
      <4>1. pc' = "data" /\ off' = off + 4 /\ steps' = steps + 1
        BY <2>6 DEF Iterate
      <4>2. steps' + Len(todo') + 1 <= Cost * off' /\ steps' \in Nat
        BY <1>0, <3>3, <4>1
      <4> QED
        BY <4>1, <4>2 DEF BudgetInv
    <3> QED
      BY <2>2, <3>2, <3>4 DEF DecoderInv
  <2>7. CASE Iterate("set", off + n) /\ nest' = nest
    <3>1. steps + 1 <= Cost * (off + n)
      BY <1>0, <2>3, <2>4
    <3> QED
      BY <1>0, <2>1, <2>2, <2>7, <3>1, TopKeeps DEF AtTop
  <2> QED
    BY <2>1, <2>5, <2>6, <2>7
<1> QED
  BY <1>1, <1>2

\* In a slice the limit is the slice's end.
LEMMA InSliceFacts ==
  ASSUME DecoderInv, pc \in InSlice
  PROVE  /\ Limit \in Nat /\ off <= Limit /\ Limit <= len /\ nest = <<Limit>>
         /\ off \in Nat /\ len \in Nat /\ steps \in Nat
<1>1. PICK lim \in Nat : nest = <<lim>> /\ off <= lim /\ lim <= len
  BY DEF DecoderInv, PlaceInv
<1>2. Limit = lim
  BY <1>1 DEF Limit, Last
<1> QED
  BY <1>1, <1>2 DEF DecoderInv, PlaceInv, BudgetInv

LEMMA LeaveKeeps ==
  ASSUME DecoderInv, pc \in {"template", "data"}, LeaveSet
  PROVE  DecoderInv'
<1>0. /\ Limit \in Nat /\ off <= Limit /\ Limit <= len
      /\ off \in Nat /\ len \in Nat /\ steps \in Nat
  BY InSliceFacts DEF InSlice
<1>1. steps + 1 <= Cost * off
  <2>1. PICK c \in Nat : c = Cost * off
    BY <1>0, CostGrows
  <2>2. CASE pc = "template"
    BY <2>2 DEF DecoderInv, BudgetInv
  <2>3. CASE pc = "data"
    <3>1. todo \in Seq(Nat) /\ Len(todo) \in Nat /\ steps + Len(todo) + 1 <= c
      BY <2>1, <2>3 DEF DecoderInv, BudgetInv, PlaceInv
    <3> QED
      BY <1>0, <2>1, <3>1
  <2> QED
    BY <2>2, <2>3
<1>2. Cost * off \in Nat /\ Cost * Limit \in Nat /\ Cost * off <= Cost * Limit
  BY <1>0, CostGrows
<1>3. steps + 1 <= Cost * Limit
  BY <1>0, <1>1, <1>2
<1>4. SliceInv' /\ TemplatesInv'
  BY CacheKept DEF LeaveSet, DecoderInv, SliceInv
<1> QED
  BY <1>0, <1>3, <1>4, TopKeeps DEF LeaveSet, AtTop

\* A template that is taken has MAX_TEMPLATE_FIELDS fields at most, and is new
\* only while the cache is not full.
LEMMA TemplateKeeps ==
  ASSUME DecoderInv, NEW id \in Ids, NEW lengths \in Seq(Nat), Template(id, lengths)
  PROVE  DecoderInv'
<1>0. pc = "template"
  BY DEF Template
<1>1. CASE LeaveSet
  BY <1>0, <1>1, LeaveKeeps
<1>2. CASE ~LeaveSet
  <2> DEFINE count == Len(lengths)
  <2>1. /\ count \in Nat /\ count <= MaxFields /\ off + 4 + 4 * count <= Limit
        /\ Take(off, off + 4 + 4 * count, Limit)
        /\ Iterate("template", off + 4 + 4 * count)
        /\ templates' = IF CacheTakes(id) THEN [templates EXCEPT ![id] = lengths]
                        ELSE templates
        /\ nest' = nest
    <3>1. Limit \in Nat /\ off \in Nat /\ MaxFields \in Nat
      BY <1>0, InSliceFacts, DecoderAssumption DEF InSlice
    <3> QED
      BY <1>0, <1>2, <3>1 DEF Template
  <2> HIDE DEF count
  <2>2. /\ Limit \in Nat /\ Limit <= len /\ nest = <<Limit>>
        /\ off \in Nat /\ len \in Nat /\ steps \in Nat
    BY <1>0, InSliceFacts DEF InSlice
  <2>3. PICK o \in Nat : o = off + 4 + 4 * count
    BY <2>1, <2>2
  <2>4. o <= Limit /\ off + 4 <= o /\ Take(off, o, Limit) /\ Iterate("template", o)
    BY <2>1, <2>2, <2>3
  <2>5. SliceInv'
    BY <2>2, <2>4, Taken
  <2>6. TemplatesInv'
    <3>1. CASE ~CacheTakes(id)
      BY <2>1, <3>1, CacheKept
    <3>2. CASE CacheTakes(id)
      <4>1. templates' = [templates EXCEPT ![id] = lengths] /\ templates \in [Ids -> Seq(Int)]
            /\ lengths \in Seq(Int)
        BY <2>1, <3>2 DEF DecoderInv, TemplatesInv
      <4>2. lengths # Unknown
        <5> SUFFICES ASSUME lengths = Unknown PROVE FALSE
          OBVIOUS
        <5>1. 1 \in 1 .. Len(lengths) /\ lengths[1] = -1
          BY DEF Unknown
        <5>2. lengths[1] \in Nat
          BY <5>1
        <5> QED
          BY <5>1, <5>2
      <4>3. Known' = Known \union {id}
        BY <4>1, <4>2 DEF Known
      <4>4. IsFiniteSet(Known)
        <5>1. IsFiniteSet(Ids)
          <6>1. IsFiniteSet({256})
            BY FS_Singleton
          <6>2. \A S, x : IsFiniteSet(S) => IsFiniteSet(S \union {x})
            BY FS_AddElement
          <6>3. {256} \union {257} = Ids
            BY DEF Ids
          <6>4. IsFiniteSet({256} \union {257})
            BY <6>1, <6>2
          <6> QED
            BY <6>3, <6>4
        <5> QED
          BY <5>1, FS_Subset DEF Known
      <4>5. Cardinality(Known \union {id}) <= MaxTemplates
        <5>1. Cardinality(Known) \in Nat /\ MaxTemplates \in Nat /\ Cardinality(Known) <= MaxTemplates
          BY <4>4, FS_CardinalityType, DecoderAssumption DEF DecoderInv, TemplatesInv
        <5>2. CASE id \in Known
          <6>1. Known \union {id} = Known
            BY <5>2
          <6> QED
            BY <5>1, <6>1
        <5>3. CASE id \notin Known
          <6>1. Cardinality(Known \union {id}) = Cardinality(Known) + 1
            BY <4>4, <5>3, FS_AddElement
          <6>2. Cardinality(Known) < MaxTemplates
            BY <3>2, <5>3 DEF CacheTakes
          <6> QED
            BY <5>1, <6>1, <6>2
        <5> QED
          BY <5>2, <5>3
      <4>6. \A i \in Known' : templates'[i] \in Seq(Nat) /\ Len(templates'[i]) <= MaxFields
        BY <2>1, <4>1, <4>3 DEF DecoderInv, TemplatesInv, count, Known
      <4> QED
        BY <4>1, <4>3, <4>5, <4>6 DEF TemplatesInv
    <3> QED
      BY <3>1, <3>2
  <2>7. PlaceInv'
    BY <2>1, <2>2, <2>4 DEF PlaceInv, Iterate, InSlice, AtTop
  <2>8. BudgetInv'
    <3>1. steps + 1 <= Cost * off
      BY <1>0 DEF DecoderInv, BudgetInv
    <3>2. Cost \in Nat /\ Cost >= 4 /\ Cost * off \in Nat /\ Cost * o \in Nat /\ Cost * off + Cost <= Cost * o
      BY <2>2, <2>4, CostGrows
    <3>3. steps + 2 <= Cost * o
      BY <2>2, <3>1, <3>2
    <3> QED
      BY <2>2, <2>4, <3>3 DEF BudgetInv, Iterate
  <2> QED
    BY <2>5, <2>6, <2>7, <2>8 DEF DecoderInv
<1> QED
  BY <1>1, <1>2

LEMMA DataKeeps == DecoderInv /\ DataField => DecoderInv'
<1> SUFFICES ASSUME DecoderInv, DataField PROVE DecoderInv'
  OBVIOUS
<1>0. pc = "data"
  BY DEF DataField
<1>1. CASE LeaveSet
  BY <1>0, <1>1, LeaveKeeps
<1>2. CASE ~LeaveSet
  <2>1. /\ Limit \in Nat /\ Limit <= len /\ nest = <<Limit>>
        /\ off \in Nat /\ len \in Nat /\ steps \in Nat /\ todo \in Seq(Nat)
    BY <1>0, InSliceFacts DEF InSlice, DecoderInv, PlaceInv
  <2>2. todo # << >> /\ Take(off, off + Head(todo), Limit) /\ Iterate("data", off + Head(todo))
        /\ todo' = Tail(todo) /\ nest' = nest /\ templates' = templates
        /\ ~(off + Head(todo) > Limit)
    BY <1>0, <1>2 DEF DataField
  <2>3. Head(todo) \in Nat /\ Tail(todo) \in Seq(Nat) /\ Len(Tail(todo)) = Len(todo) - 1
        /\ Len(todo) \in Nat /\ Len(todo) > 0
    BY <2>1, <2>2
  <2>4. PICK o \in Nat : o = off + Head(todo)
    BY <2>1, <2>3
  <2>5. off <= o /\ o <= Limit /\ Take(off, o, Limit) /\ Iterate("data", o)
    BY <2>1, <2>2, <2>3, <2>4
  <2>6. SliceInv' /\ TemplatesInv'
    BY <2>1, <2>2, <2>5, Taken, CacheKept
  <2>7. PlaceInv'
    BY <2>1, <2>2, <2>3, <2>5 DEF PlaceInv, Iterate, InSlice, AtTop
  <2>8. steps + Len(todo) + 1 <= Cost * off
    BY <1>0 DEF DecoderInv, BudgetInv
  <2>9. Cost * off \in Nat /\ Cost * o \in Nat /\ Cost * off <= Cost * o
    BY <2>1, <2>5, CostGrows
  <2>10. steps + 1 + (Len(todo) - 1) + 1 <= Cost * o
    BY <2>1, <2>3, <2>8, <2>9
  <2>11. BudgetInv'
    BY <2>1, <2>2, <2>3, <2>5, <2>10 DEF BudgetInv, Iterate
  <2> QED
    BY <2>6, <2>7, <2>11 DEF DecoderInv
<1> QED
  BY <1>1, <1>2

\* collectd: a part of four bytes or more, and eight bytes for each value.
LEMMA PartKeeps ==
  ASSUME DecoderInv, pc = "part", NEW type, NEW n \in Nat, NEW count \in Nat,
         CollectdPart(type, n, count)
  PROVE  DecoderInv'
<1>0. /\ off \in Nat /\ len \in Nat /\ nest = << >> /\ steps \in Nat /\ steps <= off
  BY DEF DecoderInv, PlaceInv, BudgetInv, AtTop
<1>1. CASE Return
  BY <1>1, ReturnKeeps
<1>2. CASE ~Return
  <2>0. ~(off + 4 > len \/ n < 4 \/ off + n > len)
    BY <1>0, <1>2 DEF CollectdPart
  <2>1. n >= 4 /\ off + n <= len /\ templates' = templates
    <3>1. templates' = templates
      BY <1>0, <2>0 DEF CollectdPart
    <3> QED
      BY <1>0, <2>0, <3>1
  <2> DEFINE Text == type = "text"
             Time == type = "time" /\ n - 4 >= 8
             Listed == type = "values" /\ n - 4 >= 2
             Line == Iterate("part", off + n) /\ nest' = nest
             Open == /\ n >= 6 /\ Take(off + 4, off + 6, off + n) /\ Iterate("values", off + 4)
                     /\ nest' = <<off + n>> /\ todo' = <<count, 0>>
  <2>b. Text => Take(off + 4, off + n, len) /\ Line
    BY <1>0, <1>2 DEF CollectdPart
  <2>c. Time => n >= 12 /\ Take(off + 4, off + 12, off + n) /\ Line
    BY <1>0, <1>2 DEF CollectdPart
  <2>d. Listed => Open
    BY <1>0, <1>2 DEF CollectdPart
  <2>e. ~Text /\ ~Time /\ ~Listed => NoTake /\ Line
    BY <1>0, <1>2 DEF CollectdPart
  <2>2. \/ Take(off + 4, off + n, len) /\ Line
        \/ n >= 12 /\ Take(off + 4, off + 12, off + n) /\ Line
        \/ Open
        \/ NoTake /\ Line
    BY <2>b, <2>c, <2>d, <2>e
  <2>3. TemplatesInv'
    BY <2>1, CacheKept
  <2>f. off + 4 \in Nat /\ off + n \in Nat /\ off + 4 <= off + n /\ off + 6 \in Nat /\ off + 12 \in Nat
        /\ off + 4 <= off + 6 /\ off + 4 <= off + 12
    BY <1>0, <2>1
  <2>4. CASE Line
    <3>1. SliceInv'
      <4>1. CASE Take(off + 4, off + n, len)
        BY <1>0, <2>1, <2>f, <4>1, Taken
      <4>2. CASE n >= 12 /\ Take(off + 4, off + 12, off + n)
        <5>1. off + 12 <= off + n
          BY <1>0, <4>2
        <5> QED
          BY <2>f, <4>2, <5>1, Taken
      <4>3. CASE NoTake
        BY <4>3 DEF NoTake, DecoderInv, SliceInv
      <4>4. CASE n >= 6 /\ Take(off + 4, off + 6, off + n)
        <5>1. off + 6 <= off + n
          BY <1>0, <4>4
        <5> QED
          BY <2>f, <4>4, <5>1, Taken
      <4> QED
        BY <2>2, <4>1, <4>2, <4>3, <4>4
    <3> QED
      <4>1. steps + 1 <= off + n
        BY <1>0, <2>1
      <4>2. nest' = << >>
        BY <1>0, <2>4
      <4> QED
        BY <2>1, <2>3, <2>4, <2>f, <3>1, <4>1, <4>2, TopKeeps DEF AtTop
  <2>5. CASE Open
    <3>1. SliceInv'
      <4>1. off + 6 <= off + n
        BY <1>0, <2>5
      <4> QED
        BY <2>5, <2>f, <4>1, Taken
    <3>2. /\ pc' = "values" /\ off' = off + 4 /\ steps' = steps + 1 /\ len' = len
          /\ todo'[1] = count /\ todo'[2] = 0 /\ Limit' = off + n
      BY <2>5 DEF Iterate, Limit, Last
    <3>3. PlaceInv'
      <4>1. len' \in Nat /\ off' \in Nat /\ off' <= off + n /\ off + n <= len'
            /\ off' + 2 <= Limit' /\ off' <= len'
        BY <1>0, <2>1, <2>5, <3>2
      <4>2. \E lim \in Nat : nest' = <<lim>> /\ off' <= lim /\ lim <= len'
        BY <2>5, <2>f, <4>1
      <4> QED
        BY <3>2, <4>1, <4>2 DEF PlaceInv, InSlice, AtTop
    <3>4. BudgetInv'
      BY <1>0, <3>2 DEF BudgetInv
    <3> QED
      BY <2>3, <3>1, <3>3, <3>4 DEF DecoderInv
  <2> QED
    BY <2>2, <2>4, <2>5
<1> QED
  BY <1>1, <1>2

LEMMA ValueKeeps == DecoderInv /\ CollectdValue => DecoderInv'
<1> SUFFICES ASSUME DecoderInv, CollectdValue PROVE DecoderInv'
  OBVIOUS
<1>0. pc = "values" /\ pc \in InSlice
  BY DEF CollectdValue, InSlice
<1>1. /\ Limit \in Nat /\ off <= Limit /\ Limit <= len /\ nest = <<Limit>>
      /\ off \in Nat /\ len \in Nat /\ steps \in Nat
  BY <1>0, InSliceFacts
<1>2. PICK i \in Nat, c \in Nat :
        /\ i = todo[2] /\ c = todo[1] /\ off + 2 <= Limit
        /\ i > 0 => off + 2 + i <= Limit
        /\ steps + 3 <= off + i
  BY <1>0 DEF DecoderInv, PlaceInv, BudgetInv
<1>3. PICK at \in Nat : at = off + 2 + c + i * 8
  BY <1>1
<1>4. IF i = c \/ off + 2 + i >= Limit \/ at + 8 > Limit
      THEN /\ Iterate("part", Limit) /\ nest' = << >> /\ UNCHANGED <<templates, slice>>
      ELSE /\ Take(at, at + 8, Limit) /\ Iterate("values", off)
           /\ todo' = <<c, i + 1>> /\ UNCHANGED <<nest, templates>>
  BY <1>0, <1>2, <1>3 DEF CollectdValue
<1>5. CASE i = c \/ off + 2 + i >= Limit \/ at + 8 > Limit
  <2>1. Iterate("part", Limit) /\ nest' = << >> /\ UNCHANGED <<templates, slice>>
    BY <1>4, <1>5
  <2>2. SliceInv' /\ TemplatesInv'
    BY <2>1, CacheKept DEF DecoderInv, SliceInv
  <2>3. steps + 1 <= Limit
    BY <1>1, <1>2
  <2> QED
    BY <1>1, <2>1, <2>2, <2>3, TopKeeps DEF AtTop
<1>6. CASE ~(i = c \/ off + 2 + i >= Limit \/ at + 8 > Limit)
  <2>1. /\ Take(at, at + 8, Limit) /\ Iterate("values", off)
        /\ todo' = <<c, i + 1>> /\ UNCHANGED <<nest, templates>>
    BY <1>4, <1>6
  <2>2. at <= at + 8 /\ at + 8 <= Limit /\ at + 8 \in Nat /\ off + 2 + (i + 1) <= Limit
    BY <1>1, <1>2, <1>3, <1>6
  <2>3. SliceInv' /\ TemplatesInv'
    BY <1>1, <2>1, <2>2, Taken, CacheKept
  <2>4. /\ pc' = "values" /\ off' = off /\ steps' = steps + 1 /\ len' = len
        /\ todo'[1] = c /\ todo'[2] = i + 1 /\ Limit' = Limit
    BY <2>1 DEF Iterate, Limit
  <2>5. PlaceInv'
    BY <1>1, <1>2, <2>1, <2>2, <2>4 DEF PlaceInv, InSlice, AtTop
  <2>6. BudgetInv'
    BY <1>1, <1>2, <2>4 DEF BudgetInv
  <2> QED
    BY <2>3, <2>5, <2>6 DEF DecoderInv
<1> QED
  BY <1>5, <1>6

\* A number of variable length ends behind its beginning and inside the data.
LEMMA VarintFacts ==
  ASSUME NEW o \in Nat, NEW limit \in Nat, NEW e \in VarintEnds(o, limit)
  PROVE  e \in Nat /\ o + 1 <= e /\ e <= limit
  BY DEF VarintEnds

\* The end of a slice of any length, if it does not overflow.
LEMMA AddFacts ==
  ASSUME NEW e \in Nat, NEW v \in Signed
  PROVE  /\ \A x \in checked_add(e, as_usize(v)) : x \in Nat /\ e <= x
         /\ v >= 0 => \A x \in checked_add(e, v) : x \in Nat /\ e <= x
<1>1. UMax \in Nat
  BY DecoderAssumption
<1>2. as_usize(v) \in Nat
  <2>1. v \in Int /\ UMax + 1 \in Nat /\ UMax + 1 > 0
    BY <1>1 DEF Signed
  <2>2. v % (UMax + 1) \in 0 .. (UMax + 1) - 1
    BY <2>1
  <2> QED
    BY <1>1, <2>2 DEF as_usize
<1>3. \A n \in Nat : \A x \in checked_add(e, n) : x \in Nat /\ e <= x
  BY <1>1 DEF checked_add
<1>4. v >= 0 => v \in Nat
  BY <1>1 DEF Signed
<1> QED
  BY <1>2, <1>3, <1>4

\* avro: every value takes at least a byte.
LEMMA AvroKeeps ==
  ASSUME DecoderInv, NEW v \in Signed,
         AvroMeta(v) \/ AvroEntry(v) \/ AvroBlock(v) \/ AvroDone
  PROVE  DecoderInv'
<1>0. pc \in {"meta", "entry", "sync", "block"}
  BY DEF AvroMeta, AvroEntry, AvroBlock, AvroDone
<1>1. off \in Nat /\ len \in Nat /\ off <= len /\ nest = << >> /\ steps \in Nat /\ steps <= off
  BY <1>0 DEF DecoderInv, PlaceInv, BudgetInv, AtTop
<1>2. CASE Return
  BY <1>2, ReturnKeeps
<1>3. SUFFICES ASSUME ~Return PROVE DecoderInv'
  BY <1>2
<1>4. ASSUME NEW p \in {"meta", "entry", "sync", "block"}, NEW o \in Nat, off + 1 <= o, o <= len,
             Iterate(p, o), nest' = nest, templates' = templates,
             \/ slice' = slice
             \/ \E a \in Nat, b \in Nat : a <= b /\ b <= len /\ Take(a, b, len)
      PROVE  DecoderInv'
  <2>1. SliceInv'
    BY <1>1, <1>4, Taken DEF DecoderInv, SliceInv
  <2>2. TemplatesInv'
    BY <1>4, CacheKept
  <2>3. steps + 1 <= o
    BY <1>1, <1>4
  <2> QED
    BY <1>1, <1>4, <2>1, <2>2, <2>3, TopKeeps DEF AtTop
<1>5. CASE AvroMeta(v)
  <2>1. PICK e \in VarintEnds(off, len) :
          /\ NoTake /\ UNCHANGED <<nest, templates>>
          /\ Iterate("entry", e) \/ Iterate("sync", e)
    BY <1>3, <1>5 DEF AvroMeta
  <2>2. e \in Nat /\ off + 1 <= e /\ e <= len
    BY <1>1, VarintFacts
  <2> QED
    BY <1>4, <2>1, <2>2 DEF NoTake
<1>6. CASE AvroEntry(v)
  <2>1. PICK e \in VarintEnds(off, len) :
          /\ UNCHANGED <<nest, templates>>
          /\ \/ Iterate("sync", e) /\ slice' = slice
             \/ \E x \in SliceEnd(e, v) : Take(e, x, len) /\ Iterate("entry", x)
    BY <1>3, <1>6 DEF AvroEntry
  <2>2. e \in Nat /\ off + 1 <= e /\ e <= len
    BY <1>1, VarintFacts
  <2>3. CASE Iterate("sync", e) /\ slice' = slice
    BY <1>4, <2>1, <2>2, <2>3
  <2>4. ASSUME NEW x \in SliceEnd(e, v), Take(e, x, len), Iterate("entry", x)
        PROVE  DecoderInv'
    <3>1. x \in Nat /\ e <= x /\ x <= len
      BY <2>2, AddFacts DEF SliceEnd
    <3>2. off + 1 <= x
      BY <1>1, <2>2, <3>1
    <3> QED
      BY <1>4, <2>1, <2>2, <2>4, <3>1, <3>2
  <2> QED
    BY <2>1, <2>3, <2>4
<1>7. CASE AvroBlock(v)
  <2>1. off + 16 \in Nat /\ off + 20 <= len
    BY <1>1, <1>3, <1>7 DEF AvroBlock
  <2>2. PICK c \in VarintEnds(off + 16, len) : \E e \in VarintEnds(c, len) :
           /\ v >= 0
           /\ \E x \in checked_add(e, v) :
                /\ Iterate("block", len) /\ UNCHANGED <<nest, todo, templates>>
                /\ LET end == IF x < len THEN x ELSE len
                   IN IF end > e THEN Take(e, end, len) ELSE NoTake
    <3>1. v \in Int
      BY DecoderAssumption DEF Signed
    <3>2. ~(v < 0) => v >= 0
      BY <3>1
    <3> QED
      BY <1>3, <1>7, <3>2 DEF AvroBlock
  <2>3. c \in Nat
    BY <1>1, <2>1, VarintFacts
  <2>4. PICK e \in VarintEnds(c, len) :
          /\ v >= 0
          /\ \E x \in checked_add(e, v) :
               /\ Iterate("block", len) /\ UNCHANGED <<nest, todo, templates>>
               /\ LET end == IF x < len THEN x ELSE len
                  IN IF end > e THEN Take(e, end, len) ELSE NoTake
    BY <2>2
  <2>5. e \in Nat /\ e <= len
    BY <1>1, <2>3, VarintFacts
  <2>a. PICK x \in checked_add(e, v) :
          /\ Iterate("block", len) /\ UNCHANGED <<nest, todo, templates>>
          /\ LET end == IF x < len THEN x ELSE len
             IN IF end > e THEN Take(e, end, len) ELSE NoTake
    BY <2>4
  <2>6. x \in Nat
    BY <2>4, <2>5, AddFacts
  <2>7. PICK end \in Nat : end = (IF x < len THEN x ELSE len) /\ end <= len
    BY <1>1, <2>6
  <2>8. \/ slice' = slice
        \/ e <= end /\ Take(e, end, len)
    BY <2>5, <2>7, <2>a DEF NoTake
  <2>9. off + 1 <= len
    BY <1>1, <2>1
  <2> QED
    BY <1>1, <1>4, <2>5, <2>7, <2>8, <2>9, <2>a
<1>8. CASE AvroDone
  BY <1>3, <1>8 DEF AvroDone
<1> QED
  BY <1>5, <1>6, <1>7, <1>8

\* protobuf: inside a message the limit is its end.
LEMMA NestedFacts ==
  ASSUME DecoderInv, pc = "field"
  PROVE  /\ Limit \in Nat /\ off <= Limit /\ Limit <= len
         /\ off \in Nat /\ len \in Nat /\ steps \in Nat
         /\ nest \in Seq(Nat) /\ Len(nest) \in Nat /\ Len(nest) <= MaxDepth
         /\ \A i \in 1 .. Len(nest) : nest[i] \in Nat /\ Limit <= nest[i] /\ nest[i] <= len
         /\ \A i, j \in 1 .. Len(nest) : i <= j => nest[j] <= nest[i]
         /\ steps + Len(nest) <= 2 * off
<1>1. Nested /\ off \in Nat /\ len \in Nat /\ steps \in Nat /\ off <= len
      /\ steps + Len(nest) <= 2 * off
  BY DEF DecoderInv, PlaceInv, BudgetInv
<1>2. nest \in Seq(Nat) /\ Len(nest) \in Nat /\ Len(nest) <= MaxDepth
      /\ (\A i \in 1 .. Len(nest) : nest[i] \in Nat /\ off <= nest[i] /\ nest[i] <= len)
      /\ \A i, j \in 1 .. Len(nest) : i <= j => nest[j] <= nest[i]
  <2>1. /\ nest \in Seq(Nat) /\ Len(nest) <= MaxDepth
        /\ \A i \in 1 .. Len(nest) : off <= nest[i] /\ nest[i] <= len
    BY <1>1 DEF Nested
  <2>2. \A i, j \in 1 .. Len(nest) : i <= j => nest[j] <= nest[i]
    BY <1>1, Zenon DEF Nested
  <2>3. Len(nest) \in Nat /\ \A i \in 1 .. Len(nest) : nest[i] \in Nat
    BY <2>1
  <2> QED
    BY <2>1, <2>2, <2>3
<1>3. CASE nest = << >>
  <2>1. Limit = len /\ Len(nest) = 0
    BY <1>3 DEF Limit
  <2> QED
    BY <1>1, <1>2, <2>1
<1>4. CASE nest # << >>
  <2>1. Limit = nest[Len(nest)] /\ Len(nest) \in 1 .. Len(nest)
    BY <1>2, <1>4 DEF Limit, Last
  <2>2. \A i \in 1 .. Len(nest) : i <= Len(nest)
    BY <1>2
  <2> QED
    BY <1>1, <1>2, <2>1, <2>2
<1> QED
  BY <1>3, <1>4

LEMMA EndKeeps ==
  ASSUME DecoderInv, pc = "field", EndMessage
  PROVE  DecoderInv'
<1>0. /\ Limit \in Nat /\ off <= Limit /\ Limit <= len
      /\ off \in Nat /\ len \in Nat /\ steps \in Nat
      /\ nest \in Seq(Nat) /\ Len(nest) \in Nat /\ Len(nest) <= MaxDepth
      /\ steps + Len(nest) <= 2 * off
  BY NestedFacts, Zenon
<1>a. \A i \in 1 .. Len(nest) : nest[i] \in Nat /\ Limit <= nest[i] /\ nest[i] <= len
  BY NestedFacts, Zenon
<1>b. \A i, j \in 1 .. Len(nest) : i <= j => nest[j] <= nest[i]
  BY NestedFacts, Zenon
<1>c. MaxDepth \in Nat
  BY DecoderAssumption
<1>1. CASE nest = << >>
  BY <1>1, ReturnKeeps DEF EndMessage
<1>2. CASE nest # << >>
  <2>1. /\ pc' = "field" /\ off' = Limit /\ steps' = steps + 1 /\ len' = len
        /\ nest' = Front(nest) /\ templates' = templates /\ slice' = slice
    BY <1>2 DEF EndMessage, Iterate
  <2>2. SliceInv' /\ TemplatesInv'
    BY <2>1, CacheKept DEF DecoderInv, SliceInv
  <2>3. PICK k \in Nat : k = Len(nest) /\ k >= 1
    BY <1>2, <1>0
  <2>4. /\ nest' \in Seq(Nat) /\ Len(nest') = k - 1
        /\ \A i \in 1 .. k - 1 : nest'[i] = nest[i]
    <3>1. nest' = [i \in 1 .. k - 1 |-> nest[i]]
      BY <2>1, <2>3, <1>0 DEF Front
    <3>2. k - 1 \in Nat /\ \A i \in 1 .. k - 1 : nest[i] \in Nat
      BY <1>a, <2>3
    <3> QED
      BY <3>1, <3>2
  <2>5. \A i \in 1 .. k - 1 : i \in 1 .. Len(nest)
    BY <2>3
  <2>6. Nested'
    <3>1. k - 1 <= MaxDepth
      BY <1>0, <1>c, <2>3
    <3>2. \A i \in 1 .. k - 1 : off' <= nest'[i] /\ nest'[i] <= len'
      BY <1>a, <2>1, <2>4, <2>5
    <3>3. \A i, j \in 1 .. k - 1 : i <= j => nest'[j] <= nest'[i]
      BY <1>b, <2>4, <2>5
    <3> QED
      BY <2>4, <3>1, <3>2, <3>3 DEF Nested
  <2>7. PlaceInv'
    BY <2>1, <2>6, <1>0 DEF PlaceInv, InSlice, AtTop
  <2>8. BudgetInv'
    <3>1. steps' = steps + 1 /\ Len(nest') = k - 1 /\ steps + k <= 2 * off
      BY <1>0, <2>1, <2>3, <2>4
    <3>2. steps' \in Nat /\ steps' + Len(nest') = steps + k
      BY <1>0, <3>1
    <3>3. steps + k <= 2 * Limit
      BY <1>0, <3>1
    <3>4. steps' \in Nat /\ steps' + Len(nest') <= 2 * off'
      BY <2>1, <3>2, <3>3
    <3> QED
      BY <2>1, <3>4 DEF BudgetInv
  <2> QED
    BY <2>2, <2>7, <2>8 DEF DecoderInv
<1> QED
  BY <1>1, <1>2

LEMMA FieldKeeps ==
  ASSUME DecoderInv, pc = "field", NEW x \in Nat, off + 1 <= x, x <= Limit, Field(x), SliceInv'
  PROVE  DecoderInv'
<1>0. /\ Limit \in Nat /\ off <= Limit /\ Limit <= len
      /\ off \in Nat /\ len \in Nat /\ steps \in Nat
      /\ nest \in Seq(Nat) /\ Len(nest) \in Nat /\ Len(nest) <= MaxDepth
      /\ steps + Len(nest) <= 2 * off
  BY NestedFacts, Zenon
<1>a. \A i \in 1 .. Len(nest) : nest[i] \in Nat /\ Limit <= nest[i] /\ nest[i] <= len
  BY NestedFacts, Zenon
<1>b. \A i, j \in 1 .. Len(nest) : i <= j => nest[j] <= nest[i]
  BY NestedFacts, Zenon
<1>c. MaxDepth \in Nat
  BY DecoderAssumption
<1>1. /\ pc' = "field" /\ off' = x /\ steps' = steps + 1 /\ len' = len
      /\ nest' = nest /\ templates' = templates
  BY DEF Field, Iterate
<1>2. TemplatesInv'
  BY <1>1, CacheKept
<1>3. Nested'
  <2>0. PICK l \in Nat : l = Limit
    BY <1>0
  <2>1. \A i \in 1 .. Len(nest) : x <= nest[i]
    <3>1. x <= l /\ \A i \in 1 .. Len(nest) : nest[i] \in Nat /\ l <= nest[i]
      BY <1>a, <2>0
    <3> QED
      BY <3>1
  <2> QED
    BY <1>0, <1>1, <1>a, <1>b, <2>1 DEF Nested
<1>4. PlaceInv'
  BY <1>1, <1>3, <1>0 DEF PlaceInv, InSlice, AtTop
<1>5. BudgetInv'
  <2>1. steps' \in Nat /\ steps' + Len(nest') <= 2 * off'
    BY <1>1, <1>0
  <2> QED
    BY <1>1, <2>1 DEF BudgetInv
<1> QED
  BY <1>2, <1>4, <1>5 DEF DecoderInv

LEMMA MessageKeeps ==
  ASSUME DecoderInv, pc = "field", NEW s \in Nat, NEW x \in Nat, off + 1 <= s, s <= x, x <= Limit,
         Len(nest) < MaxDepth, Iterate("field", s), nest' = Append(nest, x),
         templates' = templates, SliceInv'
  PROVE  DecoderInv'
<1>0. /\ Limit \in Nat /\ off <= Limit /\ Limit <= len
      /\ off \in Nat /\ len \in Nat /\ steps \in Nat
      /\ nest \in Seq(Nat) /\ Len(nest) \in Nat /\ Len(nest) <= MaxDepth
      /\ steps + Len(nest) <= 2 * off
  BY NestedFacts, Zenon
<1>a. \A i \in 1 .. Len(nest) : nest[i] \in Nat /\ Limit <= nest[i] /\ nest[i] <= len
  BY NestedFacts, Zenon
<1>b. \A i, j \in 1 .. Len(nest) : i <= j => nest[j] <= nest[i]
  BY NestedFacts, Zenon
<1>c. MaxDepth \in Nat
  BY DecoderAssumption
<1>1. pc' = "field" /\ off' = s /\ steps' = steps + 1 /\ len' = len
  BY DEF Iterate
<1>2. TemplatesInv'
  BY CacheKept
<1>3. PICK k \in Nat : k = Len(nest)
  BY <1>0
<1>4. /\ nest' \in Seq(Nat) /\ Len(nest') = k + 1 /\ nest'[k + 1] = x
      /\ \A i \in 1 .. k : nest'[i] = nest[i]
  BY <1>3, <1>0
<1>5. \A i \in 1 .. k : x <= nest[i] /\ nest[i] <= len /\ nest[i] \in Nat
  <2>1. PICK l \in Nat : l = Limit
    BY <1>0
  <2>2. x <= l /\ \A i \in 1 .. k : nest[i] \in Nat /\ l <= nest[i] /\ nest[i] <= len
    BY <1>3, <1>a, <2>1
  <2> QED
    BY <2>2
<1>6. Nested'
  <2>1. k + 1 <= MaxDepth
    BY <1>3, <1>c
  <2>2. \A i \in 1 .. k + 1 : i \in 1 .. k \/ i = k + 1
    OBVIOUS
  <2>3. \A i \in 1 .. k + 1 : off' <= nest'[i] /\ nest'[i] <= len'
    <3> SUFFICES ASSUME NEW i \in 1 .. k + 1 PROVE off' <= nest'[i] /\ nest'[i] <= len'
      OBVIOUS
    <3>1. CASE i \in 1 .. k
      <4>1. PICK m \in Nat : m = nest[i] /\ nest'[i] = m /\ x <= m /\ m <= len
        BY <1>4, <1>5, <3>1
      <4>2. s <= m
        BY <4>1
      <4> QED
        BY <1>1, <4>1, <4>2, Zenon
    <3>2. CASE i = k + 1
      BY <1>0, <1>1, <1>4, <3>2
    <3> QED
      BY <2>2, <3>1, <3>2
  <2>4. \A i, j \in 1 .. k + 1 : i <= j => nest'[j] <= nest'[i]
    <3> SUFFICES ASSUME NEW i \in 1 .. k + 1, NEW j \in 1 .. k + 1, i <= j
                 PROVE  nest'[j] <= nest'[i]
      OBVIOUS
    <3>1. CASE j = k + 1
      BY <1>4, <1>5, <2>2, <3>1
    <3>2. CASE j \in 1 .. k
      <4>1. i \in 1 .. k /\ i \in 1 .. Len(nest) /\ j \in 1 .. Len(nest)
        BY <1>3, <3>2
      <4> QED
        BY <1>4, <1>b, <3>2, <4>1
    <3> QED
      BY <2>2, <3>1, <3>2
  <2> QED
    BY <1>4, <2>1, <2>3, <2>4 DEF Nested
<1>7. PlaceInv'
  BY <1>1, <1>6, <1>0 DEF PlaceInv, InSlice, AtTop
<1>8. BudgetInv'
  <2>1. steps' \in Nat /\ steps' + Len(nest') <= 2 * off'
    BY <1>1, <1>3, <1>4, <1>0
  <2> QED
    BY <1>1, <2>1 DEF BudgetInv
<1> QED
  BY <1>2, <1>7, <1>8 DEF DecoderInv

LEMMA ProtobufKeeps ==
  ASSUME DecoderInv, NEW v \in Signed,
         NEW wire \in {"varint", "fixed32", "fixed64", "text", "message", "other"},
         ProtobufField(wire, v)
  PROVE  DecoderInv'
<1>0. pc = "field"
  BY DEF ProtobufField
<1>1. CASE EndMessage
  BY <1>0, <1>1, EndKeeps
<1>2. CASE ~EndMessage
  <2> DEFINE Ends(s) == {x \in checked_add(s, as_usize(v)) : x <= Limit}
  <2>0. Limit \in Nat /\ off \in Nat
    BY <1>0, NestedFacts
  <2>1. PICK e \in VarintEnds(off, Limit) :
          \/ wire = "varint" /\ \E x \in VarintEnds(e, Limit) : Field(x) /\ NoTake
          \/ /\ ~(e + FixedLen(wire) > Limit)
             /\ Take(e, e + FixedLen(wire), Limit) /\ Field(e + FixedLen(wire))
          \/ \E s \in VarintEnds(e, Limit) : \E x \in Ends(s) :
               /\ Take(s, x, Limit)
               /\ \/ /\ Len(nest) < MaxDepth /\ Iterate("field", s) /\ nest' = Append(nest, x)
                     /\ templates' = templates
                  \/ Field(x)
    <3> DEFINE Taken1(s, x) == /\ Take(s, x, Limit)
                               /\ IF wire = "message" /\ Len(nest) < MaxDepth
                                  THEN /\ Iterate("field", s) /\ nest' = Append(nest, x)
                                       /\ UNCHANGED <<todo, templates>>
                                  ELSE Field(x)
               Sub(s) == \/ Ends(s) = {} /\ EndMessage
                         \/ \E x \in Ends(s) : Taken1(s, x)
               Fixed(e) == Take(e, e + FixedLen(wire), Limit) /\ Field(e + FixedLen(wire))
               Varint(e) == \E x \in VarintEnds(e, Limit) : Field(x) /\ NoTake
    <3>1. PICK e \in VarintEnds(off, Limit) :
            CASE wire = "other" -> EndMessage
              [] wire = "varint" -> EndMessage \/ Varint(e)
              [] wire \in {"fixed32", "fixed64"} ->
                   IF e + FixedLen(wire) > Limit THEN EndMessage ELSE Fixed(e)
              [] wire \in {"text", "message"} ->
                   EndMessage \/ \E s \in VarintEnds(e, Limit) : Sub(s)
      BY <1>2, Zenon DEF ProtobufField
    <3>2. \/ wire = "varint" /\ Varint(e)
          \/ ~(e + FixedLen(wire) > Limit) /\ Fixed(e)
          \/ \E s \in VarintEnds(e, Limit) : Sub(s)
      <4> HIDE DEF Varint, Fixed, Sub
      <4>1. wire = "other" => EndMessage
        BY <3>1
      <4>2. wire = "varint" => EndMessage \/ Varint(e)
        BY <3>1
      <4>3. wire \in {"fixed32", "fixed64"} => IF e + FixedLen(wire) > Limit THEN EndMessage ELSE Fixed(e)
        BY <3>1
      <4>4. wire \in {"text", "message"} => EndMessage \/ \E s \in VarintEnds(e, Limit) : Sub(s)
        BY <3>1
      <4> QED
        BY <1>2, <4>1, <4>2, <4>3, <4>4
    <3>3. ASSUME NEW s, Sub(s)
          PROVE  \E x \in Ends(s) :
                   /\ Take(s, x, Limit)
                   /\ \/ /\ Len(nest) < MaxDepth /\ Iterate("field", s) /\ nest' = Append(nest, x)
                         /\ templates' = templates
                      \/ Field(x)
      BY <1>2, <3>3
    <3> QED
      BY <3>2, <3>3
  <2>2. e \in Nat /\ off + 1 <= e /\ e <= Limit
    BY <2>0, VarintFacts
  <2>3. CASE \E x \in VarintEnds(e, Limit) : Field(x) /\ NoTake
    <3>1. PICK x \in VarintEnds(e, Limit) : Field(x) /\ NoTake
      BY <2>3
    <3>2. x \in Nat /\ e + 1 <= x /\ x <= Limit
      BY <2>0, <2>2, VarintFacts
    <3>3. SliceInv'
      BY <3>1 DEF NoTake, DecoderInv, SliceInv
    <3>4. off + 1 <= x
      BY <2>0, <2>2, <3>2
    <3> QED
      BY <1>0, <3>1, <3>2, <3>3, <3>4, FieldKeeps
  <2>4. CASE /\ ~(e + FixedLen(wire) > Limit)
             /\ Take(e, e + FixedLen(wire), Limit) /\ Field(e + FixedLen(wire))
    <3>1. PICK x \in Nat : x = e + FixedLen(wire) /\ e <= x
      BY <2>2 DEF FixedLen
    <3>2. x <= Limit /\ Take(e, x, Limit) /\ Field(x)
      BY <2>0, <2>4, <3>1
    <3>3. SliceInv'
      BY <2>0, <2>2, <3>1, <3>2, Taken
    <3>4. off + 1 <= x
      BY <2>0, <2>2, <3>1
    <3> QED
      BY <1>0, <3>2, <3>3, <3>4, FieldKeeps
  <2>5. ASSUME NEW s \in VarintEnds(e, Limit), NEW x \in Ends(s), Take(s, x, Limit),
               \/ /\ Len(nest) < MaxDepth /\ Iterate("field", s) /\ nest' = Append(nest, x)
                  /\ templates' = templates
               \/ Field(x)
        PROVE  DecoderInv'
    <3>1. s \in Nat /\ e + 1 <= s /\ s <= Limit
      BY <2>0, <2>2, VarintFacts
    <3>2. x \in Nat /\ s <= x /\ x <= Limit
      BY <3>1, AddFacts
    <3>3. SliceInv'
      BY <2>0, <2>5, <3>1, <3>2, Taken
    <3>4. off + 1 <= s /\ off + 1 <= x
      BY <2>0, <2>2, <3>1, <3>2
    <3>5. CASE Field(x)
      BY <1>0, <3>2, <3>3, <3>4, <3>5, FieldKeeps
    <3>6. CASE /\ Len(nest) < MaxDepth /\ Iterate("field", s) /\ nest' = Append(nest, x)
               /\ templates' = templates
      BY <1>0, <3>1, <3>2, <3>3, <3>4, <3>6, MessageKeeps
    <3> QED
      BY <2>5, <3>5, <3>6
  <2> QED
    BY <2>1, <2>3, <2>4, <2>5
<1> QED
  BY <1>1, <1>2

\* nmap: a host costs the five bytes of its tag, a port the six of its own.
LEMMA HostKeeps ==
  ASSUME DecoderInv, NEW skip \in Nat, NEW n \in Nat, NmapHost(skip, n)
  PROVE  DecoderInv'
<1>0. pc = "host" /\ off \in Nat /\ len \in Nat /\ nest = << >> /\ steps \in Nat /\ steps <= off
  BY DEF NmapHost, DecoderInv, PlaceInv, BudgetInv, AtTop
<1>1. CASE Return
  BY <1>1, ReturnKeeps
<1>2. CASE ~Return
  <2>1. PICK at \in Nat, end \in Nat :
          /\ at = off + skip /\ at + 5 <= len
          /\ end = IF at + 5 + n + 7 > len THEN len ELSE at + 5 + n + 7
    <3>1. ~(off + skip + 5 > len)
      BY <1>0, <1>2 DEF NmapHost
    <3>2. PICK at \in Nat : at = off + skip /\ at + 5 <= len
      BY <1>0, <3>1
    <3> QED
      BY <1>0, <3>2
  <2>2. /\ Take(at, end, len) /\ Iterate("port", at) /\ nest' = <<end>>
        /\ templates' = templates
    BY <1>0, <1>2, <2>1 DEF NmapHost
  <2>3. at + 5 <= end /\ end <= len /\ off <= at
    BY <1>0, <2>1
  <2>4. SliceInv' /\ TemplatesInv'
    BY <1>0, <2>2, <2>3, Taken, CacheKept
  <2>5. pc' = "port" /\ off' = at /\ steps' = steps + 1 /\ len' = len /\ Limit' = end
    BY <2>2 DEF Iterate, Limit, Last
  <2>6. PlaceInv'
    BY <1>0, <2>2, <2>3, <2>5 DEF PlaceInv, InSlice, AtTop
  <2>7. BudgetInv'
    BY <1>0, <2>3, <2>5 DEF BudgetInv
  <2> QED
    BY <2>4, <2>6, <2>7 DEF DecoderInv
<1> QED
  BY <1>1, <1>2

LEMMA PortKeeps ==
  ASSUME DecoderInv, NEW skip \in Nat, NEW n \in Nat, NmapPort(skip, n)
  PROVE  DecoderInv'
<1>0. pc = "port" /\ pc \in InSlice
  BY DEF NmapPort, InSlice
<1>1. /\ Limit \in Nat /\ off <= Limit /\ Limit <= len /\ nest = <<Limit>>
      /\ off \in Nat /\ len \in Nat /\ steps \in Nat
  BY <1>0, InSliceFacts
<1>2. steps <= off + 1 /\ steps + 1 <= Limit
  BY <1>0 DEF DecoderInv, BudgetInv
<1>3. CASE off + skip + 6 > Limit
  <2>1. Iterate("host", Limit) /\ nest' = << >> /\ UNCHANGED <<templates, slice>>
    BY <1>3 DEF NmapPort
  <2>2. SliceInv' /\ TemplatesInv'
    BY <2>1, CacheKept DEF DecoderInv, SliceInv
  <2> QED
    BY <1>1, <1>2, <2>1, <2>2, TopKeeps DEF AtTop
<1>4. CASE ~(off + skip + 6 > Limit)
  <2>1. PICK at \in Nat, end \in Nat :
          /\ at = off + skip /\ at + 6 <= Limit
          /\ end = IF at + 6 + n > Limit THEN Limit ELSE at + 6 + n
    <3>1. PICK at \in Nat : at = off + skip /\ at + 6 <= Limit
      BY <1>1, <1>4
    <3> QED
      BY <1>1, <3>1
  <2>2. /\ Take(at, end, Limit) /\ Iterate("port", end) /\ nest' = nest
        /\ templates' = templates
    BY <1>1, <1>4, <2>1 DEF NmapPort
  <2>3. at + 6 <= end /\ end <= Limit /\ off <= at
    BY <1>1, <2>1
  <2>4. SliceInv' /\ TemplatesInv'
    BY <1>1, <2>2, <2>3, Taken, CacheKept
  <2>5. pc' = "port" /\ off' = end /\ steps' = steps + 1 /\ len' = len /\ Limit' = Limit
    BY <2>2 DEF Iterate, Limit
  <2>6. PlaceInv'
    BY <1>1, <2>2, <2>3, <2>5 DEF PlaceInv, InSlice, AtTop
  <2>7. BudgetInv'
    BY <1>1, <1>2, <2>3, <2>5 DEF BudgetInv
  <2> QED
    BY <2>4, <2>6, <2>7 DEF DecoderInv
<1> QED
  BY <1>3, <1>4

\* CEF and es_bulk: a character or a line is read by every iteration, the source
\* after the last action apart.
LEMMA CefKeeps ==
  ASSUME DecoderInv, NEW c, CefChar(c)
  PROVE  DecoderInv'
<1>0. /\ pc = "header" /\ off \in Nat /\ len \in Nat /\ nest = << >>
      /\ steps \in Nat /\ steps <= off
  BY DEF CefChar, DecoderInv, PlaceInv, BudgetInv, AtTop
<1>1. CASE Return
  BY <1>1, ReturnKeeps
<1>2. CASE ~Return
  <2>1. PICK o \in Nat : o = (IF c = "escape" /\ off + 1 < len THEN off + 2 ELSE off + 1)
    BY <1>0
  <2>2. ~(off >= len) /\ Iterate("header", o) /\ UNCHANGED <<nest, templates, slice>>
    BY <1>0, <1>2, <2>1 DEF CefChar
  <2>3. off + 1 <= o /\ o <= len
    BY <1>0, <2>1, <2>2
  <2>4. SliceInv' /\ TemplatesInv'
    BY <2>2, CacheKept DEF DecoderInv, SliceInv
  <2> QED
    BY <1>0, <2>2, <2>3, <2>4, TopKeeps DEF AtTop
<1> QED
  BY <1>1, <1>2

LEMMA BulkKeeps ==
  ASSUME DecoderInv, (\E delete \in BOOLEAN : BulkAction(delete)) \/ BulkSource
  PROVE  DecoderInv'
<1>0. pc \in {"action", "source"}
  BY DEF BulkAction, BulkSource
<1>1. off \in Nat /\ len \in Nat /\ off <= len /\ nest = << >> /\ steps \in Nat
  BY <1>0 DEF DecoderInv, PlaceInv, BudgetInv, AtTop
<1>2. CASE Return
  BY <1>2, ReturnKeeps
<1>3. CASE pc = "action" /\ ~Return
  <2>1. steps <= 2 * off
    BY <1>3 DEF DecoderInv, BudgetInv
  <2>2. PICK p \in {"action", "source"} :
          ~(off >= len) /\ Iterate(p, off + 1) /\ UNCHANGED <<nest, templates, slice>>
    BY <1>3 DEF BulkAction, BulkSource
  <2>3. SliceInv' /\ TemplatesInv'
    BY <2>2, CacheKept DEF DecoderInv, SliceInv
  <2>4. off + 1 \in Nat /\ off + 1 <= len /\ steps + 2 <= 2 * (off + 1) /\ steps + 1 <= 2 * (off + 1)
    BY <1>1, <2>1, <2>2
  <2> QED
    BY <1>1, <2>2, <2>3, <2>4, TopKeeps DEF AtTop
<1>4. CASE pc = "source"
  <2>1. steps + 1 <= 2 * off
    BY <1>4 DEF DecoderInv, BudgetInv
  <2>2. PICK o \in Nat : o = (IF off < len THEN off + 1 ELSE off) /\ off <= o /\ o <= len
    BY <1>1
  <2>3. Iterate("action", o) /\ UNCHANGED <<nest, templates, slice>>
    BY <1>4, <2>2 DEF BulkAction, BulkSource
  <2>4. SliceInv' /\ TemplatesInv'
    BY <2>3, CacheKept DEF DecoderInv, SliceInv
  <2>5. steps + 1 <= 2 * o
    BY <1>1, <2>1, <2>2
  <2> QED
    BY <1>1, <2>2, <2>3, <2>4, <2>5, TopKeeps DEF AtTop
<1> QED
  BY <1>0, <1>2, <1>3, <1>4

\* Every non-empty set of naturals has a least element.
LEMMA LeastNat ==
  ASSUME NEW S, S \subseteq Nat, S # {}
  PROVE  \E m \in S : \A n \in S : m <= n
<1>1. \E x \in S : \A y \in S : ~ (<<y, x>> \in OpToRel(<, Nat))
  BY NatLessThanWellFounded, WFMin
<1>2. PICK x \in S : \A y \in S : ~ (<<y, x>> \in OpToRel(<, Nat))
  BY <1>1
<1>3. \A y \in S : x <= y
  <2>1. SUFFICES ASSUME NEW y \in S PROVE x <= y
    OBVIOUS
  <2>2. ~ (y < x)
    BY <1>2 DEF OpToRel
  <2> QED
    BY <2>2
<1> QED
  BY <1>3

\* A non-empty set of places in a sequence has a last one.
LEMMA LastPlace ==
  ASSUME NEW n \in Nat, NEW S, S \subseteq 1 .. n, S # {}
  PROVE  Max(S) \in S
<1>1. PICK T : T = {n - i : i \in S}
  OBVIOUS
<1>2. \A i \in S : i \in 1 .. n
  OBVIOUS
<1>3. T \subseteq Nat
  <2> SUFFICES ASSUME NEW i \in S PROVE n - i \in Nat
    BY <1>1
  <2> QED
    BY <1>2
<1>4. T # {}
  <2>1. PICK i \in S : TRUE
    OBVIOUS
  <2>2. n - i \in T
    BY <1>1, <2>1
  <2> QED
    BY <2>2
<1>5. PICK x \in T : \A y \in T : x <= y
  BY <1>3, <1>4, LeastNat
<1>6. PICK i \in S : x = n - i
  BY <1>1
<1>7. \A j \in S : i >= j
  <2> SUFFICES ASSUME NEW j \in S PROVE i >= j
    OBVIOUS
  <2>1. n - i <= n - j
    BY <1>1, <1>5, <1>6
  <2> QED
    BY <1>2, <2>1
<1> QED
  BY <1>7 DEF Max

\* After a value what stays open is not more than what was.
LEMMA WantsFacts ==
  ASSUME NEW stack \in Seq(Kinds)
  PROVE  /\ Wants(stack) \in Seq(Kinds)
         /\ Len(Wants(stack)) \in Nat /\ Len(Wants(stack)) <= Len(stack)
<1> DEFINE I == {i \in 1 .. Len(stack) : stack[i] # "tag"}
<1>1. Plain(stack) \in Nat /\ Plain(stack) <= Len(stack)
  <2>1. Plain(stack) = IF I # {} THEN Max(I) ELSE 0
    BY DEF Plain, SelectLastInSubSeq
  <2>2. CASE I # {}
    <3>1. Max(I) \in I
      <4>1. Len(stack) \in Nat /\ I \subseteq 1 .. Len(stack)
        OBVIOUS
      <4> HIDE DEF I
      <4> QED
        BY <2>2, <4>1, LastPlace
    <3> QED
      BY <2>1, <2>2, <3>1
  <2> QED
    BY <2>1, <2>2
<1>2. PICK p \in Nat : p = Plain(stack) /\ p <= Len(stack)
  BY <1>1
<1>3. PICK kept \in Seq(Kinds) : kept = SubSeq(stack, 1, p) /\ Len(kept) = p
  <2>1. SubSeq(stack, 1, p) = [i \in 1 .. p |-> stack[i]]
    BY <1>2
  <2>2. \A i \in 1 .. p : stack[i] \in Kinds
    BY <1>2
  <2>3. SubSeq(stack, 1, p) \in Seq(Kinds)
    <3>1. [i \in 1 .. p |-> stack[i]] \in Seq(Kinds)
      BY <2>2
    <3> QED
      BY <2>1, <3>1, Zenon
  <2>4. Len(SubSeq(stack, 1, p)) = p
    BY <1>2
  <2> QED
    BY <2>3, <2>4, Zenon
<1>4. Wants(stack) =
        IF kept = << >> THEN kept
        ELSE IF Last(kept) = "key" THEN Append(Front(kept), "map")
        ELSE IF Last(kept) = "map" THEN Append(Front(kept), "key") ELSE kept
  BY <1>2, <1>3 DEF Wants
<1>5. CASE kept = << >>
  BY <1>2, <1>3, <1>4, <1>5
<1>6. CASE kept # << >>
  <2>1. PICK front \in Seq(Kinds) : front = Front(kept) /\ Len(front) = p - 1
    <3>1. p >= 1
      BY <1>3, <1>6
    <3>2. Front(kept) = [i \in 1 .. p - 1 |-> kept[i]]
      BY <1>3, <3>1 DEF Front
    <3>3. p - 1 \in Nat /\ \A i \in 1 .. p - 1 : kept[i] \in Kinds
      BY <1>3, <3>1
    <3>4. [i \in 1 .. p - 1 |-> kept[i]] \in Seq(Kinds) /\ Len([i \in 1 .. p - 1 |-> kept[i]]) = p - 1
      BY <3>3
    <3> QED
      BY <3>2, <3>4, Zenon
  <2>2. \A k \in Kinds : Append(front, k) \in Seq(Kinds) /\ Len(Append(front, k)) = p
    BY <1>2, <2>1
  <2>3. {"map", "key"} \subseteq Kinds
    BY DEF Kinds
  <2>4. Wants(stack) \in {kept, Append(front, "map"), Append(front, "key")}
    BY <1>4, <2>1
  <2>5. Wants(stack) \in Seq(Kinds) /\ Len(Wants(stack)) = p
    BY <1>3, <2>2, <2>3, <2>4
  <2> QED
    BY <1>2, <2>5
<1> QED
  BY <1>5, <1>6

\* EDN: every container opens with a character, and closes once.
LEMMA ParsedKeeps ==
  ASSUME DecoderInv, pc \in {"value", "item"}, NEW o \in Nat, o <= len, NEW stack \in Seq(Kinds),
         Len(stack) <= MaxDepth, steps + Len(stack) <= 3 * o, Parsed(o, stack)
  PROVE  DecoderInv'
<1>1. CASE Wants(stack) = << >>
  BY <1>1, ReturnKeeps DEF Parsed
<1>2. CASE Wants(stack) # << >>
  <2>1. /\ pc' = "item" /\ off' = o /\ steps' = steps + 1 /\ len' = len
        /\ nest' = Wants(stack) /\ templates' = templates /\ slice' = slice
    BY <1>2 DEF Parsed, Iterate
  <2>2. SliceInv' /\ TemplatesInv'
    BY <2>1, CacheKept DEF DecoderInv, SliceInv
  <2>3. PICK k \in Nat, l \in Nat, m \in Nat :
          k = Len(Wants(stack)) /\ l = Len(stack) /\ m = MaxDepth /\ k <= l
    BY WantsFacts, DecoderAssumption
  <2>4. nest' \in Seq(Kinds) /\ Len(nest') <= MaxDepth
    <3>1. k <= m
      BY <2>3
    <3> QED
      BY <2>1, <2>3, <3>1, WantsFacts
  <2>5. steps \in Nat /\ len \in Nat
    BY DEF DecoderInv, BudgetInv, PlaceInv
  <2>6. PlaceInv'
    BY <1>2, <2>1, <2>4, <2>5 DEF PlaceInv, InSlice, AtTop
  <2>7. BudgetInv'
    <3>1. steps + 1 + k <= 3 * o + 1
      BY <2>3, <2>5
    <3>2. Len(nest') = k
      BY <2>1, <2>3
    <3>3. steps' + Len(nest') <= 3 * off' + 1 /\ steps' \in Nat
      BY <2>1, <2>5, <3>1, <3>2
    <3> QED
      BY <2>1, <3>3 DEF BudgetInv
  <2> QED
    BY <2>2, <2>6, <2>7 DEF DecoderInv
<1> QED
  BY <1>1, <1>2

LEMMA DensityKeeps ==
  ASSUME DecoderInv, NEW opens, NEW run, Density(opens, run)
  PROVE  DecoderInv'
<1>1. CASE Return
  BY <1>1, ReturnKeeps
<1>2. CASE ~Return
  <2>1. /\ pc = "density" /\ Iterate("value", 0) /\ UNCHANGED <<nest, templates, slice>>
    BY <1>2 DEF Density
  <2>2. nest = << >> /\ len \in Nat /\ steps = 0
    BY <2>1 DEF DecoderInv, PlaceInv, BudgetInv, AtTop
  <2>3. SliceInv' /\ TemplatesInv'
    BY <2>1, CacheKept DEF DecoderInv, SliceInv
  <2>4. nest' \in Seq(Kinds) /\ Len(nest') = 0 /\ 0 <= MaxDepth
    BY <2>1, <2>2, DecoderAssumption
  <2>5. PlaceInv'
    BY <2>1, <2>2, <2>4 DEF PlaceInv, Iterate, InSlice, AtTop
  <2>6. BudgetInv'
    BY <2>1, <2>2, <2>4 DEF BudgetInv, Iterate
  <2> QED
    BY <2>3, <2>5, <2>6 DEF DecoderInv
<1> QED
  BY <1>1, <1>2

\* A delimiter opened or a tag read: one character and one level more.
LEMMA OpenKeeps ==
  ASSUME DecoderInv, pc = "value", off < len, Len(nest) < MaxDepth,
         NEW p \in {"value", "item"}, NEW k \in Kinds, Iterate(p, off + 1),
         nest' = Append(nest, k), templates' = templates, slice' = slice
  PROVE  DecoderInv'
<1>1. off \in Nat /\ len \in Nat /\ steps \in Nat /\ nest \in Seq(Kinds) /\ MaxDepth \in Nat
      /\ steps + Len(nest) <= 3 * off + 2
  BY DecoderAssumption DEF DecoderInv, PlaceInv, BudgetInv
<1>2. pc' = p /\ off' = off + 1 /\ steps' = steps + 1 /\ len' = len
  BY DEF Iterate
<1>3. SliceInv' /\ TemplatesInv'
  BY CacheKept DEF DecoderInv, SliceInv
<1>4. PICK n \in Nat : n = Len(nest)
  BY <1>1
<1>5. nest' \in Seq(Kinds) /\ Len(nest') = n + 1 /\ nest' # << >> /\ n + 1 <= MaxDepth
  BY <1>1, <1>4
<1>6. PlaceInv'
  BY <1>1, <1>2, <1>5 DEF PlaceInv, InSlice, AtTop
<1>7. BudgetInv'
  <2>1. steps' + (n + 1) <= 3 * off' + 1 /\ steps' \in Nat /\ off' \in Nat
    BY <1>1, <1>2, <1>4
  <2>2. steps' + (n + 1) <= 3 * off' + 2
    BY <1>1, <1>2, <1>4
  <2> QED
    BY <1>2, <1>5, <2>1, <2>2 DEF BudgetInv
<1> QED
  BY <1>3, <1>6, <1>7 DEF DecoderInv

LEMMA EdnValueKeeps ==
  ASSUME DecoderInv, NEW form \in {"scalar", "tag", "key", "seq", "delimiter"}, NEW n \in 1 .. 2,
         EdnValue(form, n)
  PROVE  DecoderInv'
<1>0. pc = "value"
  BY DEF EdnValue
<1>1. off \in Nat /\ len \in Nat /\ steps \in Nat /\ nest \in Seq(Kinds) /\ MaxDepth \in Nat
      /\ Len(nest) \in Nat /\ steps + Len(nest) <= 3 * off + 2
  BY <1>0, DecoderAssumption DEF DecoderInv, PlaceInv, BudgetInv
<1>2. CASE Return
  BY <1>2, ReturnKeeps
<1>3. CASE ~Return
  <2>1. ~(Len(nest) >= MaxDepth \/ off >= len \/ form = "delimiter")
    BY <1>3 DEF EdnValue
  <2>2. Len(nest) < MaxDepth /\ off < len
    BY <1>1, <2>1
  <2>3. CASE form = "scalar"
    <3>1. off + n <= len /\ Parsed(off + n, nest)
      BY <2>1, <2>3 DEF EdnValue
    <3>2. PICK o \in Nat : o = off + n /\ off + 1 <= o
      BY <1>1
    <3>3. steps + Len(nest) <= 3 * o
      BY <1>1, <3>2
    <3> QED
      BY <1>0, <1>1, <2>2, <3>1, <3>2, <3>3, ParsedKeeps
  <2>4. CASE form = "tag"
    <3>1. Iterate("value", off + 1) /\ nest' = Append(nest, "tag") /\ UNCHANGED <<templates, slice>>
      BY <2>1, <2>4 DEF EdnValue
    <3> QED
      BY <1>0, <2>2, <3>1, OpenKeeps DEF Kinds
  <2>5. CASE form \in {"key", "seq"}
    <3>1. Iterate("item", off + 1) /\ nest' = Append(nest, form) /\ UNCHANGED <<templates, slice>>
      BY <2>1, <2>5 DEF EdnValue
    <3> QED
      BY <1>0, <2>2, <2>5, <3>1, OpenKeeps DEF Kinds
  <2> QED
    BY <2>1, <2>3, <2>4, <2>5
<1> QED
  BY <1>2, <1>3

LEMMA EdnItemKeeps ==
  ASSUME DecoderInv, NEW closes \in BOOLEAN, EdnItem(closes)
  PROVE  DecoderInv'
<1>0. pc = "item"
  BY DEF EdnItem
<1>1. off \in Nat /\ len \in Nat /\ off <= len /\ steps \in Nat /\ nest \in Seq(Kinds) /\ nest # << >>
      /\ MaxDepth \in Nat /\ Len(nest) <= MaxDepth /\ steps + Len(nest) <= 3 * off + 1
  BY <1>0, DecoderAssumption DEF DecoderInv, PlaceInv, BudgetInv
<1>2. CASE Return
  BY <1>2, ReturnKeeps
<1>3. CASE ~Return /\ Last(nest) # "map" /\ (closes \/ off >= len)
  <2>1. PICK o \in Nat : o = (IF off >= len THEN off ELSE off + 1) /\ off <= o /\ o <= len
    BY <1>1
  <2>2. Parsed(o, Front(nest))
    BY <1>3, <2>1 DEF EdnItem
  <2>3. PICK k \in Nat : k = Len(nest) /\ k >= 1
    BY <1>1
  <2>4. Front(nest) \in Seq(Kinds) /\ Len(Front(nest)) = k - 1
    BY <1>1, <2>3 DEF Front
  <2>5. Len(Front(nest)) <= MaxDepth
    BY <1>1, <2>3, <2>4
  <2>6. steps + Len(Front(nest)) <= 3 * o
    BY <1>1, <2>1, <2>3, <2>4
  <2> QED
    BY <1>0, <2>1, <2>2, <2>4, <2>5, <2>6, ParsedKeeps
<1>4. CASE ~Return /\ ~(Last(nest) # "map" /\ (closes \/ off >= len))
  <2>1. Iterate("value", off) /\ UNCHANGED <<nest, templates, slice>>
    BY <1>4 DEF EdnItem
  <2>2. SliceInv' /\ TemplatesInv'
    BY <2>1, CacheKept DEF DecoderInv, SliceInv
  <2>3. pc' = "value" /\ off' = off /\ steps' = steps + 1 /\ len' = len /\ nest' = nest
    BY <2>1 DEF Iterate
  <2>4. PlaceInv'
    BY <1>1, <2>3 DEF PlaceInv, InSlice, AtTop
  <2>5. BudgetInv'
    BY <1>1, <2>3 DEF BudgetInv
  <2> QED
    BY <2>2, <2>4, <2>5 DEF DecoderInv
<1> QED
  BY <1>2, <1>3, <1>4

LEMMA InitDecodes == DecoderInit => DecoderInv
<1> SUFFICES ASSUME DecoderInit PROVE DecoderInv
  OBVIOUS
<1>1. SliceInv
  BY DEF DecoderInit, NoSlice, SliceInv
<1>2. TemplatesInv
  <2>1. Known = {}
    BY DEF DecoderInit, Known
  <2>2. Cardinality(Known) = 0
    BY <2>1, FS_EmptySet
  <2>3. templates \in [Ids -> Seq(Int)]
    <3>1. Unknown \in Seq(Int)
      BY DEF Unknown
    <3> QED
      BY <3>1 DEF DecoderInit
  <2>4. 0 <= MaxTemplates
    BY DecoderAssumption
  <2> QED
    BY <2>1, <2>2, <2>3, <2>4 DEF TemplatesInv
<1>3. PlaceInv
  BY DEF DecoderInit, PlaceInv, InSlice, AtTop
<1>4. BudgetInv
  BY DEF DecoderInit, BudgetInv
<1> QED
  BY <1>1, <1>2, <1>3, <1>4 DEF DecoderInv

\* The lengths, counts and templates the data may hold.
LEMMA DataFacts ==
  /\ \A f \in Formats : Lengths(f) \subseteq Nat
  /\ TemplateFields \subseteq Seq(Nat)
  /\ 0 .. MaxSets + 1 \subseteq Nat
<1>1. MaxBody \in Nat /\ MaxSets \in Nat /\ MaxFields \in Nat
  BY DecoderAssumption
<1>2. \A f \in Formats : Lengths(f) \subseteq Nat
  <2> SUFFICES ASSUME NEW f \in Formats PROVE Lengths(f) \subseteq Nat
    OBVIOUS
  <2>1. HeaderLen(f) \in Nat
    BY DEF HeaderLen
  <2>2. HeaderLen(f) .. HeaderLen(f) + MaxBody \subseteq Nat
    BY <1>1, <2>1
  <2>3. {HeaderLen(f) + n : n \in {0, 3, 7, 12, MaxSets}} \subseteq Nat
    BY <1>1, <2>1
  <2> HIDE DEF HeaderLen
  <2> QED
    BY <2>2, <2>3 DEF Lengths
<1>3. TemplateFields \subseteq Seq(Nat)
  <2> SUFFICES ASSUME NEW n \in 0 .. MaxFields + 1, NEW s \in [1 .. n -> FieldLengths]
               PROVE  s \in Seq(Nat)
    BY DEF TemplateFields
  <2>1. n \in Nat /\ FieldLengths \subseteq Nat
    BY <1>1 DEF FieldLengths
  <2>2. s \in [1 .. n -> Nat]
    BY <2>1
  <2> QED
    BY <2>1, <2>2
<1> QED
  BY <1>1, <1>2, <1>3

LEMMA DecoderStep == DecoderInv /\ [DecoderNext]_decoderVars => DecoderInv'
<1> SUFFICES ASSUME DecoderInv, [DecoderNext]_decoderVars PROVE DecoderInv'
  OBVIOUS
<1>1. CASE \E f \in Formats : \E n \in Lengths(f) : StartDecode(f, n)
  BY <1>1, DataFacts, StartKeeps
<1>2. CASE V5Record
  BY <1>2, V5Keeps
<1>3. CASE \E id \in {0, 1, 2} \union Ids, n \in 0 .. MaxSets + 1 : FlowSet(id, n)
  BY <1>3, DataFacts, SetKeeps
<1>4. CASE \E id \in Ids, lengths \in TemplateFields : Template(id, lengths)
  BY <1>4, DataFacts, TemplateKeeps
<1>5. CASE DataField
  BY <1>5, DataKeeps
<1>6. CASE pc = "part" /\ \E type \in {"text", "time", "values", "other"}, n \in 0 .. 17, c \in 0 .. 2 :
             CollectdPart(type, n, c)
  <2>1. 0 .. 17 \subseteq Nat /\ 0 .. 2 \subseteq Nat
    OBVIOUS
  <2> QED
    BY <1>6, <2>1, PartKeeps
<1>7. CASE CollectdValue
  BY <1>7, ValueKeeps
<1>8. CASE (\E v \in Signed : AvroMeta(v) \/ AvroEntry(v) \/ AvroBlock(v)) \/ AvroDone
  <2>1. 0 \in Signed
    BY DEF Signed
  <2> QED
    BY <1>8, <2>1, AvroKeeps
<1>9. CASE \E wire \in {"varint", "fixed32", "fixed64", "text", "message", "other"}, v \in Signed :
             ProtobufField(wire, v)
  BY <1>9, ProtobufKeeps
<1>10. CASE \E opens, run \in 0 .. MaxOpens : Density(opens, run)
  BY <1>10, DensityKeeps
<1>11. CASE \E form \in {"scalar", "tag", "key", "seq", "delimiter"}, n \in 1 .. 2 : EdnValue(form, n)
  BY <1>11, EdnValueKeeps
<1>12. CASE \E closes \in BOOLEAN : EdnItem(closes)
  BY <1>12, EdnItemKeeps
<1>13. CASE \E skip \in 0 .. 1, n \in 0 .. 2 : NmapHost(skip, n) \/ NmapPort(skip, n)
  <2>1. 0 .. 1 \subseteq Nat /\ 0 .. 2 \subseteq Nat
    OBVIOUS
  <2> QED
    BY <1>13, <2>1, HostKeeps, PortKeeps
<1>14. CASE \E c \in {"bar", "escape", "other"} : CefChar(c)
  BY <1>14, CefKeeps
<1>15. CASE (\E delete \in BOOLEAN : BulkAction(delete)) \/ BulkSource
  BY <1>15, BulkKeeps
<1>16. CASE UNCHANGED decoderVars
  BY <1>16 DEF decoderVars, DecoderInv, SliceInv, TemplatesInv, Known, PlaceInv, Nested, BudgetInv, Limit
<1> QED
  BY <1>1, <1>2, <1>3, <1>4, <1>5, <1>6, <1>7, <1>8, <1>9, <1>10, <1>11, <1>12, <1>13, <1>14,
     <1>15, <1>16 DEF DecoderNext

LEMMA DecoderInvariant == DecoderSpec => []DecoderInv
  BY InitDecodes, DecoderStep, PTL DEF DecoderSpec

\* Whatever lengths, counts and types the data holds, a decoder slices inside
\* what it was given, nests to MAX_DEPTH at most, and the template cache keeps
\* to its two limits.
THEOREM CursorSoundHolds == DecoderSpec => []CursorSound
<1>1. DecoderInv => CursorSound
  <2> SUFFICES ASSUME DecoderInv PROVE CursorSound
    OBVIOUS
  <2>1. 0 <= slice.from /\ slice.from <= slice.to /\ slice.to <= slice.bound
    BY DEF DecoderInv, SliceInv
  <2>2. 0 <= off /\ off <= len
    BY DEF DecoderInv, PlaceInv
  <2>3. Len(nest) <= MaxDepth
    <3>1. MaxDepth \in Nat /\ MaxDepth >= 1
      BY DecoderAssumption
    <3>2. CASE pc \in AtTop
      <4>1. Len(nest) = 0
        BY <3>2 DEF DecoderInv, PlaceInv
      <4> QED
        BY <3>1, <4>1
    <3>3. CASE pc \in InSlice
      <4>1. Len(nest) = 1
        BY <3>3 DEF DecoderInv, PlaceInv
      <4> QED
        BY <3>1, <4>1
    <3>4. CASE pc \in {"field", "value", "item"}
      BY <3>4 DEF DecoderInv, PlaceInv, Nested
    <3> QED
      BY <3>2, <3>3, <3>4 DEF DecoderInv, PlaceInv
  <2>4. Cardinality(Known) <= MaxTemplates /\ \A id \in Known : Len(templates[id]) <= MaxFields
    BY DEF DecoderInv, TemplatesInv
  <2> QED
    BY <2>1, <2>2, <2>3, <2>4 DEF CursorSound
<1> QED
  BY <1>1, DecoderInvariant, PTL

\* A decoder ends after a number of iterations linear in the length of the data.
THEOREM LinearTimeHolds == DecoderSpec => []LinearTime
<1>1. DecoderInv => LinearTime
  <2> SUFFICES ASSUME DecoderInv PROVE LinearTime
    OBVIOUS
  <2>1. /\ steps \in Nat /\ off \in Nat /\ len \in Nat /\ off <= len
        /\ pc \in InSlice \union AtTop \union {"field", "value", "item"}
    BY DEF DecoderInv, PlaceInv, BudgetInv
  <2>2. PICK c \in Nat, a \in Nat, b \in Nat, d \in Nat :
          /\ c = Cost /\ a = Cost * off /\ b = Cost * len /\ d = Cost * (len + 1)
          /\ c >= 4 /\ a <= b /\ b + c <= d /\ off <= a
    <3>1. /\ Cost \in Nat /\ Cost >= 4 /\ Cost * off \in Nat /\ Cost * len \in Nat
          /\ Cost * off <= Cost * len /\ off <= Cost * off
      BY <2>1, CostGrows
    <3>2. Cost * (len + 1) \in Nat /\ Cost * len + Cost <= Cost * (len + 1)
      <4>1. 1 \in Nat /\ 1 > 0
        OBVIOUS
      <4> QED
        BY <2>1, <4>1, CostSteps, Zenon
    <3> QED
      BY <3>1, <3>2
  <2>3. 4 * off <= a
    <3>1. PICK e \in Nat : c = 4 + e
      <4>1. c - 4 \in Nat /\ c = 4 + (c - 4)
        BY <2>2
      <4> QED
        BY <4>1
    <3>2. a = (4 + e) * off
      BY <2>2, <3>1
    <3>3. (4 + e) * off = 4 * off + e * off /\ e * off \in Nat
      BY <2>1
    <3> QED
      BY <2>1, <3>2, <3>3
  <2>4. steps <= d
    <3>1. CASE pc \in {"idle", "density"}
      BY <2>1, <2>2, <3>1 DEF DecoderInv, BudgetInv
    <3>2. CASE pc \in {"record", "part", "meta", "entry", "sync", "block", "host", "header"}
      <4>1. steps <= off
        BY <3>2 DEF DecoderInv, BudgetInv
      <4> QED
        BY <2>1, <2>2, <4>1
    <3>3. CASE pc \in {"set", "template"}
      <4>1. steps <= a
        BY <2>1, <2>2, <3>3 DEF DecoderInv, BudgetInv
      <4> QED
        BY <2>1, <2>2, <4>1
    <3>4. CASE pc = "data"
      <4>1. steps + Len(todo) + 1 <= a /\ Len(todo) \in Nat
        BY <2>2, <3>4 DEF DecoderInv, BudgetInv, PlaceInv
      <4> QED
        BY <2>1, <2>2, <4>1
    <3>5. CASE pc = "values"
      <4>1. pc \in InSlice
        BY <3>5 DEF InSlice
      <4>2. Limit \in Nat /\ Limit <= len
        BY <4>1, InSliceFacts
      <4>3. PICK i \in Nat : i = todo[2] /\ (i > 0 => off + 2 + i <= Limit) /\ steps + 3 <= off + i
        BY <3>5 DEF DecoderInv, PlaceInv, BudgetInv
      <4>4. steps <= len
        BY <2>1, <4>2, <4>3
      <4>5. len <= b
        BY <2>1, <2>2, CostGrows
      <4> QED
        BY <2>1, <2>2, <4>4, <4>5
    <3>6. CASE pc \in {"field", "value", "item"}
      <4>1. PICK k \in Nat : k = Len(nest)
        BY <3>6 DEF DecoderInv, PlaceInv, Nested
      <4>2. steps + k <= 2 * off \/ steps + k <= 3 * off + 2 \/ steps + k <= 3 * off + 1
        BY <3>6, <4>1 DEF DecoderInv, BudgetInv
      <4> QED
        BY <2>1, <2>2, <2>3, <4>2
    <3>7. CASE pc \in {"port", "action", "source"}
      <4>1. steps <= off + 1 \/ steps <= 2 * off \/ steps + 1 <= 2 * off
        BY <3>7 DEF DecoderInv, BudgetInv
      <4> QED
        BY <2>1, <2>2, <2>3, <4>1
    <3> QED
      BY <2>1, <3>1, <3>2, <3>3, <3>4, <3>5, <3>6, <3>7 DEF InSlice, AtTop
  <2> QED
    BY <2>2, <2>4 DEF LinearTime, Cost
<1> QED
  BY <1>1, DecoderInvariant, PTL
=============================================================================
