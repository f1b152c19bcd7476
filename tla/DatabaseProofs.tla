--------------------------- MODULE DatabaseProofs ---------------------------
(***************************************************************************)
(* Proofs about the two parts that keep a database at hand: Failover, for  *)
(* any threads, times, thresholds and sizes of the probe executor, and     *)
(* OracleSync, what the Oracle copy shows, for any rows, any number of     *)
(* MySQL states and any number of failures.                                *)
(***************************************************************************)
EXTENDS Failover, OracleSync, SequenceTheorems, FiniteSetTheorems, TLAPS

-----------------------------------------------------------------------------
(* Failover                                                                  *)

\* The executor's threads: those of abandoned probes and those of probes
\* still waited for are never more than there are.
WorkersSuffice == hung + Cardinality(Running) <= ProbeWorkers

\* What the history's bound is.
LEMMA BoundsType ==
  /\ StreakBound \in Nat
  /\ Timeout <= StreakBound
<1>1. (FailThreshold + RecoverThreshold) * Cache \in Nat
  BY FailoverAssumption
<1>2. QED
  BY <1>1, FailoverAssumption DEF StreakBound

\* Saturating addition stays within its bound.
LEMMA AtMostType ==
  ASSUME NEW m \in Nat, NEW n \in 0..m
  PROVE  AtMost(n + 1, m) \in 0..m
  BY DEF AtMost

\* The probes in threads of the executor can be counted.
LEMMA RunningFinite ==
  /\ IsFiniteSet(Running) /\ Cardinality(Running) \in Nat
  /\ IsFiniteSet(Running') /\ Cardinality(Running') \in Nat
<1>1. Running \subseteq Callers /\ Running' \subseteq Callers
  BY DEF Running
<1>2. QED
  BY <1>1, FailoverAssumption, FS_Subset, FS_CardinalityType

\* A recorded result leaves the types right.
LEMMA RecordType ==
  ASSUME FailoverTypeOK, NEW c \in Callers, NEW result \in {"ok", "fail"},
         Record(c, result), RecordSuccess \/ RecordFailure,
         hung' \in 0..ProbeWorkers, backlog' \in 0..MaxBacklog
  PROVE  FailoverTypeOK'
<1>1. caller' \in [Callers -> [phase: {"away", "queued", "running", "stuck"},
                               waited: 0..Timeout]]
  BY FailoverAssumption DEF FailoverTypeOK, Record, Away
<1>2. healthy' \in BOOLEAN
  BY DEF FailoverTypeOK, RecordSuccess, RecordFailure
<1>3. fail' \in 0..FailThreshold /\ ok' \in 0..RecoverThreshold
  <2>1. CASE RecordSuccess
    BY <2>1, FailoverAssumption, AtMostType DEF FailoverTypeOK, RecordSuccess
  <2>2. CASE RecordFailure
    BY <2>2, FailoverAssumption, AtMostType DEF FailoverTypeOK, RecordFailure
  <2>3. QED
    BY <2>1, <2>2
<1>4. streak' \in 0..StreakBound
  <2>1. caller[c].waited \in 0..Timeout
    BY DEF FailoverTypeOK
  <2>2. QED
    BY <2>1, BoundsType, FailoverAssumption DEF FailoverTypeOK, Record
<1>5. /\ server' \in {"up", "down"} /\ exhausted' \in BOOLEAN
      /\ age' \in 0..Cache /\ last' \in {"none", "ok", "fail"}
  BY DEF FailoverTypeOK, Record
<1>6. QED
  BY <1>1, <1>2, <1>3, <1>4, <1>5 DEF FailoverTypeOK

TypeInv == FailoverTypeOK /\ WorkersSuffice

\* A probe leaves the thread it runs in, if it does.
LEMMA RunningShrinks ==
  ASSUME TypeInv, NEW c \in Callers, caller' = [caller EXCEPT ![c] = Away]
  PROVE  /\ hung + Cardinality(Running') <= ProbeWorkers
         /\ c \in Running => hung + 1 + Cardinality(Running') <= ProbeWorkers
<1>1. Running' = Running \ {c}
  BY DEF TypeInv, FailoverTypeOK, Running, Away
<1>2. CASE c \in Running
  <2>1. Cardinality(Running') = Cardinality(Running) - 1
    BY <1>1, <1>2, RunningFinite, FS_RemoveElement
  <2>2. QED
    BY <1>2, <2>1, RunningFinite, FailoverAssumption
    DEF TypeInv, FailoverTypeOK, WorkersSuffice
<1>3. CASE c \notin Running
  <2>1. Running' = Running
    BY <1>1, <1>3
  <2>2. QED
    BY <1>3, <2>1 DEF TypeInv, WorkersSuffice
<1>4. QED
  BY <1>2, <1>3

\* Every step keeps the types and the executor within its threads.
LEMMA TypeInvStep == TypeInv /\ [FailoverNext]_failoverVars => TypeInv'
<1> SUFFICES ASSUME TypeInv, [FailoverNext]_failoverVars PROVE TypeInv'
  OBVIOUS
<1> USE FailoverAssumption
<1>1. ASSUME NEW c \in Callers, BeginProbe(c) PROVE TypeInv'
  <2>1. FailoverTypeOK'
    BY <1>1 DEF TypeInv, FailoverTypeOK, BeginProbe, pools, breaker, history
  <2>2. Running' = Running
    BY <1>1 DEF TypeInv, FailoverTypeOK, BeginProbe, Running, Away
  <2>3. QED
    BY <1>1, <2>1, <2>2 DEF TypeInv, WorkersSuffice, BeginProbe, pools
<1>2. ASSUME NEW c \in Callers, StartProbe(c) PROVE TypeInv'
  <2>1. FailoverTypeOK'
    BY <1>2 DEF TypeInv, FailoverTypeOK, StartProbe, pools, breaker, history
  <2>2. Running' = Running \cup {c} /\ c \notin Running
    BY <1>2 DEF TypeInv, FailoverTypeOK, StartProbe, CanStart, Running
  <2>3. Cardinality(Running') = Cardinality(Running) + 1
    BY <2>2, RunningFinite, FS_AddElement
  <2>4. hung + Cardinality(Running) < ProbeWorkers /\ hung' = hung
    BY <1>2 DEF StartProbe, CanStart, WorkerFree, pools
  <2>5. QED
    BY <2>1, <2>3, <2>4, RunningFinite DEF TypeInv, FailoverTypeOK, WorkersSuffice
<1>3. ASSUME StartAbandoned PROVE TypeInv'
  <2>1. Running' = Running /\ hung + Cardinality(Running) < ProbeWorkers
    BY <1>3 DEF StartAbandoned, WorkerFree, Running
  <2>2. hung' \in 0..ProbeWorkers /\ hung' + Cardinality(Running) <= ProbeWorkers
    BY <1>3, <2>1, RunningFinite DEF TypeInv, FailoverTypeOK, StartAbandoned
  <2>3. FailoverTypeOK'
    BY <1>3, <2>2 DEF TypeInv, FailoverTypeOK, StartAbandoned, breaker, history
  <2>4. QED
    BY <2>1, <2>2, <2>3 DEF TypeInv, WorkersSuffice
<1>4. ASSUME FinishAbandoned PROVE TypeInv'
  <2>1. Running' = Running
    BY <1>4 DEF FinishAbandoned, Running
  <2>2. FailoverTypeOK'
    BY <1>4 DEF TypeInv, FailoverTypeOK, FinishAbandoned, breaker, history
  <2>3. QED
    BY <1>4, <2>1, <2>2, RunningFinite
    DEF TypeInv, FailoverTypeOK, WorkersSuffice, FinishAbandoned
<1>5. ASSUME NEW c \in Callers, ProbeSucceeds(c) \/ ProbeFails(c) PROVE TypeInv'
  <2>1. FailoverTypeOK'
    BY <1>5, RecordType DEF TypeInv, FailoverTypeOK, ProbeSucceeds, ProbeFails
  <2>2. QED
    BY <1>5, <2>1, RunningShrinks
    DEF TypeInv, WorkersSuffice, ProbeSucceeds, ProbeFails, Record
<1>6. ASSUME NEW c \in Callers, ProbeTimesOut(c) PROVE TypeInv'
  <2>1. caller' = [caller EXCEPT ![c] = Away]
    BY <1>6 DEF ProbeTimesOut, Record
  <2>2. hung' + Cardinality(Running') <= ProbeWorkers
    BY <1>6, <2>1, RunningShrinks DEF ProbeTimesOut
  <2>3. hung' \in 0..ProbeWorkers
    BY <1>6, <2>2, RunningFinite DEF ProbeTimesOut, TypeInv, FailoverTypeOK
  <2>4. backlog' \in 0..MaxBacklog
    BY <1>6, AtMostType DEF ProbeTimesOut, TypeInv, FailoverTypeOK
  <2>5. FailoverTypeOK'
    BY <1>6, <2>3, <2>4, RecordType DEF ProbeTimesOut, TypeInv
  <2>6. QED
    BY <2>2, <2>5 DEF TypeInv, WorkersSuffice
<1>7. ASSUME Tick PROVE TypeInv'
  <2>1. Running' = Running /\ hung' = hung
    BY <1>7 DEF Tick, Running, Probing, TypeInv, FailoverTypeOK, pools
  <2>2. caller' \in [Callers -> [phase: {"away", "queued", "running", "stuck"},
                                 waited: 0..Timeout]]
    BY <1>7 DEF Tick, Probing, TypeInv, FailoverTypeOK
  <2>3. age' \in 0..Cache /\ streak' \in 0..StreakBound
    BY <1>7, AtMostType, BoundsType DEF Tick, TypeInv, FailoverTypeOK
  <2>4. FailoverTypeOK'
    BY <1>7, <2>2, <2>3 DEF Tick, TypeInv, FailoverTypeOK, pools, breaker
  <2>5. QED
    BY <2>1, <2>4 DEF TypeInv, WorkersSuffice
<1>8. ASSUME ServerFails PROVE TypeInv'
  <2>1. Running' = Running /\ hung' = hung
    BY <1>8 DEF ServerFails, Running, TypeInv, FailoverTypeOK, pools
  <2>2. FailoverTypeOK'
    BY <1>8 DEF ServerFails, Running, TypeInv, FailoverTypeOK, pools, breaker
  <2>3. QED
    BY <2>1, <2>2 DEF TypeInv, WorkersSuffice
<1>9. CASE ServerReturns \/ PoolFills \/ PoolDrains
  BY <1>9 DEF ServerReturns, PoolFills, PoolDrains, TypeInv, FailoverTypeOK,
     WorkersSuffice, Running, pools, breaker, history
<1>10. CASE UNCHANGED failoverVars
  BY <1>10 DEF failoverVars, TypeInv, FailoverTypeOK, WorkersSuffice, Running, pools, breaker,
     history
<1>11. QED
  BY <1>1, <1>2, <1>3, <1>4, <1>5, <1>6, <1>7, <1>8, <1>9, <1>10
  DEF FailoverNext, ProbeStep

\* The types of the variables; the executor never runs more probes than it
\* has threads.
THEOREM FailoverTypeCorrect == FailoverSpec => [](FailoverTypeOK /\ WorkersSuffice)
<1>1. FailoverInit => TypeInv
  <2> SUFFICES ASSUME FailoverInit PROVE TypeInv
    OBVIOUS
  <2>1. Running = {}
    BY DEF FailoverInit, Running, Away
  <2>2. WorkersSuffice
    BY <2>1, FailoverAssumption, FS_EmptySet DEF FailoverInit, WorkersSuffice
  <2>3. FailoverTypeOK
    <3>1. caller \in [Callers -> [phase: {"away", "queued", "running", "stuck"},
                                  waited: 0..Timeout]]
      BY FailoverAssumption DEF FailoverInit, Away
    <3>2. 0 \in 0..StreakBound
      BY BoundsType
    <3>3. /\ 0 \in 0..FailThreshold /\ 0 \in 0..RecoverThreshold
          /\ Cache \in 0..Cache /\ 0 \in 0..ProbeWorkers /\ 0 \in 0..MaxBacklog
      BY FailoverAssumption
    <3>4. QED
      BY <3>1, <3>2, <3>3 DEF FailoverInit, FailoverTypeOK
  <2>4. QED
    BY <2>2, <2>3 DEF TypeInv
<1>2. QED
  BY <1>1, TypeInvStep, PTL DEF FailoverSpec, TypeInv

-----------------------------------------------------------------------------

\* Whoever waits for a probe has claimed the current period: the wait is as
\* long as the period is old.
ProbeInv ==
    /\ AtMostOneProbe
    /\ \A c \in Probing : caller[c].waited = age

\* Given that, and a timeout shorter than the period, no second probe begins.
LEMMA ProbeInvStep ==
  ASSUME Timeout < Cache, FailoverTypeOK, ProbeInv, [FailoverNext]_failoverVars
  PROVE  ProbeInv'
<1> USE FailoverAssumption
<1>1. \A c \in Probing : age <= Timeout /\ age < Cache
  BY DEF ProbeInv, FailoverTypeOK, Probing
<1>2. ASSUME NEW c \in Callers, BeginProbe(c) PROVE ProbeInv'
  <2>1. Probing = {}
    BY <1>1, <1>2 DEF BeginProbe, FailoverTypeOK
  <2>2. Probing' = {c} /\ caller'[c].waited = 0 /\ age' = 0
    BY <1>2, <2>1 DEF BeginProbe, Probing, FailoverTypeOK
  <2>3. QED
    BY <2>2 DEF ProbeInv, AtMostOneProbe
<1>3. ASSUME NEW c \in Callers, caller' = [caller EXCEPT ![c] = Away], age' = age
      PROVE  ProbeInv'
  <2>1. Probing' \subseteq Probing
        /\ \A b \in Probing' : caller'[b] = caller[b]
    BY <1>3 DEF Probing, Away, FailoverTypeOK
  <2>2. QED
    BY <1>3, <2>1 DEF ProbeInv, AtMostOneProbe
<1>4. ASSUME NEW c \in Callers, StartProbe(c) PROVE ProbeInv'
  <2>1. Probing' = Probing /\ \A b \in Callers : caller'[b].waited = caller[b].waited
    BY <1>4 DEF StartProbe, CanStart, Probing, FailoverTypeOK
  <2>2. QED
    BY <1>4, <2>1 DEF ProbeInv, AtMostOneProbe, StartProbe, Probing
<1>5. CASE ServerFails
  <2>1. Probing' = Probing /\ \A b \in Callers : caller'[b].waited = caller[b].waited
    BY <1>5 DEF ServerFails, Running, Probing, FailoverTypeOK
  <2>2. QED
    BY <1>5, <2>1 DEF ProbeInv, AtMostOneProbe, ServerFails, Probing
<1>6. CASE Tick
  <2>1. Probing' = Probing
        /\ \A b \in Probing : caller'[b].waited = caller[b].waited + 1
    BY <1>6 DEF Tick, Probing, FailoverTypeOK
  <2>2. \A b \in Probing : age' = age + 1
    BY <1>1, <1>6 DEF Tick, AtMost, FailoverTypeOK
  <2>3. QED
    BY <2>1, <2>2 DEF ProbeInv, AtMostOneProbe
<1>7. CASE UNCHANGED <<age, caller>>
  BY <1>7 DEF ProbeInv, AtMostOneProbe, Probing
<1>8. ASSUME NEW c \in Callers,
             ProbeSucceeds(c) \/ ProbeFails(c) \/ ProbeTimesOut(c)
      PROVE  ProbeInv'
  BY <1>3, <1>8 DEF ProbeSucceeds, ProbeFails, ProbeTimesOut, Record
<1>9. CASE \/ StartAbandoned \/ FinishAbandoned \/ ServerReturns
           \/ PoolFills \/ PoolDrains \/ UNCHANGED failoverVars
  BY <1>7, <1>9 DEF StartAbandoned, FinishAbandoned, ServerReturns, PoolFills,
     PoolDrains, failoverVars
<1>10. QED
  BY <1>2, <1>4, <1>5, <1>6, <1>8, <1>9 DEF FailoverNext, ProbeStep

\* A timeout shorter than the cache period is all it takes for callers never
\* to queue up behind a server in trouble, however many there are.
THEOREM OneProbeAtATime == Timeout < Cache => (FailoverSpec => []AtMostOneProbe)
<1> SUFFICES ASSUME Timeout < Cache PROVE FailoverSpec => []AtMostOneProbe
  OBVIOUS
<1>1. FailoverInit => ProbeInv
  BY DEF FailoverInit, ProbeInv, AtMostOneProbe, Probing, Away
<1>2. FailoverTypeOK /\ ProbeInv /\ [FailoverNext]_failoverVars => ProbeInv'
  BY ProbeInvStep
<1>3. FailoverSpec => []FailoverTypeOK
  BY FailoverTypeCorrect, PTL
<1>4. ProbeInv => AtMostOneProbe
  BY DEF ProbeInv
<1>5. QED
  BY <1>1, <1>2, <1>3, <1>4, PTL DEF FailoverSpec

-----------------------------------------------------------------------------

Span(n) == n * Cache

\* Whole cache periods, kept from the provers as products.
LEMMA SpanSteps ==
  /\ Span(0) = 0
  /\ \A n \in Nat : Span(n) \in Nat /\ Span(n + 1) = Span(n) + Cache
BY FailoverAssumption DEF Span

\* The history is long enough to tell the longest run that matters.
LEMMA SpanBound ==
  ASSUME NEW n \in Nat, n <= FailThreshold \/ n <= RecoverThreshold
  PROVE  Span(n) + Timeout <= StreakBound
<1> USE FailoverAssumption
<1>1. PICK m \in Nat : FailThreshold + RecoverThreshold = n + m
  <2>1. FailThreshold + RecoverThreshold - n \in Nat
    OBVIOUS
  <2>2. FailThreshold + RecoverThreshold
          = n + (FailThreshold + RecoverThreshold - n)
    OBVIOUS
  <2>3. QED
    BY <2>1, <2>2
<1>2. (n + m) * Cache = n * Cache + m * Cache /\ m * Cache \in Nat
      /\ n * Cache \in Nat
  OBVIOUS
<1>3. QED
  BY <1>1, <1>2 DEF Span, StreakBound

\* n equal results in a row were sent over n - 1 periods and the age of the
\* current one; if a probe is under way, over n periods and its age.
Spans(n) ==
    n > 0 => /\ streak >= Span(n - 1) + age
             /\ Probing # {} => streak >= Span(n) + age

\* The counters count the current run of equal results, and the run is as
\* long as its count says.
StreakInv ==
    /\ last = "fail" <=> fail > 0
    /\ last = "ok" <=> ok > 0
    /\ healthy => fail < FailThreshold
    /\ ~healthy => ok < RecoverThreshold
    /\ Spans(fail) /\ Spans(ok)

\* A recorded result extends the run or starts one.
LEMMA SpansRecord ==
  ASSUME FailoverTypeOK, ProbeInv, NEW c \in Probing, NEW result, Record(c, result),
         NEW n \in Nat, NEW m \in Nat, m <= n + 1, Spans(n),
         (last = result) <=> (n > 0)
  PROVE  Spans(m)'
<1>1. Probing' = {} /\ age' = age /\ caller[c].waited = age /\ age \in Nat
  BY DEF Record, Probing, Away, ProbeInv, AtMostOneProbe, FailoverTypeOK
<1>2. m > 0 => m - 1 \in Nat /\ m - 1 <= n
  OBVIOUS
<1>3. Span(n) \in Nat /\ (m > 0 => Span(m - 1) <= Span(n))
  BY <1>2, FailoverAssumption DEF Span
<1>4. ASSUME m > 0 PROVE streak' >= Span(m - 1) + age
  <2>1. CASE n > 0
    <3>1. streak' = streak /\ streak >= Span(n) + age
      BY <2>1 DEF Record, Spans
    <3>2. QED
      BY <1>1, <1>2, <1>3, <1>4, <3>1, SpanSteps DEF FailoverTypeOK
  <2>2. CASE n = 0
    <3>1. streak' = age /\ m - 1 = 0
      BY <1>1, <1>4, <2>2 DEF Record
    <3>2. QED
      BY <1>1, <3>1, SpanSteps
  <2>3. QED
    BY <2>1, <2>2
<1>5. QED
  BY <1>1, <1>4 DEF Spans, Span

\* A step that neither records, nor asks, nor lets time pass.
LEMMA SpansStays ==
  ASSUME NEW n, Spans(n), Probing' = Probing, UNCHANGED <<streak, age>>
  PROVE  Spans(n)'
  BY DEF Spans, Span

\* Time passes for the run and for the period alike.
LEMMA SpansTick ==
  ASSUME Timeout < Cache, FailoverTypeOK, ProbeInv, Tick, NEW n \in Nat, Spans(n),
         n <= FailThreshold \/ n <= RecoverThreshold
  PROVE  Spans(n)'
<1> USE FailoverAssumption
<1>1. Probing' = Probing
  BY DEF Tick, Probing, FailoverTypeOK
<1>2. age' = AtMost(age + 1, Cache) /\ streak' = AtMost(streak + 1, StreakBound)
  BY DEF Tick
<1>3. SUFFICES ASSUME n > 0
      PROVE  /\ streak' >= Span(n - 1) + age'
             /\ Probing # {} => streak' >= Span(n) + age'
  BY <1>1, <1>3 DEF Spans, Span
<1>4. /\ n - 1 \in Nat /\ Span(n - 1) \in Nat /\ Span(n) = Span(n - 1) + Cache
  BY <1>3, SpanSteps
<1>5. Span(n) + Timeout <= StreakBound
  BY SpanBound
<1>6. age' <= Cache /\ age' <= age + 1 /\ age' \in Nat
  BY <1>2 DEF AtMost, FailoverTypeOK
<1>7. Probing # {} => age' <= Timeout
  BY <1>2 DEF Tick, ProbeInv, Probing, FailoverTypeOK, AtMost
<1>8. streak' = streak + 1 \/ streak' = StreakBound
  BY <1>2 DEF AtMost
<1>9. /\ streak >= Span(n - 1) + age
      /\ Probing # {} => streak >= Span(n) + age
  BY <1>3 DEF Spans
<1>10. streak \in Nat /\ age \in Nat /\ StreakBound \in Nat /\ Span(n) \in Nat
  BY <1>4, BoundsType DEF FailoverTypeOK
<1> HIDE FailoverAssumption
<1>11. Cache \in Nat /\ Timeout \in Nat
  BY FailoverAssumption
<1>12. QED
  BY <1>4, <1>5, <1>6, <1>7, <1>8, <1>9, <1>10, <1>11

\* A probe asked for now comes a whole period after the previous one.
LEMMA SpansBegin ==
  ASSUME FailoverTypeOK, NEW c \in Callers, BeginProbe(c), NEW n \in Nat, Spans(n)
  PROVE  Spans(n)'
<1>1. age = Cache /\ age' = 0 /\ streak' = streak /\ streak \in Nat
  BY FailoverAssumption DEF BeginProbe, FailoverTypeOK, history
<1>2. ASSUME n > 0
      PROVE  streak >= Span(n) /\ Span(n) \in Nat /\ Span(n - 1) \in Nat
             /\ Span(n - 1) <= Span(n)
  <2>1. n - 1 \in Nat /\ Span(n - 1) \in Nat /\ Span(n) = Span(n - 1) + Cache
    BY <1>2, SpanSteps
  <2>2. streak >= Span(n - 1) + Cache
    BY <1>1, <1>2 DEF Spans
  <2>3. QED
    BY <1>1, <2>1, <2>2, FailoverAssumption
<1>3. QED
  BY <1>1, <1>2 DEF Spans, Span

\* Every step keeps the run and the counters together.
LEMMA StreakInvStep ==
  ASSUME Timeout < Cache, FailoverTypeOK, ProbeInv, StreakInv, [FailoverNext]_failoverVars
  PROVE  StreakInv'
<1>1. fail \in Nat /\ ok \in Nat /\ fail <= FailThreshold
      /\ ok <= RecoverThreshold
  BY FailoverAssumption DEF FailoverTypeOK
<1>2. ASSUME Probing' = Probing, UNCHANGED <<breaker, age, last, streak>>
      PROVE  StreakInv'
  <2>1. Spans(fail)' /\ Spans(ok)'
    BY <1>2, SpansStays DEF StreakInv, breaker
  <2>2. QED
    BY <1>2, <2>1 DEF StreakInv, breaker
<1>3. ASSUME NEW c \in Callers, BeginProbe(c) PROVE StreakInv'
  <2>1. UNCHANGED <<fail, ok, healthy, last>>
    BY <1>3 DEF BeginProbe, breaker, history
  <2>2. Spans(fail)' /\ Spans(ok)'
    BY <1>1, <1>3, <2>1, SpansBegin DEF StreakInv, Spans
  <2>3. QED
    BY <2>1, <2>2 DEF StreakInv
<1>4. CASE Tick
  <2>1. UNCHANGED <<fail, ok, healthy, last>>
    BY <1>4 DEF Tick, breaker
  <2>2. Spans(fail)' /\ Spans(ok)'
    BY <1>1, <1>4, <2>1, SpansTick DEF StreakInv, Spans
  <2>3. QED
    BY <2>1, <2>2 DEF StreakInv
<1>5. ASSUME NEW c \in Probing, RecordSuccess, Record(c, "ok") PROVE StreakInv'
  <2>1. last' = "ok" /\ fail' = 0 /\ ok' \in Nat /\ ok' > 0 /\ ok' <= ok + 1
    BY <1>1, <1>5, FailoverAssumption DEF RecordSuccess, Record, AtMost
  <2>2. healthy' => fail' < FailThreshold
    BY <2>1, FailoverAssumption
  <2>3. ~healthy' => ok' < RecoverThreshold
    <3>1. ~healthy' => ~(ok + 1 >= RecoverThreshold)
      BY <1>5, Zenon DEF RecordSuccess
    <3>2. ok' = AtMost(ok + 1, RecoverThreshold)
      BY <1>5 DEF RecordSuccess
    <3>3. ~(ok + 1 >= RecoverThreshold) => ok' < RecoverThreshold
      BY <1>1, <3>2, FailoverAssumption DEF AtMost
    <3>4. QED
      BY <3>1, <3>3
  <2>4. Spans(ok)'
    BY <1>1, <1>5, <2>1, SpansRecord DEF StreakInv, Spans
  <2>5. Spans(fail)'
    BY <2>1 DEF Spans
  <2>6. QED
    BY <2>1, <2>2, <2>3, <2>4, <2>5 DEF StreakInv
<1>6. ASSUME NEW c \in Probing, RecordFailure, Record(c, "fail") PROVE StreakInv'
  <2>1. last' = "fail" /\ ok' = 0 /\ fail' \in Nat /\ fail' > 0 /\ fail' <= fail + 1
    BY <1>1, <1>6, FailoverAssumption DEF RecordFailure, Record, AtMost
  <2>2. ~healthy' => ok' < RecoverThreshold
    BY <2>1, FailoverAssumption
  <2>3. healthy' => fail' < FailThreshold
    <3>1. healthy' => fail + 1 < FailThreshold
      BY <1>6, Zenon DEF RecordFailure
    <3>2. fail' = AtMost(fail + 1, FailThreshold)
      BY <1>6 DEF RecordFailure
    <3>3. fail + 1 < FailThreshold => fail' < FailThreshold
      BY <1>1, <3>2, FailoverAssumption DEF AtMost
    <3>4. QED
      BY <3>1, <3>3
  <2>4. Spans(fail)'
    BY <1>1, <1>6, <2>1, SpansRecord DEF StreakInv, Spans
  <2>5. Spans(ok)'
    BY <2>1 DEF Spans
  <2>6. QED
    BY <2>1, <2>2, <2>3, <2>4, <2>5 DEF StreakInv
<1>7. ASSUME NEW c \in Callers,
             ProbeSucceeds(c) \/ ProbeFails(c) \/ ProbeTimesOut(c)
      PROVE  StreakInv'
  <2>1. c \in Probing
    BY <1>7 DEF ProbeSucceeds, ProbeFails, ProbeTimesOut, Running, Probing
  <2>2. QED
    BY <1>5, <1>6, <1>7, <2>1 DEF ProbeSucceeds, ProbeFails, ProbeTimesOut
<1>8. ASSUME NEW c \in Callers, StartProbe(c) PROVE StreakInv'
  <2>1. Probing' = Probing
    BY <1>8 DEF StartProbe, CanStart, Probing, FailoverTypeOK
  <2>2. QED
    BY <1>2, <1>8, <2>1 DEF StartProbe, history
<1>9. CASE ServerFails
  <2>1. Probing' = Probing
    BY <1>9 DEF ServerFails, Running, Probing, FailoverTypeOK
  <2>2. QED
    BY <1>2, <1>9, <2>1 DEF ServerFails
<1>10. CASE \/ StartAbandoned \/ FinishAbandoned \/ ServerReturns
            \/ PoolFills \/ PoolDrains \/ UNCHANGED failoverVars
  <2>1. Probing' = Probing /\ UNCHANGED <<breaker, age, last, streak>>
    BY <1>10 DEF StartAbandoned, FinishAbandoned, ServerReturns, PoolFills,
       PoolDrains, failoverVars, history, Probing
  <2>2. QED
    BY <1>2, <2>1
<1>11. QED
  BY <1>3, <1>4, <1>7, <1>8, <1>9, <1>10 DEF FailoverNext, ProbeStep

\* The verdict is turned by a step that records a result, with the counter at
\* its threshold; the run behind it is that long.
LEMMA TurnStep ==
  ASSUME FailoverTypeOK, StreakInv, StreakInv', FailoverTypeOK', [FailoverNext]_failoverVars
  PROVE  /\ healthy /\ ~healthy' => /\ last' = "fail"
                                   /\ streak' >= (FailThreshold - 1) * Cache
         /\ ~healthy /\ healthy' => /\ last' = "ok"
                                   /\ streak' >= (RecoverThreshold - 1) * Cache
<1>1. healthy # healthy' => RecordSuccess \/ RecordFailure
  BY DEF FailoverNext, ProbeStep, failoverVars, BeginProbe, StartProbe, StartAbandoned,
     FinishAbandoned, ProbeSucceeds, ProbeFails, ProbeTimesOut, Tick,
     ServerFails, ServerReturns, PoolFills, PoolDrains, breaker
<1>2. ASSUME healthy, ~healthy'
      PROVE  last' = "fail" /\ streak' >= (FailThreshold - 1) * Cache
  <2>1. RecordFailure
    BY <1>1, <1>2 DEF RecordSuccess
  <2>2. fail' = FailThreshold
    <3>1. ~(fail + 1 < FailThreshold)
      BY <1>2, <2>1, Zenon DEF RecordFailure
    <3>2. fail' = AtMost(fail + 1, FailThreshold)
      BY <2>1 DEF RecordFailure
    <3>3. fail < FailThreshold /\ fail \in Nat
      BY <1>2, FailoverAssumption DEF StreakInv, FailoverTypeOK
    <3>4. QED
      BY <3>1, <3>2, <3>3, FailoverAssumption DEF AtMost
  <2>3. last' = "fail" /\ streak' >= Span(FailThreshold - 1) + age'
    BY <2>2, FailoverAssumption DEF StreakInv, Spans, Span
  <2>4. Span(FailThreshold - 1) \in Nat /\ age' \in Nat /\ streak' \in Nat
    BY SpanSteps, BoundsType, FailoverAssumption DEF FailoverTypeOK
  <2>5. streak' >= Span(FailThreshold - 1)
    BY <2>3, <2>4
  <2>6. QED
    BY <2>3, <2>5 DEF Span
<1>3. ASSUME ~healthy, healthy'
      PROVE  last' = "ok" /\ streak' >= (RecoverThreshold - 1) * Cache
  <2>1. RecordSuccess
    BY <1>1, <1>3 DEF RecordFailure
  <2>2. ok' = RecoverThreshold
    <3>1. ok + 1 >= RecoverThreshold
      BY <1>3, <2>1, Zenon DEF RecordSuccess
    <3>2. ok' = AtMost(ok + 1, RecoverThreshold)
      BY <2>1 DEF RecordSuccess
    <3>3. ok < RecoverThreshold /\ ok \in Nat
      BY <1>3, FailoverAssumption DEF StreakInv, FailoverTypeOK
    <3>4. QED
      BY <3>1, <3>2, <3>3, FailoverAssumption DEF AtMost
  <2>3. last' = "ok" /\ streak' >= Span(RecoverThreshold - 1) + age'
    BY <2>2, FailoverAssumption DEF StreakInv, Spans, Span
  <2>4. Span(RecoverThreshold - 1) \in Nat /\ age' \in Nat /\ streak' \in Nat
    BY SpanSteps, BoundsType, FailoverAssumption DEF FailoverTypeOK
  <2>5. streak' >= Span(RecoverThreshold - 1)
    BY <2>3, <2>4
  <2>6. QED
    BY <2>3, <2>5 DEF Span
<1>4. QED
  BY <1>2, <1>3

\* No flapping, for any thresholds: a verdict never turns on results closer
\* together than its threshold allows, and never on a broken run of them.
THEOREM NoFlapping == Timeout < Cache => (FailoverSpec => TurnsOnlyAfterStreak)
<1> SUFFICES ASSUME Timeout < Cache PROVE FailoverSpec => TurnsOnlyAfterStreak
  OBVIOUS
<1>1. FailoverInit => ProbeInv /\ StreakInv
  BY FailoverAssumption
  DEF FailoverInit, ProbeInv, AtMostOneProbe, Probing, Away, StreakInv, Spans
<1>2. FailoverTypeOK /\ ProbeInv /\ StreakInv /\ [FailoverNext]_failoverVars => ProbeInv' /\ StreakInv'
  BY ProbeInvStep, StreakInvStep
<1>3. FailoverSpec => []FailoverTypeOK
  BY FailoverTypeCorrect, PTL
<1>4. FailoverTypeOK /\ FailoverTypeOK' /\ StreakInv /\ StreakInv' /\ [FailoverNext]_failoverVars
      => [/\ healthy /\ ~healthy' => /\ last' = "fail"
                                    /\ streak' >= (FailThreshold - 1) * Cache
          /\ ~healthy /\ healthy' => /\ last' = "ok"
                                    /\ streak' >= (RecoverThreshold - 1) * Cache]_failoverVars
  BY TurnStep
<1>5. QED
  BY <1>1, <1>2, <1>3, <1>4, PTL DEF FailoverSpec, TurnsOnlyAfterStreak

-----------------------------------------------------------------------------
(* OracleSync                                                                *)

\* The empty database is one, and every database consists of tables.
LEMMA EmptyIsDatabase == Empty \in Databases /\ Empty \in Tables
  <1>1. Empty.line \in [Lines -> Names \cup {NoName}] /\ Empty.timetable = {}
    BY DEF Empty
  <1>2. Empty.row \in [Rows -> Lines \cup {NoRow, Blank}]
    BY DEF Empty, NoRows
  <1>3. Empty \in Tables
    BY <1>1, <1>2 DEF Tables, Empty
  <1>4. Present(Empty.line) = {}
    BY DEF Present, Empty
  <1>5. \A r \in Rows : Empty.row[r] \notin Lines
    BY OracleSyncAssumption DEF Empty, NoRows, Lines
  <1>6. Valid(Empty)
    BY <1>1, <1>4, <1>5 DEF Valid
  <1> QED
    BY <1>3, <1>6 DEF Databases

\* The states of the log are databases, the current one among them.
LEMMA LogHasDatabases ==
  ASSUME TypeOK
  PROVE  /\ Len(log) \in Nat /\ Len(log) >= 1
         /\ mysql \in Databases /\ mysql \in Tables
         /\ \A n \in 1..Len(log) : log[n] \in Databases /\ log[n] \in Tables
  <1>1. Len(log) \in Nat /\ Len(log) >= 1
    BY DEF TypeOK
  <1>2. \A n \in 1..Len(log) : log[n] \in Databases
    BY DEF TypeOK
  <1> QED
    BY <1>1, <1>2 DEF mysql, Databases

\* What Write does to the log.
LEMMA WriteAppends ==
  ASSUME TypeOK, Write
  PROVE  /\ log' \in Seq(Databases) /\ log' # <<>>
         /\ Len(log') = Len(log) + 1
         /\ \A n \in 1..Len(log) : log'[n] = log[n]
  <1>1. PICK db \in Databases : log' = Append(log, db)
    BY DEF Write
  <1> QED
    BY <1>1 DEF TypeOK

\* Every step keeps the types.
LEMMA NextKeepsType == TypeOK /\ [Next]_vars => TypeOK'
  <1> SUFFICES ASSUME TypeOK, [Next]_vars PROVE TypeOK'
    OBVIOUS
  <1> DEFINE N == Len(log)
  <1>0. /\ N \in Nat /\ N >= 1
        /\ mysql \in Tables
        /\ \A n \in 1..N : log[n] \in Tables
    BY LogHasDatabases
  <1>j. /\ job = [phase |-> job.phase, all |-> job.all,
                  snap |-> job.snap, tx |-> job.tx]
        /\ job.phase \in {"idle", "checked", "cleared", "upserted", "loaded",
                          "committed"}
        /\ job.all \in BOOLEAN /\ job.snap \in 1..N /\ job.tx \in Tables
    BY DEF TypeOK, Jobs
  <1>i. Idle \in Jobs
    BY <1>0, EmptyIsDatabase DEF Idle, Jobs
  <1>1. CASE Write
    <2>1. 1..N \subseteq 1..Len(log')
      BY <1>0, <1>1, WriteAppends
    <2>2. copied' \in 1..Len(log') /\ copiedTimetable' \in 1..Len(log')
      BY <1>1, <2>1 DEF Write, TypeOK
    <2>3. job' \in Jobs'
      BY <1>1, <1>j, <2>1 DEF Write, Jobs
    <2>4. recorded' \in 0..Len(log')
      BY <1>0, <1>1, WriteAppends DEF Write, TypeOK
    <2> QED
      BY <1>1, <2>2, <2>3, <2>4, WriteAppends DEF Write, TypeOK
  <1>2. ASSUME NEW all \in BOOLEAN, CheckEmptyStrings(all) PROVE TypeOK'
    <2>1. job' = [phase |-> "checked", all |-> all, snap |-> 1, tx |-> Empty]
      BY <1>2 DEF CheckEmptyStrings, Idle
    <2>2. job' \in Jobs
      BY <1>0, <2>1, EmptyIsDatabase DEF Jobs
    <2> QED
      BY <1>2, <2>2 DEF CheckEmptyStrings, TypeOK, Jobs
  <1>3. CASE DeleteAll
    <2> DEFINE tx == [oracle EXCEPT !.row = NoRows,
                                    !.timetable = IF job.all THEN {}
                                                   ELSE oracle.timetable]
    <2>1. tx \in Tables
      BY DEF TypeOK, Tables, NoRows
    <2>2. job' = [phase |-> "cleared", all |-> job.all, snap |-> job.snap,
                  tx |-> tx]
      BY <1>3, <1>j DEF DeleteAll
    <2>3. job' \in Jobs
      <3> HIDE DEF tx
      <3> QED
        BY <1>j, <2>1, <2>2 DEF Jobs
    <2> QED
      BY <1>3, <2>3 DEF DeleteAll, TypeOK, Jobs
  <1>4. CASE Upsert
    <2> DEFINE tx == [job.tx EXCEPT !.line = mysql.line]
    <2>1. tx \in Tables
      BY <1>0, <1>j DEF Tables
    <2>2. job' = [phase |-> "upserted", all |-> job.all, snap |-> N, tx |-> tx]
      BY <1>4, <1>j DEF Upsert
    <2>3. job' \in Jobs
      <3> HIDE DEF tx
      <3> QED
        BY <1>0, <1>j, <2>1, <2>2 DEF Jobs
    <2> QED
      BY <1>4, <2>3 DEF Upsert, TypeOK, Jobs
  <1>5. CASE Reload
    <2> DEFINE source == log[job.snap]
               tx == [job.tx EXCEPT !.row = source.row,
                                    !.timetable = IF job.all
                                                  THEN source.timetable
                                                  ELSE job.tx.timetable]
    <2>1. tx \in Tables
      BY <1>0, <1>j DEF Tables
    <2>2. job' = [phase |-> "loaded", all |-> job.all, snap |-> job.snap,
                  tx |-> tx]
      BY <1>5, <1>j DEF Reload
    <2>3. job' \in Jobs
      <3> HIDE DEF tx
      <3> QED
        BY <1>j, <2>1, <2>2 DEF Jobs
    <2> QED
      BY <1>5, <2>3 DEF Reload, TypeOK, Jobs
  <1>6. CASE Commit
    <2>1. job' = [phase |-> "committed", all |-> job.all, snap |-> job.snap,
                  tx |-> job.tx]
      BY <1>6, <1>j DEF Commit, Advance
    <2>2. job' \in Jobs
      BY <1>j, <2>1 DEF Jobs
    <2> QED
      BY <1>6, <1>j, <2>2 DEF Commit, TypeOK, Jobs
  <1>7. CASE WriteSyncState
    <2>1. recorded' \in 0..N
      BY <1>0, <1>7, <1>j DEF WriteSyncState
    <2> QED
      BY <1>7, <1>i, <2>1 DEF WriteSyncState, TypeOK, Jobs
  <1>8. CASE StatementFails
    BY <1>8, <1>i DEF StatementFails, TypeOK, Jobs
  <1>9. CASE Fault
    <2>1. recorded' \in 0..N
      BY <1>0, <1>9 DEF Fault, TypeOK
    <2>2. faults' \in 0..MaxFaults
      BY <1>9, OracleSyncAssumption DEF Fault, TypeOK
    <2> QED
      BY <1>9, <1>i, <2>1, <2>2 DEF Fault, TypeOK, Jobs
  <1>10. CASE UNCHANGED vars
    BY <1>10 DEF vars, TypeOK, Jobs
  <1> QED
    BY <1>1, <1>2, <1>3, <1>4, <1>5, <1>6, <1>7, <1>8, <1>9, <1>10
       DEF Next, Scheduled

\* Type correctness: every state of MySQL satisfies its keys, and the job
\* works on a state that exists.
THEOREM SyncTypeCorrect == Spec => []TypeOK
  <1>1. Init => TypeOK
    <2> SUFFICES ASSUME Init PROVE TypeOK
      OBVIOUS
    <2>1. log \in Seq(Databases) /\ log # <<>> /\ Len(log) = 1
      BY EmptyIsDatabase DEF Init
    <2>2. job \in Jobs
      BY <2>1, EmptyIsDatabase DEF Init, Idle, Jobs
    <2>3. copied \in 1..Len(log) /\ copiedTimetable \in 1..Len(log)
          /\ recorded \in 0..Len(log) /\ faults \in 0..MaxFaults
      BY <2>1, OracleSyncAssumption DEF Init
    <2> QED
      BY <2>1, <2>2, <2>3, EmptyIsDatabase DEF Init, TypeOK
  <1> QED
    BY <1>1, NextKeepsType, PTL DEF Spec

-----------------------------------------------------------------------------
(* What the copy shows. *)

\* The transaction holds the tables of one state as far as it got, and its
\* timetables keep their lines throughout.
TransactionInv ==
    /\ job.phase = "cleared" => job.tx.line = oracle.line
    /\ job.phase \in {"upserted", "loaded"} =>
          job.tx.line = log[job.snap].line
    /\ job.phase = "loaded" => job.tx.row = log[job.snap].row
    /\ job.phase \in {"cleared", "upserted"} =>
          job.tx.timetable = IF job.all THEN {} ELSE oracle.timetable
    /\ job.phase = "loaded" =>
          job.tx.timetable = IF job.all THEN log[job.snap].timetable
                                        ELSE oracle.timetable
    /\ job.phase \in {"cleared", "upserted", "loaded"} =>
          job.tx.timetable \subseteq Present(job.tx.line)

CopyInv ==
    /\ View(oracle) = View(log[copied])
    /\ TimetablesHaveLines
    /\ TransactionInv
    /\ job.phase \in {"upserted", "loaded", "committed"} => copied <= job.snap
    /\ job.phase = "committed" => copied = job.snap
    /\ NothingRecordedAhead

\* The empty databases agree at the start.
LEMMA CopyInvInit == Init => CopyInv
  <1> SUFFICES ASSUME Init PROVE CopyInv
    OBVIOUS
  <1>1. log[copied] = Empty /\ log[copiedTimetable] = Empty
    BY DEF Init
  <1>2. job.phase = "idle" /\ oracle = Empty
    BY DEF Init, Idle
  <1>3. TimetablesHaveLines
    BY <1>1, <1>2 DEF TimetablesHaveLines, Empty
  <1> QED
    BY <1>1, <1>2, <1>3 DEF Init, CopyInv, TransactionInv, NothingRecordedAhead

\* A step of the job, a failure or a change of MySQL keeps what Oracle shows
\* a state of MySQL.
LEMMA NextKeepsCopyInv == TypeOK /\ CopyInv /\ [Next]_vars => CopyInv'
  <1> SUFFICES ASSUME TypeOK, CopyInv, [Next]_vars PROVE CopyInv'
    OBVIOUS
  <1>0. /\ Len(log) \in Nat
        /\ mysql = log[Len(log)]
        /\ \A n \in 1..Len(log) : log[n] \in Databases /\ log[n] \in Tables
    BY LogHasDatabases DEF mysql
  <1>1. /\ job = [phase |-> job.phase, all |-> job.all,
                  snap |-> job.snap, tx |-> job.tx]
        /\ job.all \in BOOLEAN /\ job.snap \in 1..Len(log)
        /\ job.tx \in Tables /\ oracle \in Tables
        /\ copied \in 1..Len(log) /\ copiedTimetable \in 1..Len(log)
        /\ recorded \in 0..Len(log)
    BY DEF TypeOK, Jobs
  <1>2. ASSUME UNCHANGED <<oracle, copied, copiedTimetable>>,
               \A n \in 1..Len(log) : log'[n] = log[n]
        PROVE  (View(oracle) = View(log[copied]) /\ TimetablesHaveLines)'
    BY <1>1, <1>2 DEF CopyInv, TimetablesHaveLines, View, Present
  <1>3. CASE Write
    <2>1. \A n \in 1..Len(log) : log'[n] = log[n]
      BY <1>3, WriteAppends
    <2>2. log'[job.snap] = log[job.snap] /\ job' = job /\ oracle' = oracle
      BY <1>1, <1>3, <2>1 DEF Write
    <2>3. TransactionInv'
      BY <2>2 DEF CopyInv, TransactionInv, Present
    <2>4. (View(oracle) = View(log[copied]) /\ TimetablesHaveLines)'
      BY <1>2, <1>3, <2>1 DEF Write
    <2> QED
      BY <1>3, <2>3, <2>4 DEF Write, CopyInv, NothingRecordedAhead
  <1>4. ASSUME NEW all \in BOOLEAN, CheckEmptyStrings(all) PROVE CopyInv'
    <2>1. job'.phase = "checked"
      BY <1>4 DEF CheckEmptyStrings, Idle
    <2>2. TransactionInv'
      BY <2>1 DEF TransactionInv
    <2> QED
      BY <1>2, <1>4, <2>1, <2>2
         DEF CheckEmptyStrings, CopyInv, NothingRecordedAhead
  <1>5. CASE DeleteAll
    <2>1. /\ job'.phase = "cleared" /\ job'.all = job.all
          /\ job'.tx.line = oracle.line
          /\ job'.tx.timetable = IF job.all THEN {} ELSE oracle.timetable
      BY <1>1, <1>5 DEF DeleteAll, Tables
    <2>2. job'.tx.timetable \subseteq Present(oracle.line)
      BY <2>1 DEF CopyInv, TimetablesHaveLines
    <2>3. TransactionInv'
      BY <1>5, <2>1, <2>2 DEF DeleteAll, TransactionInv, Present
    <2> QED
      BY <1>2, <1>5, <2>1, <2>3 DEF DeleteAll, CopyInv, NothingRecordedAhead
  <1>6. CASE Upsert
    <2>1. /\ job'.phase = "upserted" /\ job'.all = job.all
          /\ job'.snap = Len(log) /\ job'.tx.line = mysql.line
          /\ job'.tx.timetable = job.tx.timetable
      BY <1>1, <1>6 DEF Upsert, Tables
    <2>2. job.tx.timetable \subseteq Present(job.tx.line)
      BY <1>6 DEF Upsert, CopyInv, TransactionInv
    <2>3. job.tx.timetable \subseteq Present(mysql.line)
      BY <1>6, <2>2 DEF Upsert, Upsertable
    <2>4. TransactionInv'
      BY <1>0, <1>6, <2>1, <2>3
         DEF Upsert, CopyInv, TransactionInv, Present
    <2>5. copied' <= job'.snap
      BY <1>0, <1>1, <1>6, <2>1 DEF Upsert
    <2> QED
      BY <1>2, <1>6, <2>1, <2>4, <2>5 DEF Upsert, CopyInv, NothingRecordedAhead
  <1>7. CASE Reload
    <2> DEFINE source == log[job.snap]
    <2>1. /\ job'.phase = "loaded" /\ job'.all = job.all
          /\ job'.snap = job.snap /\ job'.tx.line = job.tx.line
          /\ job'.tx.row = source.row
          /\ job'.tx.timetable = IF job.all THEN source.timetable
                                            ELSE job.tx.timetable
      BY <1>1, <1>7 DEF Reload, Tables
    <2>2. job.tx.line = source.line
          /\ job.tx.timetable \subseteq Present(source.line)
          /\ (~job.all => job.tx.timetable = oracle.timetable)
      BY <1>7 DEF Reload, CopyInv, TransactionInv
    <2>3. source.timetable \subseteq Present(source.line)
      BY <1>0, <1>1 DEF Databases, Valid
    <2>4. TransactionInv'
      BY <1>1, <1>7, <2>1, <2>2, <2>3 DEF Reload, TransactionInv, Present
    <2>5. copied' <= job'.snap
      BY <1>7, <2>1 DEF Reload, CopyInv
    <2> QED
      BY <1>2, <1>7, <2>1, <2>4, <2>5 DEF Reload, CopyInv, NothingRecordedAhead
  <1>8. CASE Commit
    <2>1. /\ job'.phase = "committed" /\ job'.snap = job.snap
          /\ oracle' = job.tx /\ copied' = job.snap /\ log' = log
      BY <1>1, <1>8 DEF Commit, Advance
    <2>2. View(job.tx) = View(log[job.snap])
      BY <1>8 DEF Commit, CopyInv, TransactionInv, View
    <2>3. job.tx.timetable \subseteq Present(job.tx.line)
      BY <1>8 DEF Commit, CopyInv, TransactionInv
    <2>4. job.tx.timetable = log[copiedTimetable'].timetable
      BY <1>1, <1>8 DEF Commit, CopyInv, TransactionInv, TimetablesHaveLines
    <2>5. TimetablesHaveLines'
      BY <2>1, <2>3, <2>4 DEF TimetablesHaveLines, Present
    <2>6. recorded' <= copied'
      BY <1>1, <1>8, <2>1 DEF Commit, CopyInv, NothingRecordedAhead
    <2>7. copied' <= job'.snap
      BY <1>1, <2>1
    <2> QED
      BY <2>1, <2>2, <2>5, <2>6, <2>7
         DEF CopyInv, TransactionInv, NothingRecordedAhead, View
  <1>9. CASE WriteSyncState
    <2>1. job'.phase = "idle" /\ recorded' = copied
      BY <1>9 DEF WriteSyncState, Idle, CopyInv
    <2> QED
      BY <1>1, <1>2, <1>9, <2>1
         DEF WriteSyncState, CopyInv, TransactionInv, NothingRecordedAhead
  <1>10. CASE StatementFails
    <2>1. job'.phase = "idle"
      BY <1>10 DEF StatementFails, Idle
    <2> QED
      BY <1>2, <1>10, <2>1
         DEF StatementFails, CopyInv, TransactionInv, NothingRecordedAhead
  <1>11. CASE Fault
    <2>1. job'.phase = "idle"
      BY <1>11 DEF Fault, Idle
    <2>2. recorded' <= copied
      BY <1>1, <1>11 DEF Fault, CopyInv, NothingRecordedAhead
    <2> QED
      BY <1>2, <1>11, <2>1, <2>2
         DEF Fault, CopyInv, TransactionInv, NothingRecordedAhead
  <1>12. CASE UNCHANGED vars
    BY <1>12 DEF vars, CopyInv, TimetablesHaveLines, TransactionInv,
                 NothingRecordedAhead, View, Present
  <1> QED
    BY <1>3, <1>4, <1>5, <1>6, <1>7, <1>8, <1>9, <1>10, <1>11, <1>12
       DEF Next, Scheduled

\* The types and the copy invariant hold together.
LEMMA SyncInvariant == Spec => [](TypeOK /\ CopyInv)
  <1>1. CopyInv /\ TypeOK /\ [Next]_vars => CopyInv'
    BY NextKeepsCopyInv
  <1> QED
    BY SyncTypeCorrect, CopyInvInit, <1>1, PTL DEF Spec

\* The state file never names a newer copy than Oracle holds, whatever fails
\* and whenever the process stops (write_sync_state after the commit).
THEOREM NeverRecordsAhead == Spec => []NothingRecordedAhead
  BY SyncInvariant, PTL DEF CopyInv

\* Timetables are those of one state of MySQL, and each has its line, although
\* lines are upserted by runs that leave the timetables alone.
THEOREM TimetablesKeepTheirLines == Spec => []TimetablesHaveLines
  BY SyncInvariant, PTL DEF CopyInv

-----------------------------------------------------------------------------
(* The copy as a replica. *)

ViewLog == [n \in DOMAIN log |-> View(log[n])]

\* A change of MySQL appends to the log of views.
LEMMA ViewsAppend ==
  ASSUME TypeOK, Write
  PROVE  \E s \in {View(db) : db \in Databases} : ViewLog' = Append(ViewLog, s)
  <1>1. PICK db \in Databases : log' = Append(log, db)
    BY DEF Write
  <1> DEFINE N == Len(log)
             Views == {View(d) : d \in Databases}
  <1>2. log \in Seq(Databases) /\ N \in Nat /\ DOMAIN log = 1..N
    BY DEF TypeOK
  <1>3. DOMAIN log' = 1..(N + 1) /\ log'[N + 1] = db
        /\ \A n \in 1..N : log'[n] = log[n]
    BY <1>1, <1>2
  <1>4. ViewLog \in Seq(Views) /\ Len(ViewLog) = N
    <2>1. \A n \in 1..N : log[n] \in Databases
      BY <1>2
    <2>2. ViewLog \in [1..N -> Views]
      BY <1>2, <2>1 DEF ViewLog
    <2> QED
      BY <1>2, <2>2
  <1>5. ViewLog' \in Seq(Views) /\ Len(ViewLog') = N + 1
    <2>1. \A n \in 1..(N + 1) : log'[n] \in Databases
      BY <1>2, <1>3
    <2>2. ViewLog' \in [1..(N + 1) -> Views]
      BY <1>3, <2>1 DEF ViewLog, View
    <2> QED
      BY <1>2, <2>2
  <1>6. View(db) \in Views
    OBVIOUS
  <1>7. \A n \in 1..(N + 1) :
          ViewLog'[n] = IF n = N + 1 THEN View(db) ELSE ViewLog[n]
    BY <1>2, <1>3 DEF ViewLog, View
  <1>8. /\ Append(ViewLog, View(db)) \in Seq(Views)
        /\ Len(Append(ViewLog, View(db))) = N + 1
        /\ \A n \in 1..(N + 1) :
             Append(ViewLog, View(db))[n]
               = IF n = N + 1 THEN View(db) ELSE ViewLog[n]
    <2> HIDE DEF Views
    <2> QED
      BY <1>2, <1>4, <1>6, AppendProperties
  <1>9. ViewLog' = Append(ViewLog, View(db))
    <2> HIDE DEF Views
    <2> QED
      BY <1>5, <1>7, <1>8, SeqEqual
  <1> QED
    BY <1>9

\* What is committed in Oracle is one state of MySQL, whole, and never an older
\* one later: the job implements Replica.
THEOREM ImplementsFallback == Spec => ImplementsReplica
  <1> USE DEF Fallback!replicaVars
  <1>1. Init => Fallback!Init
    <2> SUFFICES ASSUME Init PROVE Fallback!Init
      OBVIOUS
    <2>1. log = <<Empty>>
      BY DEF Init
    <2>2. ViewLog = <<View(Empty)>>
      BY <2>1 DEF ViewLog
    <2> QED
      BY <2>2 DEF Init, Fallback!Init, ViewLog
  <1>2. TypeOK /\ CopyInv /\ [Next]_vars
          => [Fallback!Next]_(Fallback!replicaVars)
    <2> SUFFICES ASSUME TypeOK, CopyInv, [Next]_vars
                 PROVE  [Fallback!Next]_(Fallback!replicaVars)
      OBVIOUS
    <2>1. CASE Write
      <3>1. \E s \in {View(db) : db \in Databases} :
              ViewLog' = Append(ViewLog, s)
        BY <2>1, ViewsAppend
      <3>2. Fallback!Change
        BY <2>1, <3>1 DEF Write, Fallback!Change, ViewLog, View
      <3> QED
        BY <3>2 DEF Fallback!Next
    <2>2. CASE Commit
      <3>1. copied' \in copied..Len(log) /\ copied' \in 1..Len(log)
        BY <2>2 DEF Commit, CopyInv, TypeOK, Jobs
      <3>2. View(oracle') = View(log[copied'])
        BY <2>2 DEF Commit, CopyInv, TransactionInv, View
      <3>3. DOMAIN log = 1..Len(log) /\ Len(log) \in Nat
        BY DEF TypeOK
      <3>4. DOMAIN ViewLog = DOMAIN log
            /\ Len(ViewLog) = Len(log) /\ ViewLog[copied'] = View(oracle')
        BY <3>1, <3>2, <3>3 DEF ViewLog
      <3>5. ViewLog' = ViewLog
        BY <2>2 DEF Commit, ViewLog
      <3>6. Fallback!Refresh
        BY <3>1, <3>4, <3>5 DEF Fallback!Refresh, ViewLog, View
      <3> QED
        BY <3>6 DEF Fallback!Next
    <2>3. ASSUME UNCHANGED <<log, copied, oracle>>
          PROVE  UNCHANGED Fallback!replicaVars
      BY <2>3 DEF View
    <2>4. ASSUME NEW all \in BOOLEAN, CheckEmptyStrings(all)
          PROVE  UNCHANGED <<log, copied, oracle>>
      BY <2>4 DEF CheckEmptyStrings
    <2>5. CASE DeleteAll \/ Upsert \/ Reload
      BY <2>3, <2>5 DEF DeleteAll, Upsert, Reload
    <2>6. CASE WriteSyncState \/ StatementFails \/ Fault
      BY <2>3, <2>6 DEF WriteSyncState, StatementFails, Fault
    <2>7. CASE UNCHANGED vars
      BY <2>3, <2>7 DEF vars
    <2> QED
      BY <2>1, <2>2, <2>3, <2>4, <2>5, <2>6, <2>7 DEF Next, Scheduled
  <1> QED
    BY SyncInvariant, <1>1, <1>2, PTL DEF Spec, ImplementsReplica, Fallback!Spec
=============================================================================
