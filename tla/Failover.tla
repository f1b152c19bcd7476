------------------------------ MODULE Failover ------------------------------
(***************************************************************************)
(* The MySQL health check that routes every request (app/db_failover.py):  *)
(* a verdict cached for Cache seconds, at most one probe per Cache period, *)
(* counters that flip the verdict after FailThreshold or RecoverThreshold  *)
(* results in a row, and the thread pool and the connection pool a probe   *)
(* has to get through.  Time is discrete; a caller that waits for a probe  *)
(* gives up exactly Timeout ticks after it asked.                          *)
(***************************************************************************)
EXTENDS Naturals, FiniteSets

CONSTANTS Callers,            \* threads that serve requests
          Cache,              \* failover_cache_seconds
          Timeout,            \* _PROBE_TIMEOUT_SECONDS
          FailThreshold, RecoverThreshold,
          ProbeWorkers,       \* threads of _probe_executor
          MaxBacklog          \* bound on the abandoned probes still queued

ASSUME FailoverAssumption ==
    /\ IsFiniteSet(Callers)
    /\ Cache \in Nat \ {0} /\ Timeout \in Nat \ {0}
    /\ FailThreshold \in Nat \ {0} /\ RecoverThreshold \in Nat \ {0}
    /\ ProbeWorkers \in Nat \ {0} /\ MaxBacklog \in Nat

VARIABLES server,       \* can the server be reached?
          exhausted,    \* do requests hold every pooled connection?
          healthy, fail, ok,
          age,          \* time since checked_at, up to Cache
          caller,       \* per thread: not probing, or its probe and its wait
          hung,         \* executor threads held by probes nobody waits for
          backlog,      \* such probes that have not started
          last, streak   \* history, see below

breaker == <<healthy, fail, ok>>
pools == <<exhausted, hung, backlog>>
history == <<last, streak>>
failoverVars == <<server, pools, breaker, age, caller, history>>

AtMost(n, m) == IF n <= m THEN n ELSE m

\* History: the last result, the time since the first probe of the current
\* run of equal results was sent (it saturates), and whether MySQL was down at
\* any time since a probe last succeeded.
StreakBound == (FailThreshold + RecoverThreshold) * Cache + Timeout

Away == [phase |-> "away", waited |-> 0]
Probing == {c \in Callers : caller[c].phase # "away"}
Running == {c \in Callers : caller[c].phase \in {"running", "stuck"}}

FailoverTypeOK ==
    /\ server \in {"up", "down"}
    /\ exhausted \in BOOLEAN
    /\ healthy \in BOOLEAN
    /\ fail \in 0..FailThreshold /\ ok \in 0..RecoverThreshold
    /\ age \in 0..Cache
    /\ caller \in [Callers -> [phase: {"away", "queued", "running", "stuck"},
                               waited: 0..Timeout]]
    /\ hung \in 0..ProbeWorkers /\ backlog \in 0..MaxBacklog
    /\ last \in {"none", "ok", "fail"}
    /\ streak \in 0..StreakBound

FailoverInit ==
    /\ server = "up" /\ exhausted = FALSE
    /\ healthy = TRUE /\ fail = 0 /\ ok = 0
    /\ age = Cache                            \* checked_at is -inf
    /\ caller = [c \in Callers |-> Away]
    /\ hung = 0 /\ backlog = 0
    /\ last = "none" /\ streak = 0

-----------------------------------------------------------------------------
(* primary_healthy.  A call within the cache period returns the verdict and
   changes nothing.  The first one after it claims the period and submits a
   probe; the lock makes the test and the claim one step. *)

\* Mutant of BeginProbe: the period is not claimed.
BeginProbeUnclaimed(c) ==
    /\ caller[c] = Away
    /\ age >= Cache
    /\ caller' = [caller EXCEPT ![c] = [phase |-> "queued", waited |-> 0]]
    /\ UNCHANGED <<server, pools, breaker, age, history>>

BeginProbe(c) ==
    /\ caller[c] = Away
    /\ age >= Cache
    /\ age' = 0
    /\ caller' = [caller EXCEPT ![c] = [phase |-> "queued", waited |-> 0]]
    /\ UNCHANGED <<server, pools, breaker, history>>

\* Mutant of WorkerFree: one thread too many.
WorkerFreeOneMore == hung + Cardinality(Running) <= ProbeWorkers

WorkerFree == hung + Cardinality(Running) < ProbeWorkers

\* The executor is first-come, first-served: older probes go first, also
\* those whose caller has given up.
CanStart(c) == caller[c].phase = "queued" /\ backlog = 0 /\ WorkerFree

\* A probe that meets a dead server is stuck: its connection is refused,
\* breaks or hangs, also when the server returns meanwhile.
StartProbe(c) ==
    /\ CanStart(c)
    /\ caller' = [caller EXCEPT ![c].phase =
                     IF server = "up" THEN "running" ELSE "stuck"]
    /\ UNCHANGED <<server, pools, breaker, age, history>>

\* SELECT 1 needs a connection of the pool the requests use.  A probe that
\* gets one from a live server is answered in less than a tick.
Answering == server = "up" /\ ~exhausted

StartAbandoned ==
    /\ backlog > 0 /\ WorkerFree
    /\ backlog' = backlog - 1
    /\ hung' = IF Answering THEN hung ELSE hung + 1
    /\ UNCHANGED <<server, exhausted, breaker, age, caller, history>>

FinishAbandoned ==
    /\ hung > 0
    /\ hung' = hung - 1
    /\ UNCHANGED <<server, exhausted, backlog, breaker, age, caller, history>>

Record(c, result) ==
    /\ caller' = [caller EXCEPT ![c] = Away]
    /\ last' = result
    /\ streak' = IF last = result THEN streak ELSE caller[c].waited
    /\ UNCHANGED <<server, exhausted, age>>

\* Mutant of RecordSuccess: earlier failures still count.
RecordSuccessKeepsFailures ==
    /\ ok' = AtMost(ok + 1, RecoverThreshold)
    /\ fail' = fail
    /\ healthy' = (healthy \/ ok + 1 >= RecoverThreshold)

RecordSuccess ==
    /\ ok' = AtMost(ok + 1, RecoverThreshold)
    /\ fail' = 0
    /\ healthy' = (healthy \/ ok + 1 >= RecoverThreshold)

RecordFailure ==
    /\ fail' = AtMost(fail + 1, FailThreshold)
    /\ ok' = 0
    /\ healthy' = (healthy /\ fail + 1 < FailThreshold)

ProbeSucceeds(c) ==
    /\ c \in Running /\ Answering
    /\ RecordSuccess
    /\ Record(c, "ok")
    /\ UNCHANGED <<hung, backlog>>

ProbeFails(c) ==
    /\ caller[c].phase = "stuck"
    /\ RecordFailure
    /\ Record(c, "fail")
    /\ UNCHANGED <<hung, backlog>>

\* Mutant of ProbeTimesOut: a timeout is not a failure.
ProbeTimesOutUncounted(c) ==
    /\ c \in Probing /\ caller[c].waited = Timeout
    /\ ~CanStart(c) /\ ~(caller[c].phase = "running" /\ Answering)
    /\ IF c \in Running
       THEN hung' = hung + 1 /\ UNCHANGED backlog
       ELSE backlog' = AtMost(backlog + 1, MaxBacklog) /\ UNCHANGED hung
    /\ caller' = [caller EXCEPT ![c] = Away]
    /\ UNCHANGED <<server, exhausted, breaker, age, history>>

\* result(timeout=...) raises and the probe stays behind in the executor.
ProbeTimesOut(c) ==
    /\ c \in Probing /\ caller[c].waited = Timeout
    /\ ~CanStart(c) /\ ~(caller[c].phase = "running" /\ Answering)
    /\ IF c \in Running
       THEN hung' = hung + 1 /\ UNCHANGED backlog
       ELSE backlog' = AtMost(backlog + 1, MaxBacklog) /\ UNCHANGED hung
    /\ RecordFailure
    /\ Record(c, "fail")

-----------------------------------------------------------------------------
(* The environment. *)

\* A free thread of the executor takes the next probe in less than a tick.
Tick ==
    /\ \A c \in Probing : caller[c].waited < Timeout /\ ~CanStart(c)
    /\ backlog = 0 \/ ~WorkerFree
    /\ age' = AtMost(age + 1, Cache)
    /\ caller' = [c \in Callers |->
                    IF c \in Probing
                    THEN [caller[c] EXCEPT !.waited = @ + 1] ELSE caller[c]]
    /\ streak' = AtMost(streak + 1, StreakBound)
    /\ UNCHANGED <<server, pools, breaker, last>>

ServerFails ==
    /\ server = "up" /\ server' = "down"
    /\ caller' = [c \in Callers |-> IF c \in Running
                                   THEN [caller[c] EXCEPT !.phase = "stuck"]
                                   ELSE caller[c]]
    /\ UNCHANGED <<pools, breaker, age, last, streak>>

ServerReturns ==
    /\ server = "down" /\ server' = "up"
    /\ UNCHANGED <<pools, breaker, age, caller, history>>

\* Mutant of PoolFills: sessions are handed out whatever the verdict.
PoolFillsUngated ==
    /\ ~exhausted /\ exhausted' = TRUE
    /\ UNCHANGED <<server, hung, backlog, breaker, age, caller, history>>

\* get_db and get_read_db hand out MySQL sessions only while healthy.
PoolFills ==
    /\ healthy /\ ~exhausted /\ exhausted' = TRUE
    /\ UNCHANGED <<server, hung, backlog, breaker, age, caller, history>>

PoolDrains ==
    /\ exhausted /\ exhausted' = FALSE
    /\ UNCHANGED <<server, hung, backlog, breaker, age, caller, history>>

ProbeStep(c) ==
    \/ BeginProbe(c) \/ StartProbe(c)
    \/ ProbeSucceeds(c) \/ ProbeFails(c) \/ ProbeTimesOut(c)

FailoverNext ==
    \/ \E c \in Callers : ProbeStep(c)
    \/ StartAbandoned \/ FinishAbandoned
    \/ Tick \/ ServerFails \/ ServerReturns \/ PoolFills \/ PoolDrains

FailoverSpec == FailoverInit /\ [][FailoverNext]_failoverVars

\* Requests keep coming, threads run, time passes, requests end, and the
\* operating system breaks a hung connection in the end.  MySQL owes nothing.
FailoverFairSpec ==
    /\ FailoverSpec
    /\ WF_failoverVars(Tick) /\ WF_failoverVars(PoolDrains)
    /\ WF_failoverVars(StartAbandoned) /\ WF_failoverVars(FinishAbandoned)
    /\ WF_failoverVars(\E c \in Callers : ProbeStep(c))

-----------------------------------------------------------------------------
(* Properties. *)

\* The claim on the cache period keeps probes from piling up on a server in
\* trouble: no two callers wait for one (the docstring of primary_healthy,
\* and test_primary_healthy_probes_once_under_concurrent_calls).
AtMostOneProbe == \A b, c \in Probing : b = c

\* No flapping (docs/DB-FAILOVER.md:195): the verdict turns only after an
\* unbroken run of results that spans every cache period but one of its
\* threshold.
TurnsOnlyAfterStreak ==
    [][/\ healthy /\ ~healthy' => /\ last' = "fail"
                                  /\ streak' >= (FailThreshold - 1) * Cache
       /\ ~healthy /\ healthy' => /\ last' = "ok"
                                  /\ streak' >= (RecoverThreshold - 1) * Cache]_failoverVars

\* An outage that lasts is noticed, whatever probes hang meanwhile.
OutageDetected == <>[](server = "down") => <>[]~healthy

\* After an outage writes come back: with MySQL reachable for good the
\* verdict is healthy again and again.
Recovers == <>[](server = "up") => []<>healthy
=============================================================================
