----------------------------- MODULE OracleSync -----------------------------
(***************************************************************************)
(* The one-way copy from MySQL to Oracle (scripts/sync_to_oracle.py,       *)
(* app/scheduler.py): one Oracle transaction that empties and reloads the  *)
(* tables while MySQL goes on changing.  subway_lines stands for the       *)
(* tables that are upserted (UPSERT_ONLY_TABLES; line_name is unique),     *)
(* train_timetables for itself: it refers to lines and is left out unless  *)
(* asked for.  The remaining tables are rows that may refer to a line.     *)
(***************************************************************************)
EXTENDS Naturals, Sequences, FiniteSets

CONSTANTS MaxLine,        \* line_ids are 1..MaxLine
          Names,          \* line_name
          Rows,           \* primary keys of the reloaded tables
          NoName, NoRow,  \* no row under this key
          Blank,          \* a row with '' in a NOT NULL column, no line
          MaxVersions,    \* bound on the states of MySQL
          MaxFaults       \* bound on failures and restarts

ASSUME OracleSyncAssumption ==
    /\ MaxLine \in Nat /\ MaxVersions \in Nat \ {0} /\ MaxFaults \in Nat
    /\ NoName \notin Names /\ NoRow # Blank
    /\ NoRow \notin 1..MaxLine /\ Blank \notin 1..MaxLine

VARIABLES log,        \* MySQL's states; the last one is current
          oracle,     \* what is committed in Oracle
          copied, copiedTimetable,  \* history: the states oracle's tables show
          job,
          recorded,   \* sync_state.json: the state it is about, if readable
          faults

vars == <<log, oracle, copied, copiedTimetable, job, recorded, faults>>

Lines == 1..MaxLine
Tables == [line: [Lines -> Names \cup {NoName}],
           row: [Rows -> Lines \cup {NoRow, Blank}],
           timetable: SUBSET Lines]

Present(line) == {i \in Lines : line[i] # NoName}

\* Foreign keys (RESTRICT) and uk_subway_lines_name.
Valid(db) ==
    /\ db.timetable \subseteq Present(db.line)
    /\ \A r \in Rows : db.row[r] \in Lines => db.row[r] \in Present(db.line)
    /\ \A i, j \in Present(db.line) : db.line[i] = db.line[j] => i = j

Databases == {db \in Tables : Valid(db)}
HasBlank(db) == \E r \in Rows : db.row[r] = Blank

NoRows == [r \in Rows |-> NoRow]
Empty == [line |-> [i \in Lines |-> NoName], row |-> NoRows, timetable |-> {}]

mysql == log[Len(log)]

\* "all" is --include-timetables; "snap" the state the MySQL connection sees
\* (REPEATABLE READ, from its first query on), "tx" Oracle as the transaction
\* sees it.
Idle == [phase |-> "idle", all |-> FALSE, snap |-> 1, tx |-> Empty]

Jobs == [phase: {"idle", "checked", "cleared", "upserted", "loaded",
                 "committed"},
         all: BOOLEAN, snap: 1..Len(log), tx: Tables]

TypeOK ==
    /\ log \in Seq(Databases) /\ log # <<>>
    /\ oracle \in Tables
    /\ copied \in 1..Len(log) /\ copiedTimetable \in 1..Len(log)
    /\ job \in Jobs
    /\ recorded \in 0..Len(log)
    /\ faults \in 0..MaxFaults

Init ==
    /\ log = <<Empty>>
    /\ oracle = Empty
    /\ copied = 1 /\ copiedTimetable = 1
    /\ job = Idle
    /\ recorded = 0
    /\ faults = 0

\* A transaction of the application or of an administrator.
Write ==
    /\ Len(log) < MaxVersions
    /\ \E db \in Databases \ {mysql} : log' = Append(log, db)
    /\ UNCHANGED <<oracle, copied, copiedTimetable, job, recorded, faults>>

-----------------------------------------------------------------------------
(* One run of the job. *)

Advance(phase) == job' = [job EXCEPT !.phase = phase]

\* check_empty_strings, on a connection of its own.  With a violation the job
\* ends here, which changes nothing.
CheckEmptyStrings(all) ==
    /\ job.phase = "idle"
    /\ ~HasBlank(mysql)
    /\ job' = [Idle EXCEPT !.phase = "checked", !.all = all]
    /\ UNCHANGED <<log, oracle, copied, copiedTimetable, recorded, faults>>

DeleteAll ==
    /\ job.phase = "checked"
    /\ job' = [job EXCEPT
                 !.phase = "cleared",
                 !.tx = [oracle EXCEPT
                           !.row = NoRows,
                           !.timetable = IF job.all THEN {}
                                              ELSE oracle.timetable]]
    /\ UNCHANGED <<log, oracle, copied, copiedTimetable, recorded, faults>>

\* Mutant of Upsertable: timetables do not keep their line.
UpsertableUnreferenced(from, to, timetable) ==
    LET kept == Present(from) \cap Present(to)
        gone == Present(from) \ Present(to)
    IN /\ \A i \in Present(to) \ kept, j \in Present(from) : from[j] # to[i]
       /\ \A i \in kept, j \in Present(from) :
             j > i \/ j \in gone => from[j] # to[i]

\* _upsert_table inserts, then updates row by row in the order of the primary
\* key, then deletes; every statement meets the constraints by itself.
Upsertable(from, to, timetable) ==
    LET kept == Present(from) \cap Present(to)
        gone == Present(from) \ Present(to)
    IN /\ \A i \in Present(to) \ kept, j \in Present(from) : from[j] # to[i]
       /\ \A i \in kept, j \in Present(from) :
             j > i \/ j \in gone => from[j] # to[i]
       /\ gone \cap timetable = {}

\* Mutant of Upsert: the state the job reads is numbered from 0.
UpsertFromZero ==
    LET source == mysql
    IN /\ job.phase = "cleared"
       /\ Upsertable(job.tx.line, source.line, job.tx.timetable)
       /\ job' = [job EXCEPT !.phase = "upserted", !.snap = Len(log) - 1,
                             !.tx = [job.tx EXCEPT !.line = source.line]]
       /\ UNCHANGED <<log, oracle, copied, copiedTimetable, recorded, faults>>

Upsert ==
    LET source == mysql
    IN /\ job.phase = "cleared"
       /\ Upsertable(job.tx.line, source.line, job.tx.timetable)
       /\ job' = [job EXCEPT !.phase = "upserted", !.snap = Len(log),
                             !.tx = [job.tx EXCEPT !.line = source.line]]
       /\ UNCHANGED <<log, oracle, copied, copiedTimetable, recorded, faults>>

\* Mutants of Reload: the rows are read as they are now; the state file is
\* written before the commit.
ReloadUnrepeatable ==
    /\ job.phase = "upserted"
    /\ ~HasBlank(mysql)
    /\ job' = [job EXCEPT
                 !.phase = "loaded",
                 !.tx = [job.tx EXCEPT
                           !.row = mysql.row,
                           !.timetable = IF job.all THEN mysql.timetable
                                                    ELSE job.tx.timetable]]
    /\ UNCHANGED <<log, oracle, copied, copiedTimetable, recorded, faults>>

ReloadRecords ==
    LET source == log[job.snap]
    IN /\ job.phase = "upserted"
       /\ ~HasBlank(source)
       /\ job' = [job EXCEPT
                    !.phase = "loaded",
                    !.tx = [job.tx EXCEPT
                              !.row = source.row,
                              !.timetable = IF job.all THEN source.timetable
                                                       ELSE job.tx.timetable]]
       /\ recorded' = job.snap
       /\ UNCHANGED <<log, oracle, copied, copiedTimetable, faults>>

Reload ==
    LET source == log[job.snap]
    IN /\ job.phase = "upserted"
       /\ ~HasBlank(source)
       /\ job' = [job EXCEPT
                    !.phase = "loaded",
                    !.tx = [job.tx EXCEPT
                              !.row = source.row,
                              !.timetable = IF job.all THEN source.timetable
                                                       ELSE job.tx.timetable]]
       /\ UNCHANGED <<log, oracle, copied, copiedTimetable, recorded, faults>>

\* The counts agree: nobody else writes to Oracle.
Commit ==
    /\ job.phase = "loaded"
    /\ oracle' = job.tx
    /\ copied' = job.snap
    /\ copiedTimetable' = IF job.all THEN job.snap ELSE copiedTimetable
    /\ Advance("committed")
    /\ UNCHANGED <<log, recorded, faults>>

\* The file gets the time of this step, after the commit; recorded keeps which
\* snapshot it was written for.
WriteSyncState ==
    /\ job.phase = "committed"
    /\ recorded' = job.snap
    /\ job' = Idle
    /\ UNCHANGED <<log, oracle, copied, copiedTimetable, faults>>

\* A statement violates a constraint (unique key, RESTRICT, ORA-01400): the
\* transaction is rolled back.
StatementFails ==
    /\ \/ /\ job.phase = "cleared"
          /\ ~Upsertable(job.tx.line, mysql.line, job.tx.timetable)
       \/ job.phase = "upserted" /\ HasBlank(log[job.snap])
    /\ job' = Idle
    /\ UNCHANGED <<log, oracle, copied, copiedTimetable, recorded, faults>>

\* Mutant of Fault: the failed run never ends, and no other starts beside it.
FaultHangs ==
    /\ job.phase # "idle" /\ faults < MaxFaults
    /\ faults' = faults + 1
    /\ Advance("hanging")
    /\ recorded' \in IF job.phase = "committed" THEN {recorded, 0} ELSE {recorded}
    /\ UNCHANGED <<log, oracle, copied, copiedTimetable>>

\* A connection is lost, the disk is full, or the process stops and starts
\* again.  sync_state.json may be left truncated: unreadable, 0.
Fault ==
    /\ job.phase # "idle" /\ faults < MaxFaults
    /\ faults' = faults + 1
    /\ job' = Idle
    /\ recorded' \in IF job.phase = "committed" THEN {recorded, 0} ELSE {recorded}
    /\ UNCHANGED <<log, oracle, copied, copiedTimetable>>

Scheduled ==
    \/ CheckEmptyStrings(FALSE)
    \/ DeleteAll \/ Upsert \/ Reload \/ Commit \/ WriteSyncState
    \/ StatementFails

Next == Write \/ Scheduled \/ CheckEmptyStrings(TRUE) \/ Fault

Spec == Init /\ [][Next]_vars

\* The interval trigger starts a job again and again, and one that runs goes on.
FairSpec == Spec /\ WF_vars(Scheduled)

-----------------------------------------------------------------------------
(* Properties. *)

\* What is committed in Oracle is one state MySQL was in, all tables of the
\* same moment although they are read one by one while MySQL changes, and never
\* an older one later: what was deleted does not come back
\* (docs/DB-FAILOVER.md:99).
View(db) == <<db.line, db.row>>

Fallback == INSTANCE Replica WITH
    States <- {View(db) : db \in Databases},
    Initial <- View(Empty),
    log <- [n \in DOMAIN log |-> View(log[n])],
    at <- copied,
    shown <- View(oracle)

ImplementsReplica == Fallback!Spec

\* Timetables are copied by other runs than lines, so they show another state
\* of MySQL; still each refers to a line that Oracle has.
TimetablesHaveLines ==
    /\ oracle.timetable = log[copiedTimetable].timetable
    /\ oracle.timetable \subseteq Present(oracle.line)

\* What /health/db shows as the last synchronisation is in Oracle: the state
\* file is behind the commit when the process stops in between, never ahead.
NothingRecordedAhead == recorded <= copied

\* When MySQL comes to rest and no constraint stands in the way of its state,
\* the job gets there, whatever failed before.
Blocked == \/ HasBlank(mysql)
           \/ ~Upsertable(oracle.line, mysql.line, oracle.timetable)

CatchesUp == <>[]~Blocked => <>[](View(oracle) = View(mysql))
=============================================================================
