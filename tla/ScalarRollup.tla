----------------------------- MODULE ScalarRollup -----------------------------
(***************************************************************************)
(* Scalar samples on their way from a batch to a minute's rollup: the      *)
(* transaction of commit_data_batch, which leaves a dirty marker for every *)
(* minute it writes to, and the maintenance job, which turns markers into  *)
(* rollups, keeps the daily partitions and drops the expired ones.         *)
(*                                                                         *)
(* Both are READ COMMITTED transactions.  A statement sees what was        *)
(* committed when it started (Snapshot), and a row that another            *)
(* transaction is deleting makes it wait; what a transaction wrote takes   *)
(* effect for others when it commits.  What the advisory lock covers is    *)
(* not the transaction: Unlock precedes Commit.                            *)
(*                                                                         *)
(* Time counts minutes on one clock.  Timestamps within a minute matter    *)
(* only to the view, which hides a sample whose inserted_at is not after   *)
(* its rollup's rolled_at: a rollup row carries the samples it hides.      *)
(***************************************************************************)
EXTENDS Integers, Sequences

CONSTANTS
  Worker,      \* runs of the maintenance job that may overlap
  MaxBatches,  \* bound: batches received
  PerBatch,    \* valid real-time samples in a batch
  DayLength,   \* minutes in a day
  Retention,   \* retention_days
  Ahead,       \* days of partitions created in advance
  Lag,         \* minutes before a bucket counts as complete
  MaxNow,      \* bound: the clock
  MaxAborts    \* bound: transactions that end in an error

ASSUME SettingsAssumption ==
  /\ PerBatch \in Nat \ {0}
  /\ DayLength \in Nat \ {0}
  /\ Retention \in Nat \ {0}
  /\ Ahead \in Nat
  /\ Lag \in Nat

ASSUME BoundsAssumption ==
  /\ MaxBatches \in Nat
  /\ MaxNow \in Nat
  /\ MaxAborts \in Nat

VARIABLES
  now,
  received,    \* minutes of received_at, one per batch
  stored,      \* number of batches committed
  (* the collector's transaction *)
  step,        \* its next statement: "begin" when there is none open
  inserted,    \* samples inserted and not committed
  marks,       \* minutes whose marker it inserted
  (* committed rows *)
  samples,     \* scalar_samples
  dirty,       \* scalar_rollup_dirty
  rollups,     \* scalar_minute_rollups: minute -> row
  partitions,  \* days that have partitions
  (* the maintenance runs *)
  lock,        \* the runs that hold the advisory lock
  pc,          \* per run: what it has done
  today,       \* per run: effective_today
  sees,        \* per run: the snapshot of its rollup statement
  deletes,     \* per run: markers it deleted
  upserts,     \* per run: rollup rows it wrote
  aborts,
  (* observer *)
  horizon      \* the day for which partitions were last created

clockVars == <<now, received, stored>>
txVars == <<step, inserted, marks>>
tableVars == <<samples, dirty, rollups, partitions>>
jobVars == <<lock, pc, today, sees, deletes, upserts>>
vars == <<clockVars, txVars, tableVars, jobVars, aborts, horizon>>

Batch == 1..MaxBatches
Sample == Batch \X (1..PerBatch)
Minute == 0..MaxNow

Day(minute) == minute \div DayLength
MinuteOf(s) == received[s[1]]
InMinute(set, minute) == {s \in set : MinuteOf(s) = minute}

\* counts: the samples a row aggregates; hides: those inserted when it was
\* written, committed or not.
Row == [counts : SUBSET Sample, hides : SUBSET Sample]
Rows(rows) == DOMAIN rows \subseteq Minute /\ \A m \in DOMAIN rows : rows[m] \in Row

\* Mutant: the days since the last run are not created.
WindowAhead(day) == day..(day + Ahead)

Window(day) == (day - Retention)..(day + Ahead)

\* Mutant: one more day expires.
ExpiredOrLast(day) == {d \in partitions : d <= day - Retention}

Expired(day) == {d \in partitions : d < day - Retention}

NoRows == [m \in {} |-> [counts |-> {}, hides |-> {}]]
NoSnapshot == [samples |-> {}, dirty |-> {}, before |-> 0]

Init ==
  /\ now = 0
  /\ received = <<>>
  /\ stored = 0
  /\ step = "begin"
  /\ inserted = {}
  /\ marks = {}
  /\ samples = {}
  /\ dirty = {}
  /\ rollups = NoRows
  /\ partitions = (-Retention)..Ahead
  /\ horizon = 0
  /\ lock = {}
  /\ pc = [w \in Worker |-> "idle"]
  /\ today = [w \in Worker |-> 0]
  /\ sees = [w \in Worker |-> NoSnapshot]
  /\ deletes = [w \in Worker |-> {}]
  /\ upserts = [w \in Worker |-> NoRows]
  /\ aborts = 0

-----------------------------------------------------------------------------
(* The collector: one batch at a time, retried until it is committed. *)

\* The batch in the spool: the collector reads no other before it is stored.
Pending == stored < Len(received)
Current == received[stored + 1]

Receive ==
  /\ ~Pending /\ Len(received) < MaxBatches
  /\ received' = Append(received, now)
  /\ UNCHANGED <<now, stored, txVars, tableVars, jobVars, aborts, horizon>>

Open(w) == pc[w] # "idle"

\* DROP TABLE of a partition locks its parent until the run commits; who asks
\* for the parent afterwards waits already while the request is queued.
ClaimsParent(w) ==
  /\ pc[w] \in {"dropping", "dropped", "unlocked"}
  /\ Expired(today[w]) # {}

\* The row of the batch, then sample after sample.  Without a partition for
\* the day the transaction fails, the batch stays pending and is tried again.
InsertSample ==
  /\ Pending
  /\ \/ /\ step = "begin"
        /\ Day(Current) \in partitions
        /\ \A w \in Worker : ~ClaimsParent(w)
     \/ step = "sample"
  /\ \E k \in 1..PerBatch :
       /\ inserted = {stored + 1} \X (1..(k - 1))
       /\ inserted' = inserted \cup {<<stored + 1, k>>}
  /\ step' = "marker"
  /\ UNCHANGED <<clockVars, marks, tableVars, jobVars, aborts, horizon>>

\* The marker that is already there conflicts.  One that a run is deleting
\* must be waited for.
Conflicts == Current \in dirty
WaitsFor(w) == step = "marker" /\ Current \in deletes[w] /\ Current \notin marks

\* Mutant: only the first batch of a minute marks it.
MarkFirst ==
  /\ step = "marker"
  /\ \A w \in Worker : ~WaitsFor(w)
  /\ marks' = IF Current \in DOMAIN rollups THEN marks ELSE {Current}
  /\ step' = "sample"
  /\ UNCHANGED <<clockVars, inserted, tableVars, jobVars, aborts, horizon>>

\* INSERT INTO scalar_rollup_dirty ... ON CONFLICT DO NOTHING.
Mark ==
  /\ step = "marker"
  /\ \A w \in Worker : ~WaitsFor(w)
  /\ marks' = IF Conflicts THEN marks ELSE {Current}
  /\ step' = "sample"
  /\ UNCHANGED <<clockVars, inserted, tableVars, jobVars, aborts, horizon>>

CommitBatch ==
  /\ step = "sample"
  /\ inserted = {stored + 1} \X (1..PerBatch)
  /\ samples' = samples \cup inserted
  /\ dirty' = dirty \cup marks
  /\ stored' = stored + 1
  /\ step' = "begin"
  /\ inserted' = {}
  /\ marks' = {}
  /\ UNCHANGED <<now, received, rollups, partitions, jobVars, aborts, horizon>>

\* The retry inserts its samples at a later time, after any rolled_at so far.
Unhide(rows) == [m \in DOMAIN rows |-> [rows[m] EXCEPT !.hides = @ \ inserted]]

RollBackBatch ==
  /\ step' = "begin"
  /\ inserted' = {}
  /\ marks' = {}
  /\ rollups' = Unhide(rollups)
  /\ upserts' = [w \in Worker |-> Unhide(upserts[w])]
  /\ UNCHANGED <<clockVars, samples, dirty, partitions, lock, pc, today, sees,
                 deletes, horizon>>

\* The connection is lost, or the collector is killed and starts over.
AbortBatch ==
  /\ step # "begin" /\ aborts < MaxAborts
  /\ RollBackBatch
  /\ aborts' = aborts + 1

-----------------------------------------------------------------------------
(* Maintenance.run. *)

\* pg_try_advisory_lock and ensure_daily_partitions.  CREATE TABLE waits for
\* a run that created or dropped partitions and has not committed, and then
\* fails on the names it finds; that run is one that does not begin.
Begin(w) ==
  /\ pc[w] = "idle" /\ lock = {}
  /\ \A v \in Worker : Open(v) => /\ Window(today[v]) \subseteq partitions
                                  /\ ~ClaimsParent(v)
  /\ lock' = {w}
  /\ pc' = [pc EXCEPT ![w] = "begun"]
  /\ today' = [today EXCEPT ![w] = Day(now)]
  /\ UNCHANGED <<clockVars, txVars, tableVars, sees, deletes, upserts, aborts, horizon>>

\* _roll_up_scalars: clock_timestamp(), then the statement starts.
Snapshot(w) ==
  /\ pc[w] = "begun"
  /\ sees' = [sees EXCEPT ![w] = [samples |-> samples, dirty |-> dirty,
                                  before |-> now - Lag]]
  /\ pc' = [pc EXCEPT ![w] = "reading"]
  /\ UNCHANGED <<clockVars, txVars, tableVars, lock, today, deletes, upserts,
                 aborts, horizon>>

\* Mutant: only the day's own minutes.
AffectedToday(w) ==
  {m \in sees[w].dirty : m < sees[w].before /\ Day(m) = today[w]}

\* The markers the DELETE of the statement finds.
Affected(w) == {m \in sees[w].dirty : m < sees[w].before}

\* Mutant: the rollup counts only what the previous one had not counted.
AggregatedNew(w, minutes) ==
  [m \in {n \in minutes : InMinute(sees[w].samples, n) # {}} |->
     [counts |-> InMinute(sees[w].samples, m)
                 \ (IF m \in DOMAIN rollups THEN rollups[m].counts ELSE {}),
      hides |-> InMinute(samples \cup inserted, m)]]

\* Mutant: ON CONFLICT DO UPDATE leaves rolled_at alone.
AggregatedSameTime(w, minutes) ==
  [m \in {n \in minutes : InMinute(sees[w].samples, n) # {}} |->
     [counts |-> InMinute(sees[w].samples, m),
      hides |-> IF m \in DOMAIN rollups THEN rollups[m].hides
                ELSE InMinute(samples \cup inserted, m)]]

\* The rows of "aggregated" for these minutes; a minute without samples has none.
Aggregated(w, minutes) ==
  [m \in {n \in minutes : InMinute(sees[w].samples, n) # {}} |->
     [counts |-> InMinute(sees[w].samples, m),
      hides |-> InMinute(samples \cup inserted, m)]]

\* The rest of the statement, and the minute watermark, whose row makes this
\* run wait for any other that has written it.
RollUp(w) ==
  /\ pc[w] = "reading"
  /\ \A v \in Worker \ {w} : pc[v] \in {"idle", "begun", "reading"}
  /\ deletes' = [deletes EXCEPT ![w] = Affected(w)]
  /\ upserts' = [upserts EXCEPT ![w] = Aggregated(w, Affected(w))]
  /\ pc' = [pc EXCEPT ![w] = "rolled"]
  /\ UNCHANGED <<clockVars, txVars, tableVars, lock, today, sees, aborts, horizon>>

\* drop_daily_partitions_before asks for the parents' locks, and waits for the
\* batch that has them.
WaitsForBatch(w) ==
  pc[w] = "dropping" /\ Expired(today[w]) # {} /\ step # "begin"

AskForParent(w) ==
  /\ pc[w] = "rolled"
  /\ pc' = [pc EXCEPT ![w] = "dropping"]
  /\ UNCHANGED <<clockVars, txVars, tableVars, lock, today, sees, deletes,
                 upserts, aborts, horizon>>

Drop(w) ==
  /\ pc[w] = "dropping"
  /\ ~WaitsForBatch(w)
  /\ pc' = [pc EXCEPT ![w] = "dropped"]
  /\ UNCHANGED <<clockVars, txVars, tableVars, lock, today, sees, deletes,
                 upserts, aborts, horizon>>

\* The finally block: pg_advisory_unlock first.  Leaving the transaction()
\* block has committed nothing: the lock statement had already begun the
\* transaction, which makes the block a savepoint.
Unlock(w) ==
  /\ pc[w] = "dropped"
  /\ lock' = lock \ {w}
  /\ pc' = [pc EXCEPT ![w] = "unlocked"]
  /\ UNCHANGED <<clockVars, txVars, tableVars, today, sees, deletes, upserts,
                 aborts, horizon>>

Kept(w) == (partitions \cup Window(today[w])) \ Expired(today[w])

Finish(w) ==
  /\ pc' = [pc EXCEPT ![w] = "idle"]
  /\ deletes' = [deletes EXCEPT ![w] = {}]
  /\ upserts' = [upserts EXCEPT ![w] = NoRows]
  /\ UNCHANGED <<clockVars, txVars, today>>

\* A marker this run deleted is gone for a statement that had seen it.
CommitRun(w) ==
  /\ pc[w] = "unlocked"
  /\ partitions' = Kept(w)
  /\ samples' = {s \in samples : Day(MinuteOf(s)) \in Kept(w)}
  /\ dirty' = dirty \ deletes[w]
  /\ rollups' = [m \in DOMAIN rollups \cup DOMAIN upserts[w] |->
                   IF m \in DOMAIN upserts[w] THEN upserts[w][m] ELSE rollups[m]]
  /\ sees' = [v \in Worker |->
                IF v = w THEN NoSnapshot
                ELSE [sees[v] EXCEPT !.dirty = @ \ deletes[w]]]
  /\ Finish(w)
  /\ horizon' = today[w]
  /\ UNCHANGED <<lock, aborts>>

RollBackRun(w) ==
  /\ Finish(w)
  /\ lock' = lock \ {w}
  /\ sees' = [sees EXCEPT ![w] = NoSnapshot]
  /\ UNCHANGED <<tableVars, horizon>>

AbortRun(w) ==
  /\ Open(w) /\ aborts < MaxAborts
  /\ RollBackRun(w)
  /\ aborts' = aborts + 1

-----------------------------------------------------------------------------

\* The batch waits for a marker this run deleted, and the run for the batch:
\* the server ends one of them.
Deadlocked(w) == WaitsFor(w) /\ WaitsForBatch(w)

BreakDeadlock(w) ==
  /\ Deadlocked(w)
  /\ RollBackBatch \/ RollBackRun(w)
  /\ UNCHANGED aborts

Tick ==
  /\ now < MaxNow
  /\ now' = now + 1
  /\ UNCHANGED <<received, stored, txVars, tableVars, jobVars, aborts, horizon>>

Write == InsertSample \/ Mark \/ CommitBatch

Run(w) ==
  \/ Begin(w)
  \/ Snapshot(w)
  \/ RollUp(w)
  \/ AskForParent(w)
  \/ Drop(w)
  \/ Unlock(w)
  \/ CommitRun(w)

Next ==
  \/ Receive
  \/ Write
  \/ AbortBatch
  \/ \E w \in Worker : Run(w) \/ AbortRun(w) \/ BreakDeadlock(w)
  \/ Tick

Spec == Init /\ [][Next]_vars

\* The collector retries, and its statements take less than the time between
\* two runs of the job, so a lock that comes and goes does not starve it; the
\* job is scheduled again and again, the server ends deadlocks, time passes.
FairSpec ==
  /\ Spec
  /\ SF_vars(Write)
  /\ \A w \in Worker : WF_vars(Run(w)) /\ WF_vars(BreakDeadlock(w))
  /\ WF_vars(Tick)
-----------------------------------------------------------------------------
(* Properties. *)

\* Tables, snapshots and the two parties' control state keep their shape; the
\* collector holds uncommitted samples exactly while its transaction is open.
TypeOK ==
  /\ now \in Minute
  /\ received \in Seq(Minute) /\ Len(received) <= MaxBatches
  /\ stored \in 0..Len(received)
  /\ step \in {"begin", "sample", "marker"}
  /\ inserted \subseteq Sample
  /\ step = "begin" <=> inserted = {}
  /\ step # "begin" => Pending
  /\ marks \subseteq Minute
  /\ samples \subseteq Sample
  /\ dirty \subseteq Minute
  /\ Rows(rollups)
  /\ partitions \subseteq Int
  /\ lock \subseteq Worker
  /\ pc \in [Worker -> {"idle", "begun", "reading", "rolled", "dropping", "dropped",
                     "unlocked"}]
  /\ today \in [Worker -> Nat]
  /\ sees \in [Worker -> [samples : SUBSET Sample, dirty : SUBSET Minute, before : Int]]
  /\ deletes \in [Worker -> SUBSET Minute]
  /\ DOMAIN upserts = Worker /\ \A w \in Worker : Rows(upserts[w])
  /\ aborts \in Nat
  /\ horizon \in Nat

\* scalar_minute_history: the rollups, and the samples they do not hide.
Counted(s) == MinuteOf(s) \in DOMAIN rollups /\ s \in rollups[MinuteOf(s)].counts
Hidden(s) == MinuteOf(s) \in DOMAIN rollups /\ s \in rollups[MinuteOf(s)].hides

\* The minute history shows no stored sample twice, in its rollup and on its
\* own, however retries, reruns and overlapping jobs fall.
ViewShowsOnce == \A s \in samples : Counted(s) => Hidden(s)

\* A sample that the history shows on its own will be rolled up: its minute
\* has a marker.
ShownAloneIsMarked == \A s \in samples : ~Hidden(s) => MinuteOf(s) \in dirty

\* A job never replaces a rollup by one that counts less, although it aggregates
\* from the samples again and partitions disappear under it.
RollupsGrow ==
  [][\A m \in DOMAIN rollups :
       /\ m \in DOMAIN rollups'
       /\ rollups[m].counts \subseteq rollups'[m].counts]_vars

\* Every day of the retention window accepts a late batch, unless no job has
\* committed for longer than the partitions created in advance last.
WindowInsertable ==
  \A d \in (Day(now) - Retention)..Day(now) :
    d <= horizon + Ahead => d \in partitions

\* A marker does not stay: its minute is rolled up once it is complete, even
\* when job and collector wait for each other.
MarkersCleared ==
  \A m \in Minute :
    m < MaxNow - Lag => (m \in dirty ~> m \notin dirty)

\* What no later run will count: a sample without a marker that is not in the
\* rollup of its minute.
Missed == {s \in samples : ~Counted(s) /\ MinuteOf(s) \notin dirty}

\* A sample comes to that in two ways only, both with its transaction open while the
\* statement of a run went on: the run takes the marker, and had its snapshot before
\* the commit; or the marker has been taken, and the commit comes last.  Every other
\* sample is counted when its marker goes, and stays counted.
OnlyOverlapMisses ==
  [][\A s \in Missed' \ Missed :
       \/ s \in inserted /\ Hidden(s)
       \/ \E w \in Worker :
            /\ pc[w] = "unlocked" /\ pc'[w] = "idle"
            /\ s \notin sees[w].samples
            /\ MinuteOf(s) \in DOMAIN upserts[w] /\ s \in upserts[w][MinuteOf(s)].hides]_vars

\* "A transactionally written dirty marker makes late commits visible to the
\* rollup worker": what is stored is counted or will be.
LateCommitsVisible == \A s \in samples : Counted(s) \/ MinuteOf(s) \in dirty
=============================================================================
