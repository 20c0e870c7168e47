--------------------------- MODULE ScalarRollupProofs ---------------------------
(***************************************************************************)
(* Of the minute rollups, for any number of overlapping maintenance runs,  *)
(* of batches and of aborts: the history shows nothing twice, what it      *)
(* shows on its own has a marker, rollups only grow, and the retention     *)
(* window keeps its partitions.                                            *)
(***************************************************************************)
EXTENDS ScalarRollup, TLAPS

-----------------------------------------------------------------------------
(* Days and minutes. *)

\* Minutes have a day, and later minutes no earlier one.
LEMMA DayTyped ==
  /\ \A n \in Nat : Day(n) \in Nat
  /\ \A n \in Nat : Day(n) <= Day(n + 1)
<1> SUFFICES ASSUME NEW n \in Nat PROVE Day(n) \in Nat /\ Day(n) <= Day(n + 1)
  OBVIOUS
<1> DEFINE D == DayLength
           q == n \div D
           p == (n + 1) \div D
<1>1. D \in Nat \ {0}
  BY SettingsAssumption
<1> HIDE DEF D
<1>2. /\ q \in Int /\ D * q <= n /\ n < D * q + D
      /\ p \in Int /\ D * p <= n + 1 /\ n + 1 < D * p + D
  BY <1>1, SMTT(60)
<1> HIDE DEF q, p
<1>3. q >= 0
  <2>1. q < 0 => D * q <= -D
    BY <1>1, <1>2, SMTT(60)
  <2> QED BY <1>1, <1>2, <2>1, SMT
<1>4. q <= p
  <2>1. p < q => D * p + D <= D * q
    BY <1>1, <1>2, SMTT(60)
  <2> QED BY <1>1, <1>2, <2>1, SMT
<1> QED BY <1>2, <1>3, <1>4, SMT DEF q, p, D, Day

\* A received sample has a minute.
LEMMA MinuteTyped ==
  ASSUME TypeOK, NEW s \in Sample, s[1] <= Len(received)
  PROVE  MinuteOf(s) \in Minute
BY BoundsAssumption, SMT DEF TypeOK, Sample, Batch, MinuteOf

\* The batch being stored has a minute, which its samples share.
LEMMA CurrentTyped ==
  ASSUME TypeOK, Pending
  PROVE  /\ Current \in Minute /\ stored + 1 \in Batch
         /\ \A k \in 1..PerBatch :
              /\ <<stored + 1, k>> \in Sample
              /\ MinuteOf(<<stored + 1, k>>) = Current
BY BoundsAssumption, SettingsAssumption, SMT DEF TypeOK, Pending, Current, Batch, Sample, MinuteOf

-----------------------------------------------------------------------------
(* Types. *)

\* What a run aggregates are rows of the minutes it took.
LEMMA AggregatedTyped ==
  ASSUME TypeOK, NEW w \in Worker, NEW minutes \in SUBSET Minute
  PROVE  Rows(Aggregated(w, minutes)) /\ DOMAIN Aggregated(w, minutes) \subseteq minutes
<1>1. \A m \in Minute : InMinute(sees[w].samples, m) \subseteq Sample
                        /\ InMinute(samples \cup inserted, m) \subseteq Sample
  BY DEF TypeOK, InMinute
<1> QED BY <1>1, Zenon DEF Rows, Row, Aggregated

\* Hiding less leaves rows.
LEMMA UnhideTyped ==
  ASSUME NEW rows, Rows(rows)
  PROVE  Rows(Unhide(rows))
<1> SUFFICES ASSUME NEW m \in DOMAIN rows
             PROVE  m \in Minute /\ [rows[m] EXCEPT !.hides = @ \ inserted] \in Row
  BY Zenon DEF Rows, Unhide
<1>1. rows[m] \in Row /\ m \in Minute
  BY DEF Rows
<1> QED BY <1>1 DEF Row

\* A run begins with no rows.
LEMMA NoRowsTyped == Rows(NoRows) /\ DOMAIN NoRows = {}
BY DEF NoRows, Rows

\* A run begins with no snapshot.
LEMMA NoSnapshotTyped ==
  NoSnapshot \in [samples : SUBSET Sample, dirty : SUBSET Minute, before : Int]
BY DEF NoSnapshot

\* No step breaks the types.
LEMMA TypeOKKept == TypeOK /\ [Next]_vars => TypeOK'
<1> SUFFICES ASSUME TypeOK, [Next]_vars PROVE TypeOK'
  OBVIOUS
<1> USE DEF TypeOK, clockVars, txVars, tableVars, jobVars
<1>0. /\ MaxBatches \in Nat /\ MaxNow \in Nat /\ MaxAborts \in Nat
      /\ now \in Nat /\ stored \in Nat /\ aborts \in Nat
      /\ Day(now) \in Nat
  <2>1. now \in Nat /\ stored \in Nat
    BY BoundsAssumption, SMT DEF Minute
  <2> QED BY <2>1, BoundsAssumption, DayTyped
<1>1. CASE Receive
  <2>1. received' \in Seq(Minute) /\ Len(received') = Len(received) + 1
    BY <1>1, SMT DEF Receive
  <2>2. /\ Len(received') <= MaxBatches /\ stored' \in 0..Len(received')
        /\ step = "begin"
    BY <1>1, <1>0, <2>1, SMT DEF Receive
  <2> QED BY <1>1, <2>1, <2>2 DEF Receive
<1>2. CASE InsertSample
  <2>0. Pending /\ Pending'
    BY <1>2 DEF InsertSample, Pending
  <2>1. PICK k \in 1..PerBatch : inserted' = inserted \cup {<<stored + 1, k>>}
    BY <1>2 DEF InsertSample
  <2>2. <<stored + 1, k>> \in Sample
    BY CurrentTyped, <2>0, <2>1
  <2>3. inserted' \subseteq Sample /\ inserted' # {} /\ step' = "marker"
    BY <1>2, <2>1, <2>2 DEF InsertSample
  <2> QED BY <1>2, <2>0, <2>3 DEF InsertSample
<1>3. CASE Mark
  <2>1. step' = "sample" /\ inserted # {} /\ Pending /\ Pending'
    BY <1>3 DEF Mark, Pending
  <2>2. marks' \subseteq Minute
    BY <1>3, <2>1, CurrentTyped DEF Mark
  <2> QED BY <1>3, <2>1, <2>2 DEF Mark
<1>4. CASE CommitBatch
  <2>1. stored' \in 0..Len(received')
    BY <1>4, <1>0, SMT DEF CommitBatch, Pending
  <2> QED BY <1>4, <2>1 DEF CommitBatch
<1>5. ASSUME RollBackBatch, aborts' \in Nat PROVE TypeOK'
  <2>1. Rows(rollups') /\ DOMAIN upserts' = Worker /\ \A w \in Worker : Rows(upserts'[w])
    BY <1>5, UnhideTyped, Zenon DEF RollBackBatch
  <2> QED BY <1>5, <2>1 DEF RollBackBatch
<1>6. CASE AbortBatch
  <2>1. aborts' \in Nat
    BY <1>6, <1>0, SMT DEF AbortBatch
  <2> QED BY <1>5, <1>6, <2>1 DEF AbortBatch
<1>w. ASSUME NEW w \in Worker PROVE w \in DOMAIN pc /\ w \in DOMAIN today /\ w \in DOMAIN sees
                                    /\ w \in DOMAIN deletes /\ w \in DOMAIN upserts
  OBVIOUS
<1>7. ASSUME NEW w \in Worker, Begin(w) PROVE TypeOK'
  BY <1>7, <1>0 DEF Begin, Pending
<1>8. ASSUME NEW w \in Worker, Snapshot(w) PROVE TypeOK'
  <2>1. now - Lag \in Int
    BY <1>0, SettingsAssumption, SMT
  <2>2. sees' \in [Worker -> [samples : SUBSET Sample, dirty : SUBSET Minute, before : Int]]
    BY <1>8, <2>1 DEF Snapshot
  <2> QED BY <1>8, <2>2 DEF Snapshot, Pending
<1>9. ASSUME NEW w \in Worker, RollUp(w) PROVE TypeOK'
  <2>1. Affected(w) \subseteq Minute
    BY DEF Affected
  <2>2. Rows(Aggregated(w, Affected(w)))
    BY <2>1, AggregatedTyped
  <2>3. DOMAIN upserts' = Worker /\ \A v \in Worker : Rows(upserts'[v])
    BY <1>9, <2>2, Zenon DEF RollUp
  <2> QED BY <1>9, <2>1, <2>3 DEF RollUp, Pending
<1>10. ASSUME NEW w \in Worker, AskForParent(w) \/ Drop(w) \/ Unlock(w) PROVE TypeOK'
  BY <1>10 DEF AskForParent, Drop, Unlock, Pending
<1>f. ASSUME NEW w \in Worker, Finish(w)
      PROVE  /\ DOMAIN upserts' = Worker /\ \A v \in Worker : Rows(upserts'[v])
             /\ deletes' \in [Worker -> SUBSET Minute]
             /\ pc' \in [Worker -> {"idle", "begun", "reading", "rolled", "dropping",
                                    "dropped", "unlocked"}]
             /\ today' = today /\ now' = now /\ received' = received /\ stored' = stored
             /\ step' = step /\ inserted' = inserted /\ marks' = marks
  <2>1. DOMAIN upserts' = Worker /\ \A v \in Worker : Rows(upserts'[v])
    BY <1>f, NoRowsTyped, Zenon DEF Finish
  <2> QED BY <1>f, <2>1 DEF Finish
<1>11. ASSUME NEW w \in Worker, CommitRun(w) PROVE TypeOK'
  <2>1. Window(today[w]) \subseteq Int
    BY SMT DEF Window
  <2>2. partitions' \subseteq Int
    BY <1>11, <2>1 DEF CommitRun, Kept
  <2>3. Rows(rollups')
    <3>1. Rows(upserts[w])
      OBVIOUS
    <3> QED BY <1>11, <3>1, Zenon DEF CommitRun, Rows
  <2>4. sees' \in [Worker -> [samples : SUBSET Sample, dirty : SUBSET Minute, before : Int]]
    <3>1. \A v \in Worker : [sees[v] EXCEPT !.dirty = @ \ deletes[w]]
              \in [samples : SUBSET Sample, dirty : SUBSET Minute, before : Int]
      OBVIOUS
    <3> QED BY <1>11, <3>1, NoSnapshotTyped DEF CommitRun
  <2>5. Finish(w) /\ samples' \subseteq Sample /\ dirty' \subseteq Minute
        /\ lock' = lock /\ aborts' = aborts /\ horizon' \in Nat
    BY <1>11 DEF CommitRun
  <2> QED BY <1>f, <2>2, <2>3, <2>4, <2>5 DEF Pending
<1>12. ASSUME NEW w \in Worker, RollBackRun(w), aborts' \in Nat PROVE TypeOK'
  <2>1. sees' \in [Worker -> [samples : SUBSET Sample, dirty : SUBSET Minute, before : Int]]
    BY <1>12, NoSnapshotTyped DEF RollBackRun
  <2> QED BY <1>f, <1>12, <2>1 DEF RollBackRun, Pending
<1>13. ASSUME NEW w \in Worker, AbortRun(w) PROVE TypeOK'
  <2>1. aborts' \in Nat
    BY <1>13, <1>0, SMT DEF AbortRun
  <2> QED BY <1>12, <1>13, <2>1 DEF AbortRun
<1>14. ASSUME NEW w \in Worker, BreakDeadlock(w) PROVE TypeOK'
  BY <1>5, <1>12, <1>14 DEF BreakDeadlock
<1>15. CASE Tick
  <2>1. now' \in Minute
    BY <1>15, <1>0, SMT DEF Tick, Minute
  <2> QED BY <1>15, <2>1 DEF Tick, Pending
<1>16. CASE UNCHANGED vars
  BY <1>16 DEF vars, Pending
<1> QED
  BY <1>1, <1>2, <1>3, <1>4, <1>6, <1>7, <1>8, <1>9, <1>10, <1>11, <1>13, <1>14,
     <1>15, <1>16 DEF Next, Write, Run

\* The initial state is typed.
LEMMA TypeOKStarts == Init => TypeOK
<1> SUFFICES ASSUME Init PROVE TypeOK
  OBVIOUS
<1>1. 0 \in Minute /\ received \in Seq(Minute) /\ Len(received) = 0 /\ stored \in 0..0
  BY BoundsAssumption, SMT DEF Init, Minute
<1>2. partitions \subseteq Int
  BY SettingsAssumption, SMT DEF Init
<1> QED BY <1>1, <1>2, BoundsAssumption, NoRowsTyped, NoSnapshotTyped DEF Init, TypeOK

\* The tables, the snapshots and both parties keep their shape.
THEOREM TypeCorrect == Spec => []TypeOK
<1>1. Init => TypeOK
  BY TypeOKStarts
<1>2. TypeOK /\ [Next]_vars => TypeOK'
  BY TypeOKKept
<1> QED BY <1>1, <1>2, PTL DEF Spec

-----------------------------------------------------------------------------
(* The runs of the job, and the days that have partitions. *)

Rolled(w) == pc[w] \in {"rolled", "dropping", "dropped", "unlocked"}

\* One run holds the lock, and one run, which may have released it, has written.
RunsInv ==
  /\ \A v, w \in lock : v = w
  /\ \A w \in Worker : w \in lock <=> pc[w] \notin {"idle", "unlocked"}
  /\ \A v, w \in Worker : Rolled(v) /\ Rolled(w) => v = w
  /\ \A w \in Worker : ~Rolled(w) => deletes[w] = {} /\ DOMAIN upserts[w] = {}

\* No step gives the lock, or the written watermark row, to two runs.
LEMMA RunsInvKept == TypeOK /\ RunsInv /\ [Next]_vars => RunsInv'
<1> SUFFICES ASSUME TypeOK, RunsInv, [Next]_vars PROVE RunsInv'
  OBVIOUS
<1>t. /\ pc \in [Worker -> {"idle", "begun", "reading", "rolled", "dropping", "dropped",
                           "unlocked"}]
      /\ deletes \in [Worker -> SUBSET Minute] /\ DOMAIN upserts = Worker /\ lock \subseteq Worker
  BY DEF TypeOK
<1>1. CASE UNCHANGED jobVars
  BY <1>1 DEF jobVars, RunsInv, Rolled
<1>2. CASE RollBackBatch
  <2>1. \A w \in Worker : DOMAIN upserts'[w] = DOMAIN upserts[w]
    BY <1>2 DEF RollBackBatch, Unhide, TypeOK
  <2> QED BY <1>2, <2>1 DEF RollBackBatch, RunsInv, Rolled
<1>3. ASSUME NEW w \in Worker, Begin(w) PROVE RunsInv'
  BY <1>t, <1>3 DEF Begin, RunsInv, Rolled
<1>4. ASSUME NEW w \in Worker, Snapshot(w) PROVE RunsInv'
  BY <1>t, <1>4 DEF Snapshot, RunsInv, Rolled
<1>5. ASSUME NEW w \in Worker, RollUp(w) PROVE RunsInv'
  BY <1>t, <1>5 DEF RollUp, RunsInv, Rolled
<1>6. ASSUME NEW w \in Worker, AskForParent(w) \/ Drop(w) \/ Unlock(w) PROVE RunsInv'
  BY <1>t, <1>6 DEF AskForParent, Drop, Unlock, RunsInv, Rolled
<1>7. ASSUME NEW w \in Worker, Finish(w), lock' = lock \ {w} PROVE RunsInv'
  BY <1>t, <1>7, NoRowsTyped DEF Finish, RunsInv, Rolled
<1>8. ASSUME NEW w \in Worker, CommitRun(w) PROVE RunsInv'
  <2>1. w \notin lock
    BY <1>8 DEF CommitRun, RunsInv
  <2> QED BY <1>7, <1>8, <2>1 DEF CommitRun
<1> QED
  BY <1>1, <1>2, <1>3, <1>4, <1>5, <1>6, <1>7, <1>8
  DEF Next, Write, Run, Receive, InsertSample, Mark, CommitBatch, AbortBatch, AbortRun,
      BreakDeadlock, RollBackRun, Tick, vars

\* A minute whose samples an earlier run has dropped.
Emptied(minute) == Day(minute) < horizon - Retention

\* The partitions cover the retention window of the last run, and nothing before;
\* later runs look at later days; samples have a partition.
PartitionInv ==
  /\ horizon <= Day(now)
  /\ \A w \in Worker : Open(w) => horizon <= today[w] /\ today[w] <= Day(now)
  /\ \A v, w \in Worker : Rolled(v) /\ Open(w) /\ ~Rolled(w) => today[v] <= today[w]
  /\ \A d \in partitions : horizon - Retention <= d
  /\ \A d \in (horizon - Retention)..(horizon + Ahead) : d \in partitions
  /\ \A w \in Worker :
       pc[w] \in {"dropped", "unlocked"} /\ Expired(today[w]) # {} => step = "begin"
  /\ step # "begin" => Day(Current) \in partitions
  /\ \A s \in samples : Day(MinuteOf(s)) \in partitions

\* The samples and marks of the open transaction, and those committed.
BatchInv ==
  /\ \A s \in samples : s[1] <= stored
  /\ \A s \in inserted : s[1] = stored + 1
  /\ \A m \in marks : step # "begin" /\ m = Current /\ m \notin dirty

\* A received sample keeps its minute.
LEMMA MinuteKept ==
  ASSUME TypeOK, [Next]_vars, NEW s \in Sample, s[1] <= Len(received)
  PROVE  MinuteOf(s)' = MinuteOf(s) /\ stored <= stored' /\ Len(received) <= Len(received')
<1>1. received' = received \/ (now \in Minute /\ received' = Append(received, now))
  BY DEF Next, Write, Run, Receive, InsertSample, Mark, CommitBatch, AbortBatch, AbortRun,
         BreakDeadlock, RollBackRun, RollBackBatch, Finish, Tick, vars, clockVars, Begin,
         Snapshot, RollUp, AskForParent, Drop, Unlock, CommitRun, TypeOK
<1>2. stored' = stored \/ stored' = stored + 1
  BY DEF Next, Write, Run, Receive, InsertSample, Mark, CommitBatch, AbortBatch, AbortRun,
         BreakDeadlock, RollBackRun, RollBackBatch, Finish, Tick, vars, clockVars, Begin,
         Snapshot, RollUp, AskForParent, Drop, Unlock, CommitRun
<1>3. s[1] \in 1..Len(received) /\ received \in Seq(Minute) /\ stored \in Nat
  BY BoundsAssumption, SMT DEF TypeOK, Sample, Batch
<1> QED BY <1>1, <1>2, <1>3, SMT DEF MinuteOf

\* The minute of the open transaction does not change under it.
LEMMA CurrentKept ==
  ASSUME TypeOK, [Next]_vars, step # "begin", step' # "begin"
  PROVE  Current' = Current /\ stored' = stored
BY DEF Next, Write, Run, Receive, InsertSample, Mark, CommitBatch, AbortBatch, AbortRun,
       BreakDeadlock, RollBackRun, RollBackBatch, Finish, Tick, vars, clockVars, Begin,
       Snapshot, RollUp, AskForParent, Drop, Unlock, CommitRun, TypeOK, Current

\* No step mixes the open transaction with what is committed.
LEMMA BatchInvKept == TypeOK /\ BatchInv /\ [Next]_vars => BatchInv'
<1> SUFFICES ASSUME TypeOK, BatchInv, [Next]_vars PROVE BatchInv'
  OBVIOUS
<1>t. stored \in Nat /\ \A s \in Sample : s[1] \in Nat
  BY BoundsAssumption, SMT DEF TypeOK, Sample, Batch
<1>u. inserted \subseteq Sample /\ samples \subseteq Sample /\ (step = "begin" <=> inserted = {})
  BY DEF TypeOK
<1>1. CASE UNCHANGED <<stored, step, inserted, marks, samples, dirty, received>>
  BY <1>1 DEF BatchInv, Current
<1>2. CASE Receive
  <2>1. /\ UNCHANGED <<stored, step, inserted, marks, samples, dirty>>
        /\ ~Pending
    BY <1>2 DEF Receive, txVars, tableVars
  <2>2. step = "begin"
    BY <2>1, <1>u DEF TypeOK
  <2> QED BY <2>1, <2>2 DEF BatchInv
<1>3. CASE InsertSample
  <2>1. PICK k \in 1..PerBatch : inserted' = inserted \cup {<<stored + 1, k>>}
    BY <1>3 DEF InsertSample
  <2>2. /\ UNCHANGED <<stored, received, marks, samples, dirty>>
        /\ step' = "marker"
    BY <1>3 DEF InsertSample, clockVars, tableVars
  <2>3. Current' = Current
    BY <2>2 DEF Current
  <2> QED BY <2>1, <2>2, <2>3 DEF BatchInv
<1>4. CASE Mark
  <2>1. /\ UNCHANGED <<stored, received, inserted, samples, dirty>>
        /\ step' = "sample"
        /\ marks' = IF Conflicts THEN marks ELSE {Current}
    BY <1>4 DEF Mark, clockVars, tableVars
  <2>2. Current' = Current
    BY <2>1 DEF Current
  <2> QED BY <2>1, <2>2 DEF BatchInv, Conflicts
<1>5. CASE CommitBatch
  <2>1. /\ samples' = samples \cup inserted /\ stored' = stored + 1
        /\ inserted' = {} /\ marks' = {}
    BY <1>5 DEF CommitBatch
  <2>2. \A s \in samples : s[1] <= stored'
    BY <1>t, <1>u, <2>1, SMT DEF BatchInv
  <2>3. \A s \in inserted : s[1] <= stored'
    BY <1>t, <1>u, <2>1, SMT DEF BatchInv
  <2> QED BY <2>1, <2>2, <2>3 DEF BatchInv
<1>6. CASE RollBackBatch
  BY <1>6 DEF RollBackBatch, BatchInv, clockVars
<1>7. ASSUME NEW w \in Worker, CommitRun(w) PROVE BatchInv'
  <2>1. /\ UNCHANGED <<stored, received, step, inserted, marks>>
        /\ samples' \subseteq samples /\ dirty' \subseteq dirty
    BY <1>7 DEF CommitRun, Finish, clockVars, txVars
  <2>2. Current' = Current
    BY <2>1 DEF Current
  <2> QED BY <2>1, <2>2 DEF BatchInv
<1> QED
  BY <1>1, <1>2, <1>3, <1>4, <1>5, <1>6, <1>7
  DEF Next, Write, Run, Begin, Snapshot, RollUp, AskForParent, Drop, Unlock, AbortBatch,
      AbortRun, BreakDeadlock, RollBackRun, Finish, Tick, vars, clockVars, txVars, tableVars

\* No step leaves a sample, or the retention window, without partition.
LEMMA PartitionInvKept ==
  TypeOK /\ RunsInv /\ PartitionInv /\ BatchInv /\ [Next]_vars =>
    PartitionInv' /\ horizon <= horizon'
<1> SUFFICES ASSUME TypeOK, RunsInv, PartitionInv, BatchInv, [Next]_vars
             PROVE  PartitionInv' /\ horizon <= horizon'
  OBVIOUS
<1>t. /\ pc \in [Worker -> {"idle", "begun", "reading", "rolled", "dropping", "dropped",
                           "unlocked"}]
      /\ today \in [Worker -> Nat] /\ horizon \in Nat /\ samples \subseteq Sample
      /\ inserted \subseteq Sample /\ partitions \subseteq Int
      /\ (step = "begin" <=> inserted = {}) /\ (step # "begin" => Pending)
  BY DEF TypeOK
<1>n. now \in Nat /\ Day(now) \in Nat /\ Day(now) <= Day(now + 1)
  <2>1. now \in Nat
    BY BoundsAssumption, SMT DEF TypeOK, Minute
  <2> QED BY <2>1, DayTyped
<1>m. \A s \in samples : MinuteOf(s)' = MinuteOf(s)
  <2>1. \A s \in samples : s \in Sample /\ s[1] <= Len(received)
    BY <1>t, BoundsAssumption, SMT DEF BatchInv, TypeOK, Sample, Batch
  <2> QED BY <2>1, MinuteKept
<1>0. ASSUME UNCHANGED <<stored, pc, today, samples, partitions, horizon>>,
             step' # "begin" => step # "begin",
             now' = now \/ now' = now + 1
      PROVE  PartitionInv' /\ horizon <= horizon'
  <2>1. step' # "begin" => Current' = Current
    BY <1>0, CurrentKept
  <2>2. Day(now) <= Day(now')
    BY <1>0, <1>n, SMT
  <2>3. /\ horizon' <= Day(now')
        /\ \A w \in Worker : Open(w)' => horizon' <= today'[w] /\ today'[w] <= Day(now')
    <3>1. Day(now') \in Nat
      BY <1>0, <1>n, DayTyped
    <3> QED BY <1>0, <1>n, <1>t, <2>2, <3>1, SMT DEF PartitionInv, Open
  <2>4. \A s \in samples' : Day(MinuteOf(s)') \in partitions'
    BY <1>0, <1>m DEF PartitionInv
  <2>5. /\ \A w \in Worker : Expired(today[w])' = Expired(today[w])
        /\ \A w \in Worker : Open(w)' = Open(w) /\ Rolled(w)' = Rolled(w)
    BY <1>0 DEF Expired, Open, Rolled
  <2>6. Day(now)' = Day(now') /\ \A s : Day(MinuteOf(s))' = Day(MinuteOf(s)')
        /\ Day(Current)' = Day(Current')
    BY DEF Day
  <2> QED BY <1>0, <1>t, <2>1, <2>3, <2>4, <2>5, <2>6, SMT DEF PartitionInv

<1>p. ASSUME UNCHANGED <<clockVars, txVars, tableVars, horizon, today>>,
             \A v \in Worker : Open(v)' => Open(v),
             \A v, u \in Worker : Rolled(v)' /\ Open(u)' /\ ~Rolled(u)' => Rolled(v) /\ ~Rolled(u),
             \A v \in Worker :
               pc'[v] \in {"dropped", "unlocked"} /\ Expired(today[v]) # {} => step = "begin"
      PROVE  PartitionInv' /\ horizon <= horizon'
  <2>1. /\ UNCHANGED <<now, received, stored, step, samples, partitions, horizon, today>>
        /\ Current' = Current /\ \A s : MinuteOf(s)' = MinuteOf(s)
    BY <1>p DEF clockVars, txVars, tableVars, Current, MinuteOf
  <2>2. /\ \A w \in Worker : Expired(today[w])' = Expired(today[w])
        /\ Day(now)' = Day(now) /\ \A s : Day(MinuteOf(s))' = Day(MinuteOf(s))
        /\ Day(Current)' = Day(Current)
    BY <2>1, Zenon DEF Expired, Day
  <2> QED BY <1>p, <1>t, <2>1, <2>2, SMT DEF PartitionInv
<1>1. CASE Receive
  <2>1. step' = step /\ step = "begin"
    BY <1>1, <1>t DEF Receive, txVars
  <2> QED BY <1>0, <1>1, <2>1 DEF Receive, jobVars, tableVars
<1>2. CASE InsertSample
  <2>1. /\ UNCHANGED <<now, received, stored, samples, partitions, horizon, today, pc>>
        /\ step' = "marker"
        /\ \/ step = "begin" /\ Day(Current) \in partitions /\ \A w \in Worker : ~ClaimsParent(w)
           \/ step = "sample"
    BY <1>2 DEF InsertSample, clockVars, tableVars, jobVars
  <2>2. /\ Current' = Current /\ \A s : MinuteOf(s)' = MinuteOf(s)
    BY <2>1 DEF Current, MinuteOf
  <2>3. /\ \A w \in Worker : Expired(today[w])' = Expired(today[w])
        /\ Day(now)' = Day(now) /\ \A s : Day(MinuteOf(s))' = Day(MinuteOf(s))
        /\ Day(Current)' = Day(Current)
        /\ \A w \in Worker : Open(w)' = Open(w) /\ Rolled(w)' = Rolled(w)
    BY <2>1, <2>2, Zenon DEF Expired, Day, Open, Rolled
  <2>4. \A w \in Worker : pc[w] \in {"dropped", "unlocked"} => Expired(today[w]) = {}
    BY <2>1 DEF PartitionInv, ClaimsParent
  <2>5. Day(Current) \in partitions
    BY <2>1 DEF PartitionInv
  <2> QED BY <1>t, <2>1, <2>2, <2>3, <2>4, <2>5, SMT DEF PartitionInv
<1>3. CASE Mark
  <2>1. step # "begin"
    BY <1>3 DEF Mark
  <2> QED BY <1>0, <1>3, <2>1 DEF Mark, clockVars, jobVars, tableVars
<1>4. CASE CommitBatch
  <2>1. /\ UNCHANGED <<now, received, partitions, horizon, today, pc>>
        /\ step' = "begin" /\ step # "begin" /\ samples' = samples \cup inserted
    BY <1>4 DEF CommitBatch, jobVars
  <2>2. \A s \in inserted : MinuteOf(s) = Current
    BY <1>t DEF BatchInv, MinuteOf, Current
  <2>3. \A s : MinuteOf(s)' = MinuteOf(s)
    BY <2>1 DEF MinuteOf
  <2>4. /\ \A w \in Worker : Expired(today[w])' = Expired(today[w])
        /\ Day(now)' = Day(now) /\ \A s : Day(MinuteOf(s))' = Day(MinuteOf(s))
        /\ \A w \in Worker : Open(w)' = Open(w) /\ Rolled(w)' = Rolled(w)
    BY <2>1, <2>3, Zenon DEF Expired, Day, Open, Rolled
  <2>5. \A s \in samples' : Day(MinuteOf(s)) \in partitions
    BY <2>1, <2>2 DEF PartitionInv
  <2> QED BY <1>t, <2>1, <2>4, <2>5, SMT DEF PartitionInv
<1>5. CASE RollBackBatch
  BY <1>0, <1>5 DEF RollBackBatch, clockVars
<1>6. ASSUME NEW w \in Worker, Begin(w) PROVE PartitionInv' /\ horizon <= horizon'
  <2>1. /\ UNCHANGED <<now, received, stored, step, samples, partitions, horizon>>
        /\ Current' = Current /\ \A s : MinuteOf(s)' = MinuteOf(s)
        /\ today' = [today EXCEPT ![w] = Day(now)] /\ pc' = [pc EXCEPT ![w] = "begun"]
        /\ pc[w] = "idle"
    BY <1>6 DEF Begin, clockVars, txVars, tableVars, Current, MinuteOf
  <2>2. /\ Day(now)' = Day(now) /\ \A s : Day(MinuteOf(s))' = Day(MinuteOf(s))
        /\ Day(Current)' = Day(Current)
    BY <2>1, Zenon DEF Day
  <2>3. today'[w] = Day(now) /\ \A v \in Worker \ {w} : today'[v] = today[v]
    BY <1>t, <2>1
  <2>4. /\ Open(w)' /\ ~Rolled(w)'
        /\ \A v \in Worker \ {w} : Open(v)' = Open(v) /\ Rolled(v)' = Rolled(v) /\ pc'[v] = pc[v]
    BY <1>t, <2>1 DEF Open, Rolled
  <2>5. \A v \in Worker : Open(v)' => horizon <= today'[v] /\ today'[v] <= Day(now)
    BY <1>t, <1>n, <2>3, <2>4, SMT DEF PartitionInv
  <2>6. \A v, u \in Worker : Rolled(v)' /\ Open(u)' /\ ~Rolled(u)' => today'[v] <= today'[u]
    <3> SUFFICES ASSUME NEW v \in Worker, NEW u \in Worker,
                        Rolled(v)', Open(u)', ~Rolled(u)'
                 PROVE  today'[v] <= today'[u]
      OBVIOUS
    <3>1. v # w /\ Rolled(v) /\ Open(v)
      BY <2>4 DEF Rolled, Open
    <3>2. today'[v] = today[v] /\ today[v] <= Day(now)
      BY <2>3, <3>1 DEF PartitionInv
    <3>3. u # w => Open(u) /\ ~Rolled(u) /\ today'[u] = today[u]
      BY <2>3, <2>4
    <3> QED BY <2>3, <3>1, <3>2, <3>3 DEF PartitionInv
  <2>7. \A v \in Worker :
          pc'[v] \in {"dropped", "unlocked"} /\ Expired(today[v])' # {} => step = "begin"
    <3>1. \A v \in Worker \ {w} : Expired(today[v])' = Expired(today[v])
      BY <2>1, <2>3, Zenon DEF Expired
    <3>2. pc'[w] = "begun"
      BY <1>t, <2>1
    <3> QED BY <2>4, <3>1, <3>2 DEF PartitionInv
  <2> QED BY <1>t, <2>1, <2>2, <2>5, <2>6, <2>7, SMT DEF PartitionInv
<1>7. ASSUME NEW w \in Worker, Snapshot(w) PROVE PartitionInv' /\ horizon <= horizon'
  <2>1. /\ UNCHANGED <<clockVars, txVars, tableVars, horizon, today>>
        /\ pc' = [pc EXCEPT ![w] = "reading"] /\ pc[w] = "begun"
    BY <1>7 DEF Snapshot
  <2>2. \A v \in Worker : /\ pc'[v] = pc[v] \/ (v = w /\ pc'[w] = "reading")
    BY <1>t, <2>1
  <2> QED BY <1>p, <2>1, <2>2 DEF Open, Rolled, PartitionInv
<1>8. ASSUME NEW w \in Worker, RollUp(w) PROVE PartitionInv' /\ horizon <= horizon'
  <2>1. /\ UNCHANGED <<clockVars, txVars, tableVars, horizon, today>>
        /\ pc' = [pc EXCEPT ![w] = "rolled"] /\ pc[w] = "reading"
        /\ \A v \in Worker \ {w} : pc[v] \in {"idle", "begun", "reading"}
    BY <1>8 DEF RollUp
  <2>2. /\ pc'[w] = "rolled"
        /\ \A v \in Worker : v # w => pc'[v] = pc[v] /\ pc[v] = "idle"
    BY <1>t, <2>1 DEF RunsInv
  <2> QED BY <1>p, <2>1, <2>2 DEF Open, Rolled
<1>9. ASSUME NEW w \in Worker, AskForParent(w) \/ Unlock(w)
      PROVE  PartitionInv' /\ horizon <= horizon'
  <2>1. /\ UNCHANGED <<clockVars, txVars, tableVars, horizon, today>>
        /\ \/ pc' = [pc EXCEPT ![w] = "dropping"] /\ pc[w] = "rolled"
           \/ pc' = [pc EXCEPT ![w] = "unlocked"] /\ pc[w] = "dropped"
    BY <1>9 DEF AskForParent, Unlock
  <2>2. \A v \in Worker : \/ pc'[v] = pc[v]
                          \/ v = w /\ pc'[w] = "dropping" /\ pc[w] = "rolled"
                          \/ v = w /\ pc'[w] = "unlocked" /\ pc[w] = "dropped"
    BY <1>t, <2>1
  <2> QED BY <1>p, <2>1, <2>2 DEF Open, Rolled, PartitionInv
<1>10. ASSUME NEW w \in Worker, Drop(w) PROVE PartitionInv' /\ horizon <= horizon'
  <2>1. /\ UNCHANGED <<clockVars, txVars, tableVars, horizon, today>>
        /\ pc' = [pc EXCEPT ![w] = "dropped"] /\ pc[w] = "dropping"
        /\ Expired(today[w]) # {} => step = "begin"
    BY <1>10 DEF Drop, WaitsForBatch
  <2>2. \A v \in Worker : pc'[v] = pc[v] \/ (v = w /\ pc'[w] = "dropped" /\ pc[w] = "dropping")
    BY <1>t, <2>1
  <2> QED BY <1>p, <2>1, <2>2 DEF Open, Rolled, PartitionInv
<1>11. ASSUME NEW w \in Worker, RollBackRun(w) PROVE PartitionInv' /\ horizon <= horizon'
  <2>1. /\ UNCHANGED <<clockVars, txVars, tableVars, horizon, today>>
        /\ pc' = [pc EXCEPT ![w] = "idle"]
    BY <1>11 DEF RollBackRun, Finish
  <2>2. \A v \in Worker : pc'[v] = pc[v] \/ (v = w /\ pc'[w] = "idle")
    BY <1>t, <2>1
  <2> QED BY <1>p, <2>1, <2>2 DEF Open, Rolled, PartitionInv
<1>12. ASSUME NEW w \in Worker, CommitRun(w) PROVE PartitionInv' /\ horizon <= horizon'
  <2>1. /\ UNCHANGED <<now, received, stored, step, today>>
        /\ pc' = [pc EXCEPT ![w] = "idle"] /\ pc[w] = "unlocked"
        /\ partitions' = Kept(w) /\ horizon' = today[w]
        /\ samples' = {s \in samples : Day(MinuteOf(s)) \in Kept(w)}
    BY <1>12 DEF CommitRun, Finish, clockVars, txVars
  <2>2. Current' = Current /\ \A s : MinuteOf(s)' = MinuteOf(s)
    BY <2>1 DEF Current, MinuteOf
  <2>3. /\ Day(now)' = Day(now) /\ \A s : Day(MinuteOf(s))' = Day(MinuteOf(s))
        /\ Day(Current)' = Day(Current)
    BY <2>1, <2>2, Zenon DEF Day
  <2>4. horizon <= today[w] /\ today[w] <= Day(now) /\ today[w] \in Nat
    BY <1>t, <2>1 DEF PartitionInv, Open
  <2>5. \A v \in Worker : /\ Open(v)' => Open(v) /\ ~Rolled(v) /\ v # w
                          /\ ~Rolled(v)' /\ pc'[v] \notin {"dropped", "unlocked"}
    <3>1. Rolled(w) /\ \A v \in Worker : v # w => ~Rolled(v)
      BY <2>1 DEF Rolled, RunsInv
    <3>2. pc'[w] = "idle" /\ \A v \in Worker : v # w => pc'[v] = pc[v]
      BY <1>t, <2>1
    <3> QED BY <3>1, <3>2 DEF Open, Rolled
  <2>6. \A v \in Worker : Open(v)' => today[w] <= today[v] /\ today[v] <= Day(now)
    BY <2>1, <2>5 DEF PartitionInv, Rolled
  <2>7. \A d \in Kept(w) : today[w] - Retention <= d
    BY <1>t, <2>4, SettingsAssumption, SMT DEF Kept, Expired, Window
  <2>8. \A d \in (today[w] - Retention)..(today[w] + Ahead) : d \in Kept(w)
    BY <1>t, <2>4, SettingsAssumption, SMT DEF Kept, Expired, Window
  <2>9. step # "begin" => Day(Current) \in Kept(w)
    BY <2>1 DEF PartitionInv, Kept
  <2>10. /\ horizon' <= Day(now') /\ \A s \in samples' : Day(MinuteOf(s)) \in partitions'
         /\ \A v \in Worker : Open(v)' => horizon' <= today'[v] /\ today'[v] <= Day(now')
    BY <2>1, <2>3, <2>4, <2>6
  <2>11. /\ \A d \in partitions' : horizon' - Retention <= d
         /\ \A d \in (horizon' - Retention)..(horizon' + Ahead) : d \in partitions'
         /\ step' # "begin" => Day(Current)' \in partitions'
    BY <2>1, <2>3, <2>7, <2>8, <2>9
  <2> QED BY <1>t, <2>1, <2>3, <2>4, <2>5, <2>10, <2>11 DEF PartitionInv
<1>13. CASE Tick
  BY <1>0, <1>13 DEF Tick, txVars, jobVars, tableVars
<1>14. CASE UNCHANGED vars
  BY <1>0, <1>14 DEF vars, clockVars, txVars, jobVars, tableVars
<1> QED
  BY <1>1, <1>2, <1>3, <1>4, <1>5, <1>6, <1>7, <1>8, <1>9, <1>10, <1>11, <1>12, <1>13, <1>14
  DEF Next, Write, Run, AbortBatch, AbortRun, BreakDeadlock

\* What the statements of either party write; the other steps leave it alone.
dataVars == <<stored, txVars, samples, dirty, rollups, sees, deletes, upserts, horizon>>

\* The steps that touch tables, and all the others, which do not.
LEMMA Steps ==
  ASSUME TypeOK, [Next]_vars
  PROVE  \/ /\ UNCHANGED dataVars
            /\ \A w \in Worker : pc'[w] = "reading" => pc[w] = "reading"
         \/ InsertSample
         \/ Mark
         \/ CommitBatch
         \/ RollBackBatch
         \/ \E w \in Worker : Snapshot(w) \/ RollUp(w) \/ CommitRun(w) \/ RollBackRun(w)
<1>1. \A w \in Worker, c \in {"begun", "dropping", "dropped", "unlocked"} :
        pc' = [pc EXCEPT ![w] = c] =>
          \A v \in Worker : pc'[v] = "reading" => pc[v] = "reading"
  BY DEF TypeOK
<1> QED
  BY <1>1 DEF dataVars, Next, Write, Run, Receive, Begin, AskForParent, Drop, Unlock, AbortBatch,
     AbortRun, BreakDeadlock, Tick, vars, clockVars, txVars, tableVars, jobVars

\* However a run ends, it leaves nothing behind.
LEMMA RunEnds ==
  ASSUME TypeOK, NEW w \in Worker, CommitRun(w) \/ RollBackRun(w)
  PROVE  /\ UNCHANGED <<now, received, stored, step, inserted, marks>>
         /\ upserts'[w] = NoRows /\ deletes'[w] = {}
         /\ sees'[w].samples = {} /\ sees'[w].dirty = {} /\ pc'[w] = "idle"
         /\ \A v \in Worker : v # w =>
              /\ upserts'[v] = upserts[v] /\ deletes'[v] = deletes[v] /\ pc'[v] = pc[v]
              /\ sees'[v].samples = sees[v].samples
              /\ sees'[v].dirty = IF CommitRun(w) THEN sees[v].dirty \ deletes[w]
                                                  ELSE sees[v].dirty
<1>1. Finish(w)
  BY DEF CommitRun, RollBackRun
<1>2. /\ UNCHANGED <<now, received, stored, step, inserted, marks>>
      /\ upserts'[w] = NoRows /\ deletes'[w] = {} /\ pc'[w] = "idle"
      /\ \A v \in Worker : v # w =>
           upserts'[v] = upserts[v] /\ deletes'[v] = deletes[v] /\ pc'[v] = pc[v]
  BY <1>1 DEF Finish, clockVars, txVars, TypeOK
<1>3. CASE CommitRun(w)
  <2>1. sees' = [v \in Worker |-> IF v = w THEN NoSnapshot
                                  ELSE [sees[v] EXCEPT !.dirty = @ \ deletes[w]]]
    BY <1>3 DEF CommitRun
  <2>2. ASSUME NEW v \in Worker, v # w
        PROVE  /\ sees'[v].samples = sees[v].samples
               /\ sees'[v].dirty = sees[v].dirty \ deletes[w]
    <3>1. sees[v] \in [samples : SUBSET Sample, dirty : SUBSET Minute, before : Int]
      BY DEF TypeOK
    <3>2. sees'[v] = [sees[v] EXCEPT !.dirty = @ \ deletes[w]]
      BY <2>1, <2>2
    <3> QED BY <3>1, <3>2
  <2>3. sees'[w].samples = {} /\ sees'[w].dirty = {}
    BY <2>1 DEF NoSnapshot
  <2> QED BY <1>2, <1>3, <2>2, <2>3
<1>4. CASE RollBackRun(w) /\ ~CommitRun(w)
  <2>1. sees' = [sees EXCEPT ![w] = NoSnapshot] /\ DOMAIN sees = Worker
    BY <1>4 DEF RollBackRun, TypeOK
  <2>2. /\ sees'[w].samples = {} /\ sees'[w].dirty = {}
        /\ \A v \in Worker : v # w => sees'[v] = sees[v]
    BY <2>1 DEF NoSnapshot
  <2> QED BY <1>2, <1>4, <2>2
<1> QED BY <1>3, <1>4

\* What a run writes, and what it leaves alone.
LEMMA RollUpWrites ==
  ASSUME TypeOK, NEW w \in Worker, RollUp(w)
  PROVE  /\ UNCHANGED <<received, stored, step, inserted, marks, samples, dirty, rollups,
                        partitions, sees, horizon>>
         /\ upserts'[w] = Aggregated(w, Affected(w)) /\ deletes'[w] = Affected(w)
         /\ pc'[w] = "rolled" /\ pc[w] = "reading"
         /\ \A v \in Worker : v # w =>
              upserts'[v] = upserts[v] /\ deletes'[v] = deletes[v] /\ pc'[v] = pc[v]
BY DEF TypeOK, RollUp, clockVars, txVars, tableVars

\* A snapshot is of the committed tables.
LEMMA SnapshotTakes ==
  ASSUME TypeOK, NEW w \in Worker, Snapshot(w)
  PROVE  /\ UNCHANGED <<received, stored, step, inserted, marks, samples, dirty, rollups,
                        partitions, deletes, upserts, horizon>>
         /\ sees'[w].samples = samples /\ sees'[w].dirty = dirty
         /\ \A v \in Worker : v # w => sees'[v] = sees[v] /\ pc'[v] = pc[v]
         /\ pc[w] = "begun"
BY DEF TypeOK, Snapshot, clockVars, txVars, tableVars

-----------------------------------------------------------------------------
(* The history shows nothing twice. *)

\* What rows count is stored, and hidden where it is still there.
Honest(rows) ==
  \A m \in DOMAIN rows : \A s \in rows[m].counts :
    s[1] <= stored /\ (s \in samples => s \in rows[m].hides)

CountInv ==
  /\ Honest(rollups)
  /\ \A w \in Worker : Honest(upserts[w])
  /\ \A w \in Worker : \A s \in sees[w].samples : s[1] <= stored

\* Rows that count and hide committed samples still do when a batch commits.
LEMMA HonestKept ==
  ASSUME TypeOK, BatchInv, NEW rows, Rows(rows), Honest(rows)
  PROVE  /\ CommitBatch => \A m \in DOMAIN rows : \A s \in rows[m].counts :
              s[1] <= stored' /\ (s \in samples' => s \in rows[m].hides)
         /\ Honest(Unhide(rows))
<1>n. stored \in Nat /\ (\A s \in Sample : s[1] \in Nat)
  BY BoundsAssumption, SMT DEF TypeOK, Sample, Batch
<1>s. \A m \in DOMAIN rows : \A s \in rows[m].counts : s \in Sample /\ s \notin inserted
  <2>1. \A m \in DOMAIN rows : \A s \in rows[m].counts : s \in Sample /\ s[1] <= stored
    BY DEF Rows, Row, Honest
  <2>2. \A s \in Sample : s \in inserted => ~(s[1] <= stored)
    BY <1>n, SMT DEF BatchInv
  <2> QED BY <2>1, <2>2
<1>1. ASSUME CommitBatch, NEW m \in DOMAIN rows, NEW s \in rows[m].counts
      PROVE  s[1] <= stored' /\ (s \in samples' => s \in rows[m].hides)
  <2>1. stored' = stored + 1 /\ samples' = samples \cup inserted
    BY <1>1 DEF CommitBatch
  <2>2. s[1] <= stored' /\ s[1] <= stored
    BY <1>n, <1>s, <2>1, SMT DEF Honest
  <2> QED BY <1>s, <2>1, <2>2 DEF Honest
<1>2. Honest(Unhide(rows))
  <2> SUFFICES ASSUME NEW m \in DOMAIN rows, NEW s \in Unhide(rows)[m].counts
               PROVE  s[1] <= stored /\ (s \in samples => s \in Unhide(rows)[m].hides)
    BY DEF Honest, Unhide
  <2>1. rows[m] \in Row
    BY DEF Rows
  <2>2. Unhide(rows)[m].counts = rows[m].counts
        /\ Unhide(rows)[m].hides = rows[m].hides \ inserted
    BY <2>1 DEF Unhide, Row
  <2> QED BY <1>s, <2>2 DEF Honest
<1> QED BY <1>1, <1>2

\* No step makes a row count what is not committed.
LEMMA CountInvKept == TypeOK /\ BatchInv /\ CountInv /\ [Next]_vars => CountInv'
<1> SUFFICES ASSUME TypeOK, BatchInv, CountInv, [Next]_vars PROVE CountInv'
  OBVIOUS
<1>t. /\ stored \in Nat /\ DOMAIN upserts = Worker /\ Rows(rollups)
      /\ \A w \in Worker : Rows(upserts[w])
      /\ \A w \in Worker : sees[w].samples \subseteq Sample
      /\ \A s \in Sample : s[1] \in Nat
      /\ DOMAIN sees = Worker
  <2>1. stored \in Nat /\ \A s \in Sample : s[1] \in Nat
    BY BoundsAssumption, SMT DEF TypeOK, Sample, Batch
  <2> QED BY <2>1 DEF TypeOK
<1>0. CASE UNCHANGED dataVars
  BY <1>0 DEF dataVars, CountInv, Honest
<1>1. CASE InsertSample \/ Mark
  BY <1>1 DEF InsertSample, Mark, clockVars, tableVars, jobVars, CountInv, Honest
<1>2. CASE CommitBatch
  <2>1. /\ UNCHANGED <<rollups, sees, upserts>> /\ stored' = stored + 1
    BY <1>2 DEF CommitBatch, jobVars
  <2>2. \A w \in Worker : \A s \in sees'[w].samples : s[1] <= stored'
    BY <1>t, <2>1, SMT DEF CountInv
  <2>3. Honest(rollups)' /\ \A w \in Worker : Honest(upserts[w])'
    BY <1>2, <1>t, <2>1, HonestKept DEF CountInv, Honest
  <2> QED BY <2>2, <2>3 DEF CountInv
<1>3. CASE RollBackBatch
  <2>1. /\ UNCHANGED <<stored, samples, sees>> /\ rollups' = Unhide(rollups)
        /\ upserts' = [w \in Worker |-> Unhide(upserts[w])]
    BY <1>3 DEF RollBackBatch, clockVars
  <2>2. Honest(Unhide(rollups)) /\ \A w \in Worker : Honest(Unhide(upserts[w]))
    BY <1>t, HonestKept DEF CountInv
  <2>3. \A w \in Worker : upserts'[w] = Unhide(upserts[w])
    BY <2>1
  <2> QED BY <2>1, <2>2, <2>3 DEF CountInv, Honest
<1>4. ASSUME NEW w \in Worker, Snapshot(w) PROVE CountInv'
  <2>1. /\ UNCHANGED <<stored, samples, rollups, upserts>>
        /\ \A v \in Worker : sees'[v].samples = sees[v].samples \/ sees'[v].samples = samples
    BY <1>t, <1>4 DEF Snapshot, clockVars, tableVars
  <2> QED BY <2>1 DEF CountInv, Honest, BatchInv
<1>5. ASSUME NEW w \in Worker, RollUp(w) PROVE CountInv'
  <2>1. /\ UNCHANGED <<stored, samples, rollups, sees>>
        /\ upserts'[w] = Aggregated(w, Affected(w))
        /\ \A v \in Worker : v # w => upserts'[v] = upserts[v]
    BY <1>5, <1>t DEF RollUp, clockVars, tableVars
  <2>2. Honest(Aggregated(w, Affected(w)))
    BY DEF Honest, Aggregated, InMinute, CountInv
  <2> QED BY <2>1, <2>2 DEF CountInv, Honest
<1>6. ASSUME NEW w \in Worker, CommitRun(w) \/ RollBackRun(w) PROVE CountInv'
  <2>0. samples' \subseteq samples
    BY <1>6 DEF CommitRun, RollBackRun, tableVars
  <2>1. /\ stored' = stored /\ samples' \subseteq samples
        /\ \A v \in Worker : upserts'[v] = upserts[v] \/ upserts'[v] = NoRows
        /\ \A v \in Worker : sees'[v].samples = sees[v].samples \/ sees'[v].samples = {}
    BY <1>6, <2>0, RunEnds
  <2>2. \A m \in DOMAIN rollups' : \/ m \in DOMAIN rollups /\ rollups'[m] = rollups[m]
                                   \/ m \in DOMAIN upserts[w] /\ rollups'[m] = upserts[w][m]
    BY <1>6 DEF CommitRun, RollBackRun, tableVars
  <2>3. Honest(rollups)'
    BY <2>1, <2>2 DEF CountInv, Honest
  <2>4. \A v \in Worker : Honest(upserts[v])'
    BY <2>1, NoRowsTyped DEF CountInv, Honest
  <2> QED BY <2>1, <2>3, <2>4 DEF CountInv
<1> QED
  BY <1>0, <1>1, <1>2, <1>3, <1>4, <1>5, <1>6, Steps

-----------------------------------------------------------------------------
(* Markers. *)

\* A stored sample keeps its minute.
LEMMA StoredMinutes ==
  ASSUME TypeOK, [Next]_vars, NEW s \in Sample, s[1] <= stored
  PROVE  MinuteOf(s) \in Minute /\ MinuteOf(s)' = MinuteOf(s)
<1>1. s[1] <= Len(received)
  BY BoundsAssumption, SMT DEF TypeOK, Sample, Batch
<1> QED BY <1>1, MinuteTyped, MinuteKept

\* Only days behind the retention of the newest run are emptied.
LEMMA DaysGo ==
  ASSUME TypeOK, RunsInv, PartitionInv, BatchInv, [Next]_vars
  PROVE  /\ \A m \in Minute : Emptied(m) => Day(m) < horizon' - Retention
         /\ \A s \in samples : s \in samples' \/ Day(MinuteOf(s)) < horizon' - Retention
<1>1. horizon <= horizon' /\ horizon \in Int
  BY PartitionInvKept DEF TypeOK
<1>2. horizon' \in Int
  BY TypeOKKept DEF TypeOK
<1>3. \A m \in Minute : Day(m) \in Int
  BY DayTyped, BoundsAssumption, SMT DEF Minute
<1>4. \A m \in Minute : Emptied(m) => Day(m) < horizon' - Retention
  BY <1>1, <1>2, <1>3, SettingsAssumption, SMT DEF Emptied
<1>5. ASSUME NEW s \in samples, s \notin samples' PROVE Day(MinuteOf(s)) < horizon' - Retention
  <2>1. PICK w \in Worker : CommitRun(w)
    BY <1>5, Steps, RollUpWrites, SnapshotTakes
    DEF dataVars, InsertSample, Mark, CommitBatch, RollBackBatch, RollBackRun, tableVars
  <2>2. /\ samples' = {r \in samples : Day(MinuteOf(r)) \in Kept(w)} /\ horizon' = today[w]
    BY <2>1 DEF CommitRun
  <2>3. Day(MinuteOf(s)) \notin Kept(w) /\ Day(MinuteOf(s)) \in partitions
    BY <1>5, <2>2 DEF PartitionInv
  <2> QED BY <2>2, <2>3 DEF Kept, Expired
<1> QED BY <1>4, <1>5

\* A minute whose partition is gone has no sample, and no batch on the way.
LEMMA EmptiedEmpty ==
  ASSUME TypeOK, PartitionInv, NEW m \in Minute, Emptied(m)
  PROVE  /\ \A s \in samples : MinuteOf(s) # m
         /\ step # "begin" => Current # m
<1>1. Day(m) \in Int /\ horizon - Retention \in Int
  BY DayTyped, BoundsAssumption, SettingsAssumption, SMT DEF Minute, TypeOK
<1>2. Day(m) \notin partitions
  BY <1>1, SMT DEF PartitionInv, Emptied
<1> QED BY <1>2 DEF PartitionInv

\* A marker stands for a sample, until a run drops its partition.
MarkerInv ==
  /\ \A w \in Worker : sees[w].dirty \subseteq dirty
  /\ \A w \in Worker : deletes[w] \subseteq dirty /\ DOMAIN upserts[w] \subseteq deletes[w]
  /\ \A m \in dirty : Emptied(m) \/ \E s \in samples : MinuteOf(s) = m
  /\ \A w \in Worker : \A m \in sees[w].dirty :
       Emptied(m) \/ \E s \in sees[w].samples : MinuteOf(s) = m

\* No step leaves a marker without a sample it stands for.
LEMMA MarkerInvKept ==
  /\ TypeOK /\ RunsInv /\ PartitionInv /\ BatchInv /\ CountInv /\ MarkerInv
  /\ [Next]_vars
  => MarkerInv'
<1> SUFFICES ASSUME TypeOK, RunsInv, PartitionInv, BatchInv, CountInv, MarkerInv, [Next]_vars
             PROVE  MarkerInv'
  OBVIOUS
<1>t. /\ dirty \subseteq Minute /\ samples \subseteq Sample
      /\ \A w \in Worker : sees[w].samples \subseteq Sample /\ sees[w].dirty \subseteq Minute
      /\ DOMAIN upserts = Worker
  BY DEF TypeOK
<1>m. /\ \A s \in samples : MinuteOf(s)' = MinuteOf(s)
      /\ \A w \in Worker : \A s \in sees[w].samples : MinuteOf(s)' = MinuteOf(s)
  BY <1>t, StoredMinutes DEF BatchInv, CountInv
<1>g. \A m \in Minute : Emptied(m) => Emptied(m)'
  BY DaysGo DEF Emptied, Day
<1>s. \A s \in samples : s \in samples' \/ Emptied(MinuteOf(s))'
  BY DaysGo, <1>m DEF Emptied, Day
<1>d. \A m \in dirty : Emptied(m)' \/ \E s \in samples' : MinuteOf(s)' = m
  BY <1>t, <1>m, <1>g, <1>s DEF MarkerInv
<1>e. \A w \in Worker : \A m \in sees[w].dirty :
        Emptied(m)' \/ \E s \in sees[w].samples : MinuteOf(s)' = m
  BY <1>t, <1>m, <1>g DEF MarkerInv
<1>0. CASE UNCHANGED dataVars \/ InsertSample \/ Mark
  <2>1. UNCHANGED <<dirty, sees, deletes, upserts>>
    BY <1>0 DEF dataVars, InsertSample, Mark, tableVars, jobVars
  <2> QED BY <1>d, <1>e, <2>1 DEF MarkerInv
<1>1. CASE CommitBatch
  <2>1. /\ UNCHANGED <<sees, deletes, upserts, received>>
        /\ dirty' = dirty \cup marks /\ inserted \subseteq samples' /\ inserted # {}
    BY <1>1 DEF CommitBatch, jobVars, TypeOK
  <2>2. \A s \in inserted : MinuteOf(s)' = Current
    BY <1>1, <2>1 DEF BatchInv, MinuteOf, Current
  <2>3. \A m \in marks : \E s \in samples' : MinuteOf(s)' = m
    BY <2>1, <2>2 DEF BatchInv
  <2> QED BY <1>d, <1>e, <2>1, <2>3 DEF MarkerInv
<1>2. CASE RollBackBatch
  <2>1. /\ UNCHANGED <<dirty, sees, deletes>>
        /\ \A w \in Worker : DOMAIN upserts'[w] = DOMAIN upserts[w]
    BY <1>2 DEF RollBackBatch, Unhide
  <2> QED BY <1>d, <1>e, <2>1 DEF MarkerInv
<1>3. ASSUME NEW w \in Worker, Snapshot(w) PROVE MarkerInv'
  <2>1. /\ UNCHANGED <<samples, dirty, deletes, upserts>>
        /\ \A v \in Worker : \/ sees'[v] = sees[v]
                             \/ sees'[v].samples = samples /\ sees'[v].dirty = dirty
    BY <1>3, SnapshotTakes
  <2> QED BY <1>d, <1>e, <2>1 DEF MarkerInv
<1>4. ASSUME NEW w \in Worker, RollUp(w) PROVE MarkerInv'
  <2>1. Affected(w) \subseteq dirty /\ Affected(w) \subseteq Minute
    BY <1>t DEF Affected, MarkerInv
  <2>2. DOMAIN Aggregated(w, Affected(w)) \subseteq Affected(w)
    BY <2>1, AggregatedTyped
  <2>3. /\ UNCHANGED <<dirty, sees>>
        /\ \A v \in Worker : \/ deletes'[v] = deletes[v] /\ upserts'[v] = upserts[v]
                             \/ /\ deletes'[v] = Affected(w)
                                /\ upserts'[v] = Aggregated(w, Affected(w))
    BY <1>4, RollUpWrites
  <2>4. \A v \in Worker : deletes'[v] \subseteq dirty' /\ DOMAIN upserts'[v] \subseteq deletes'[v]
    BY <2>1, <2>2, <2>3 DEF MarkerInv
  <2> QED BY <1>d, <1>e, <2>3, <2>4 DEF MarkerInv
<1>5. ASSUME NEW w \in Worker, CommitRun(w) PROVE MarkerInv'
  <2>1. dirty' = dirty \ deletes[w] /\ Rolled(w)
    BY <1>5 DEF CommitRun, Rolled
  <2>2. \A v \in Worker : v # w => deletes'[v] = {} /\ DOMAIN upserts'[v] = {}
    BY <1>5, <2>1, RunEnds DEF RunsInv
  <2>3. deletes'[w] = {} /\ DOMAIN upserts'[w] = {}
    BY <1>5, RunEnds, NoRowsTyped
  <2>4. \A v \in Worker :
          \/ sees'[v].dirty = {}
          \/ sees'[v].dirty = sees[v].dirty \ deletes[w] /\ sees'[v].samples = sees[v].samples
    BY <1>5, RunEnds
  <2> QED BY <1>d, <1>e, <2>1, <2>2, <2>3, <2>4 DEF MarkerInv
<1>6. ASSUME NEW w \in Worker, RollBackRun(w), ~CommitRun(w) PROVE MarkerInv'
  <2>1. dirty' = dirty
    BY <1>6 DEF RollBackRun, tableVars
  <2>2. \A v \in Worker :
          \/ sees'[v].dirty = {}
          \/ sees'[v].dirty = sees[v].dirty /\ sees'[v].samples = sees[v].samples
    BY <1>6, RunEnds
  <2>3. \A v \in Worker :
          \/ deletes'[v] = {} /\ DOMAIN upserts'[v] = {}
          \/ deletes'[v] = deletes[v] /\ upserts'[v] = upserts[v]
    BY <1>6, RunEnds, NoRowsTyped
  <2> QED BY <1>d, <1>e, <2>1, <2>2, <2>3 DEF MarkerInv
<1> QED
  BY <1>0, <1>1, <1>2, <1>3, <1>4, <1>5, <1>6, Steps

-----------------------------------------------------------------------------
(* What the history shows on its own has a marker. *)

HidesIn(rows, s) == MinuteOf(s) \in DOMAIN rows /\ s \in rows[MinuteOf(s)].hides

\* A sample without a marker is hidden; one whose marker a run has deleted will
\* be when the run commits.  This is so for an uncommitted sample once the
\* collector has seen to its marker.
HideInv ==
  /\ \A s \in samples : HidesIn(rollups, s) \/ MinuteOf(s) \in dirty
  /\ step = "sample" =>
       \A s \in inserted : HidesIn(rollups, s) \/ MinuteOf(s) \in dirty \cup marks
  /\ \A w \in Worker : \A s \in samples :
       MinuteOf(s) \in deletes[w] => HidesIn(upserts[w], s)
  /\ step = "sample" =>
       \A w \in Worker : \A s \in inserted :
         MinuteOf(s) \in deletes[w] => HidesIn(upserts[w], s)

\* The rows of a run hide what was inserted when they were written.
LEMMA AggregatedHides ==
  ASSUME TypeOK, PartitionInv, BatchInv, MarkerInv, NEW w \in Worker,
         NEW s \in samples \cup inserted, MinuteOf(s) \in Affected(w)
  PROVE  HidesIn(Aggregated(w, Affected(w)), s)
<1>1. MinuteOf(s) \in sees[w].dirty /\ MinuteOf(s) \in Minute
  BY DEF Affected, TypeOK
<1>2. ~Emptied(MinuteOf(s))
  <2>1. s \in inserted => MinuteOf(s) = Current /\ step # "begin"
    BY DEF BatchInv, MinuteOf, Current, TypeOK
  <2> QED BY <1>1, <2>1, EmptiedEmpty
<1>3. InMinute(sees[w].samples, MinuteOf(s)) # {}
  BY <1>1, <1>2 DEF MarkerInv, InMinute
<1>4. /\ MinuteOf(s) \in DOMAIN Aggregated(w, Affected(w))
      /\ Aggregated(w, Affected(w))[MinuteOf(s)].hides
           = InMinute(samples \cup inserted, MinuteOf(s))
  BY <1>3 DEF Aggregated
<1> QED BY <1>4 DEF HidesIn, InMinute

\* A hidden sample that stays in the table stays hidden.
LEMMA UnhideHides ==
  ASSUME NEW rows, Rows(rows), NEW s \in samples, s \notin inserted, HidesIn(rows, s)
  PROVE  HidesIn(Unhide(rows), s)
<1>1. rows[MinuteOf(s)] \in Row /\ MinuteOf(s) \in DOMAIN rows
  BY DEF HidesIn, Rows
<1>2. Unhide(rows)[MinuteOf(s)].hides = rows[MinuteOf(s)].hides \ inserted
  BY <1>1 DEF Unhide, Row
<1> QED BY <1>1, <1>2 DEF HidesIn, Unhide

\* No step shows a sample alone that nobody will count.
LEMMA HideInvKept ==
  /\ TypeOK /\ RunsInv /\ PartitionInv /\ BatchInv /\ CountInv /\ MarkerInv /\ HideInv
  /\ [Next]_vars
  => HideInv'
<1> SUFFICES ASSUME TypeOK, RunsInv, PartitionInv, BatchInv, CountInv, MarkerInv, HideInv,
                    [Next]_vars
             PROVE  HideInv'
  OBVIOUS
<1>t. /\ samples \subseteq Sample /\ inserted \subseteq Sample /\ DOMAIN upserts = Worker
      /\ Rows(rollups) /\ \A w \in Worker : Rows(upserts[w])
      /\ (step = "begin" <=> inserted = {})
  BY DEF TypeOK
<1>i. \A s \in inserted : MinuteOf(s) = Current /\ s \notin samples
  <2>1. \A s \in inserted : s[1] = stored + 1 /\ (s \in samples => s[1] <= stored)
    BY DEF BatchInv
  <2>2. stored \in Nat
    BY BoundsAssumption, SMT DEF TypeOK
  <2>3. \A s \in inserted : s \notin samples
    BY <2>1, <2>2, SMT
  <2> QED BY <2>1, <2>3 DEF MinuteOf, Current
<1>m. /\ \A s \in samples : MinuteOf(s)' = MinuteOf(s)
      /\ step # "begin" => \A s \in inserted : MinuteOf(s)' = MinuteOf(s)
  <2>1. \A s \in samples : MinuteOf(s)' = MinuteOf(s)
    BY <1>t, StoredMinutes DEF BatchInv
  <2>2. step # "begin" => \A s \in inserted : s \in Sample /\ s[1] <= Len(received)
    BY <1>t, BoundsAssumption, SMT DEF BatchInv, TypeOK, Pending
  <2> QED BY <2>1, <2>2, MinuteKept
<1>0. CASE UNCHANGED dataVars
  <2>1. UNCHANGED <<step, inserted, marks, samples, dirty, rollups, deletes, upserts>>
    BY <1>0 DEF dataVars, txVars
  <2> QED BY <1>m, <2>1 DEF HideInv, HidesIn
<1>1. CASE InsertSample
  <2>1. /\ UNCHANGED <<samples, dirty, rollups, deletes, upserts>> /\ step' = "marker"
    BY <1>1 DEF InsertSample, tableVars, jobVars
  <2> QED BY <1>m, <2>1 DEF HideInv, HidesIn
<1>2. CASE Mark
  <2>1. /\ UNCHANGED <<inserted, samples, dirty, rollups, deletes, upserts>>
        /\ step = "marker"
        /\ \A w \in Worker : ~WaitsFor(w)
        /\ marks' = IF Conflicts THEN marks ELSE {Current}
    BY <1>2 DEF Mark, tableVars, jobVars
  <2>2. Current \in dirty' \cup marks'
    BY <2>1 DEF Conflicts
  <2>3. \A w \in Worker : Current \notin deletes[w]
    BY <2>1 DEF WaitsFor, BatchInv, MarkerInv
  <2>4. \A s \in inserted : MinuteOf(s)' = Current
    BY <1>i, <1>m, <2>1
  <2> QED BY <1>m, <2>1, <2>2, <2>3, <2>4 DEF HideInv, HidesIn
<1>3. CASE CommitBatch
  <2>1. /\ UNCHANGED <<rollups, deletes, upserts>> /\ step = "sample" /\ step' = "begin"
        /\ samples' = samples \cup inserted /\ dirty' = dirty \cup marks
    BY <1>3 DEF CommitBatch, jobVars
  <2> QED BY <1>m, <2>1 DEF HideInv, HidesIn
<1>4. CASE RollBackBatch
  <2>1. /\ UNCHANGED <<samples, dirty, deletes>> /\ step' = "begin"
        /\ rollups' = Unhide(rollups) /\ \A w \in Worker : upserts'[w] = Unhide(upserts[w])
    BY <1>4 DEF RollBackBatch
  <2>2. \A s \in samples : HidesIn(rollups, s) => HidesIn(Unhide(rollups), s)
    BY <1>t, <1>i, UnhideHides
  <2>3. \A s \in samples : \A w \in Worker :
          HidesIn(upserts[w], s) => HidesIn(Unhide(upserts[w]), s)
    BY <1>t, <1>i, UnhideHides
  <2> QED BY <1>m, <2>1, <2>2, <2>3 DEF HideInv, HidesIn
<1>5. ASSUME NEW w \in Worker, Snapshot(w) PROVE HideInv'
  <2>1. UNCHANGED <<step, inserted, marks, samples, dirty, rollups, deletes, upserts>>
    BY <1>5, SnapshotTakes
  <2> QED BY <1>m, <2>1 DEF HideInv, HidesIn
<1>6. ASSUME NEW w \in Worker, RollUp(w) PROVE HideInv'
  <2>1. /\ UNCHANGED <<step, inserted, marks, samples, dirty, rollups>>
        /\ \A v \in Worker : \/ deletes'[v] = deletes[v] /\ upserts'[v] = upserts[v]
                             \/ /\ deletes'[v] = Affected(w)
                                /\ upserts'[v] = Aggregated(w, Affected(w))
    BY <1>6, RollUpWrites
  <2>2. \A s \in samples \cup inserted :
          MinuteOf(s) \in Affected(w) => HidesIn(Aggregated(w, Affected(w)), s)
    BY AggregatedHides
  <2>3. step # "begin" <=> inserted # {}
    BY <1>t
  <2> QED BY <1>m, <2>1, <2>2, <2>3 DEF HideInv, HidesIn
<1>7. ASSUME NEW w \in Worker, CommitRun(w) PROVE HideInv'
  <2>1. /\ UNCHANGED <<step, inserted, marks>> /\ samples' \subseteq samples
        /\ dirty' = dirty \ deletes[w] /\ Rolled(w)
        /\ rollups' = [m \in DOMAIN rollups \cup DOMAIN upserts[w] |->
                         IF m \in DOMAIN upserts[w] THEN upserts[w][m] ELSE rollups[m]]
    BY <1>7, RunEnds DEF CommitRun, Rolled
  <2>2. \A v \in Worker : deletes'[v] = {}
    BY <1>7, <2>1, RunEnds DEF RunsInv
  <2>3. DOMAIN upserts[w] \subseteq deletes[w]
    BY DEF MarkerInv
  <2>4. \A m \in DOMAIN upserts[w] : m \in DOMAIN rollups' /\ rollups'[m] = upserts[w][m]
    BY <2>1
  <2>5. \A m \in DOMAIN rollups : m \notin deletes[w] =>
          m \in DOMAIN rollups' /\ rollups'[m] = rollups[m]
    BY <2>1, <2>3
  <2>6. ASSUME NEW s \in samples, s \in samples'
        PROVE  HidesIn(rollups, s)' \/ MinuteOf(s)' \in dirty'
    BY <1>m, <2>1, <2>4, <2>5, <2>6 DEF HideInv, HidesIn
  <2>7. ASSUME step = "sample", NEW s \in inserted
        PROVE  HidesIn(rollups, s)' \/ MinuteOf(s)' \in dirty' \cup marks'
    BY <1>m, <2>1, <2>4, <2>5, <2>7 DEF HideInv, HidesIn
  <2> QED BY <2>1, <2>2, <2>6, <2>7 DEF HideInv
<1>8. ASSUME NEW w \in Worker, RollBackRun(w) PROVE HideInv'
  <2>1. /\ UNCHANGED <<step, inserted, marks, samples, dirty, rollups>>
        /\ \A v \in Worker : \/ deletes'[v] = deletes[v] /\ upserts'[v] = upserts[v]
                             \/ deletes'[v] = {}
    BY <1>8, RunEnds DEF RollBackRun, tableVars
  <2> QED BY <1>m, <2>1, <1>t DEF HideInv, HidesIn
<1> QED
  BY <1>0, <1>1, <1>2, <1>3, <1>4, <1>5, <1>6, <1>7, <1>8, Steps

-----------------------------------------------------------------------------
(* Rollups grow. *)

\* A row counts samples of its own minute; they are all there, or their
\* partition is gone.
Faithful(rows) ==
  \A m \in DOMAIN rows : \A s \in rows[m].counts :
    MinuteOf(s) = m /\ (s \in samples \/ Emptied(m))

\* A snapshot with a sample of a minute has all that the rows count for it.
Covers(w, rows) ==
  \A m \in DOMAIN rows :
    (\E s \in sees[w].samples : MinuteOf(s) = m) => rows[m].counts \subseteq sees[w].samples

GrowInv ==
  /\ Faithful(rollups)
  /\ \A w \in Worker : Faithful(upserts[w])
  /\ \A w \in Worker : \A s \in sees[w].samples : s \in samples \/ Emptied(MinuteOf(s))
  /\ \A w \in Worker : pc[w] = "reading" =>
       Covers(w, rollups) /\ \A v \in Worker : Covers(w, upserts[v])
  /\ \A w \in Worker : \A m \in DOMAIN rollups \cap DOMAIN upserts[w] :
       rollups[m].counts \subseteq upserts[w][m].counts

\* Hiding less does not count less.
LEMMA UnhideCounts ==
  ASSUME NEW rows, Rows(rows)
  PROVE  /\ DOMAIN Unhide(rows) = DOMAIN rows
         /\ \A m \in DOMAIN rows : Unhide(rows)[m].counts = rows[m].counts
<1>1. \A m \in DOMAIN rows : rows[m] \in Row
  BY DEF Rows
<1> QED BY <1>1 DEF Unhide, Row

\* No step takes from a row or a snapshot what it has counted.
LEMMA GrowInvKept ==
  /\ TypeOK /\ RunsInv /\ PartitionInv /\ BatchInv /\ CountInv /\ GrowInv
  /\ [Next]_vars
  => GrowInv'
<1> SUFFICES ASSUME TypeOK, RunsInv, PartitionInv, BatchInv, CountInv, GrowInv, [Next]_vars
             PROVE  GrowInv'
  OBVIOUS
<1>t. /\ samples \subseteq Sample /\ DOMAIN upserts = Worker
      /\ Rows(rollups) /\ \A w \in Worker : Rows(upserts[w])
      /\ \A w \in Worker : sees[w].samples \subseteq Sample
  BY DEF TypeOK
<1>c. \A s \in Sample : s[1] <= stored => MinuteOf(s)' = MinuteOf(s) /\ MinuteOf(s) \in Minute
  BY StoredMinutes
<1>m. /\ \A s \in samples : MinuteOf(s)' = MinuteOf(s)
      /\ \A w \in Worker : \A s \in sees[w].samples :
           MinuteOf(s)' = MinuteOf(s) /\ MinuteOf(s) \in Minute
  BY <1>t, <1>c DEF BatchInv, CountInv
<1>n. /\ \A m \in DOMAIN rollups : m \in Minute /\ \A s \in rollups[m].counts :
           MinuteOf(s)' = MinuteOf(s)
      /\ \A w \in Worker : \A m \in DOMAIN upserts[w] :
           m \in Minute /\ \A s \in upserts[w][m].counts : MinuteOf(s)' = MinuteOf(s)
  <2>1. /\ \A m \in DOMAIN rollups : m \in Minute /\ \A s \in rollups[m].counts :
             s \in Sample /\ s[1] <= stored
        /\ \A w \in Worker : \A m \in DOMAIN upserts[w] :
             m \in Minute /\ \A s \in upserts[w][m].counts : s \in Sample /\ s[1] <= stored
    BY <1>t DEF CountInv, Honest, Rows, Row
  <2> QED BY <1>c, <2>1
<1>g. \A m \in Minute : Emptied(m) => Emptied(m)'
  BY DaysGo DEF Emptied, Day
<1>s. \A s \in samples : s \in samples' \/ Emptied(MinuteOf(s))'
  BY DaysGo, <1>m DEF Emptied, Day
<1>r. /\ \A m \in DOMAIN rollups : \A s \in rollups[m].counts :
           MinuteOf(s)' = m /\ (s \in samples' \/ Emptied(m)')
      /\ \A w \in Worker : \A m \in DOMAIN upserts[w] : \A s \in upserts[w][m].counts :
           MinuteOf(s)' = m /\ (s \in samples' \/ Emptied(m)')
  <2>1. \A m \in DOMAIN rollups : \A s \in rollups[m].counts :
          MinuteOf(s)' = m /\ (s \in samples' \/ Emptied(m)')
    <3> SUFFICES ASSUME NEW m \in DOMAIN rollups, NEW s \in rollups[m].counts
                 PROVE  MinuteOf(s)' = m /\ (s \in samples' \/ Emptied(m)')
      OBVIOUS
    <3>1. MinuteOf(s) = m /\ MinuteOf(s)' = m /\ (s \in samples \/ Emptied(m))
      BY <1>n DEF GrowInv, Faithful
    <3> QED BY <1>n, <1>g, <1>s, <3>1
  <2>2. \A w \in Worker : \A m \in DOMAIN upserts[w] : \A s \in upserts[w][m].counts :
          MinuteOf(s)' = m /\ (s \in samples' \/ Emptied(m)')
    <3> SUFFICES ASSUME NEW w \in Worker, NEW m \in DOMAIN upserts[w],
                        NEW s \in upserts[w][m].counts
                 PROVE  MinuteOf(s)' = m /\ (s \in samples' \/ Emptied(m)')
      OBVIOUS
    <3>1. MinuteOf(s) = m /\ MinuteOf(s)' = m /\ (s \in samples \/ Emptied(m))
      BY <1>n DEF GrowInv, Faithful
    <3> QED BY <1>n, <1>g, <1>s, <3>1
  <2> QED BY <2>1, <2>2
<1>v. \A w \in Worker : \A s \in sees[w].samples : s \in samples' \/ Emptied(MinuteOf(s))'
  <2> SUFFICES ASSUME NEW w \in Worker, NEW s \in sees[w].samples
               PROVE  s \in samples' \/ Emptied(MinuteOf(s))'
    OBVIOUS
  <2>1. s \in samples \/ Emptied(MinuteOf(s))
    BY DEF GrowInv
  <2>2. Emptied(MinuteOf(s)) => Emptied(MinuteOf(s))'
    BY <1>m, <1>g DEF Emptied, Day
  <2> QED BY <1>s, <2>1, <2>2
<1>0. ASSUME UNCHANGED sees, DOMAIN rollups' = DOMAIN rollups,
             \A m \in DOMAIN rollups : rollups'[m].counts = rollups[m].counts,
             \A w \in Worker : /\ DOMAIN upserts'[w] = DOMAIN upserts[w]
                               /\ \A m \in DOMAIN upserts[w] :
                                    upserts'[w][m].counts = upserts[w][m].counts,
             \A w \in Worker : pc'[w] = "reading" => pc[w] = "reading"
      PROVE  GrowInv'
  <2>1. Faithful(rollups)' /\ \A w \in Worker : Faithful(upserts[w])'
    BY <1>0, <1>r DEF Faithful
  <2>2. \A w \in Worker : pc'[w] = "reading" =>
          Covers(w, rollups)' /\ \A v \in Worker : Covers(w, upserts[v])'
    BY <1>0, <1>m DEF GrowInv, Covers
  <2>3. \A w \in Worker : \A m \in DOMAIN rollups' \cap DOMAIN upserts'[w] :
          rollups'[m].counts \subseteq upserts'[w][m].counts
    BY <1>0 DEF GrowInv
  <2>4. \A w \in Worker : \A s \in sees'[w].samples : s \in samples' \/ Emptied(MinuteOf(s))'
    BY <1>0, <1>v
  <2> QED BY <2>1, <2>2, <2>3, <2>4 DEF GrowInv
<1>1. CASE UNCHANGED dataVars /\ \A w \in Worker : pc'[w] = "reading" => pc[w] = "reading"
  BY <1>0, <1>1 DEF dataVars
<1>2. CASE InsertSample \/ Mark \/ CommitBatch
  <2>1. UNCHANGED <<sees, rollups, upserts, pc>>
    BY <1>2 DEF InsertSample, Mark, CommitBatch, tableVars, jobVars
  <2> QED BY <1>0, <2>1
<1>3. CASE RollBackBatch
  <2>1. /\ UNCHANGED <<sees, pc>> /\ rollups' = Unhide(rollups)
        /\ \A w \in Worker : upserts'[w] = Unhide(upserts[w])
    BY <1>3 DEF RollBackBatch
  <2> QED BY <1>0, <1>t, <2>1, UnhideCounts

<1>4. ASSUME NEW w \in Worker, Snapshot(w) PROVE GrowInv'
  <2>1. /\ UNCHANGED <<samples, rollups, upserts>> /\ sees'[w].samples = samples
        /\ \A v \in Worker : v # w => sees'[v] = sees[v] /\ pc'[v] = pc[v]
    BY <1>4, SnapshotTakes
  <2>2. Faithful(rollups)' /\ \A v \in Worker : Faithful(upserts[v])'
    BY <1>r, <2>1 DEF Faithful
  <2>3. \A m \in Minute : (\E s \in samples : MinuteOf(s) = m) => ~Emptied(m)
    BY EmptiedEmpty
  <2>4. Covers(w, rollups)' /\ \A v \in Worker : Covers(w, upserts[v])'
    <3>1. ASSUME NEW m \in Minute, \E s \in sees'[w].samples : MinuteOf(s)' = m
          PROVE  ~Emptied(m)
      BY <1>m, <2>1, <2>3, <3>1
    <3> QED BY <1>n, <2>1, <3>1 DEF GrowInv, Faithful, Covers
  <2>5. \A v \in Worker \ {w} : pc'[v] = "reading" =>
          Covers(v, rollups)' /\ \A u \in Worker : Covers(v, upserts[u])'
    BY <1>m, <2>1 DEF GrowInv, Covers
  <2>6. \A v \in Worker : \A s \in sees'[v].samples : s \in samples' \/ Emptied(MinuteOf(s))'
    BY <1>v, <2>1
  <2>7. \A v \in Worker : \A m \in DOMAIN rollups' \cap DOMAIN upserts'[v] :
          rollups'[m].counts \subseteq upserts'[v][m].counts
    BY <2>1 DEF GrowInv
  <2> QED BY <2>2, <2>4, <2>5, <2>6, <2>7 DEF GrowInv
<1>5. ASSUME NEW w \in Worker, RollUp(w) PROVE GrowInv'
  <2> DEFINE A == Aggregated(w, Affected(w))
  <2>1. /\ UNCHANGED <<samples, rollups, sees>> /\ upserts'[w] = A
        /\ pc'[w] = "rolled" /\ pc[w] = "reading"
        /\ \A v \in Worker : v # w => upserts'[v] = upserts[v] /\ pc'[v] = pc[v]
    BY <1>5, RollUpWrites
  <2>2. /\ DOMAIN A \subseteq Minute
        /\ \A m \in DOMAIN A : A[m].counts = InMinute(sees[w].samples, m)
    <3>1. Affected(w) \subseteq Minute
      BY DEF Affected, TypeOK
    <3> QED BY <3>1, AggregatedTyped DEF Aggregated
  <2> HIDE DEF A
  <2>3. \A m \in DOMAIN A : \A s \in A[m].counts :
          MinuteOf(s)' = m /\ (s \in samples' \/ Emptied(m)')
    <3> SUFFICES ASSUME NEW m \in DOMAIN A, NEW s \in A[m].counts
                 PROVE  MinuteOf(s)' = m /\ (s \in samples' \/ Emptied(m)')
      OBVIOUS
    <3>1. s \in sees[w].samples /\ MinuteOf(s) = m
      BY <2>2 DEF InMinute
    <3>2. MinuteOf(s)' = m
      BY <1>m, <3>1
    <3>3. s \in samples \/ Emptied(m)
      BY <3>1 DEF GrowInv
    <3> QED BY <1>g, <1>s, <2>2, <3>1, <3>2, <3>3
  <2>4. Faithful(rollups)' /\ \A v \in Worker : Faithful(upserts[v])'
    <3>1. Faithful(rollups)'
      BY <1>r, <2>1 DEF Faithful
    <3>2. Faithful(upserts[w])'
      BY <2>1, <2>3 DEF Faithful
    <3>3. \A v \in Worker : v # w => Faithful(upserts[v])'
      BY <1>r, <2>1 DEF Faithful
    <3> QED BY <3>1, <3>2, <3>3
  <2>5. \A v \in Worker : pc'[v] # "reading"
    BY <2>1 DEF RunsInv
  <2>6. \A v \in Worker : \A s \in sees'[v].samples : s \in samples' \/ Emptied(MinuteOf(s))'
    BY <1>v, <2>1
  <2>7. \A m \in DOMAIN rollups' \cap DOMAIN A : rollups'[m].counts \subseteq A[m].counts
    <3> SUFFICES ASSUME NEW m \in DOMAIN rollups, m \in DOMAIN A
                 PROVE  rollups[m].counts \subseteq A[m].counts
      BY <2>1
    <3>1. \E s \in sees[w].samples : MinuteOf(s) = m
      BY DEF A, Aggregated, InMinute
    <3>2. rollups[m].counts \subseteq sees[w].samples
      BY <2>1, <3>1 DEF GrowInv, Covers
    <3>3. \A s \in rollups[m].counts : MinuteOf(s) = m
      BY DEF GrowInv, Faithful
    <3> QED BY <2>2, <3>2, <3>3 DEF InMinute
  <2>8. \A v \in Worker : \A m \in DOMAIN rollups' \cap DOMAIN upserts'[v] :
          rollups'[m].counts \subseteq upserts'[v][m].counts
    BY <2>1, <2>7 DEF GrowInv
  <2> QED BY <2>4, <2>5, <2>6, <2>8 DEF GrowInv
<1>6. ASSUME NEW w \in Worker, CommitRun(w) \/ RollBackRun(w) PROVE GrowInv'
  <2>1. /\ upserts'[w] = NoRows /\ sees'[w].samples = {} /\ pc'[w] = "idle"
        /\ \A v \in Worker : v # w =>
             upserts'[v] = upserts[v] /\ sees'[v].samples = sees[v].samples /\ pc'[v] = pc[v]
    BY <1>6, RunEnds
  <2>2. \A m \in DOMAIN rollups' : \/ m \in DOMAIN rollups /\ rollups'[m] = rollups[m]
                                   \/ m \in DOMAIN upserts[w] /\ rollups'[m] = upserts[w][m]
    BY <1>6 DEF CommitRun, RollBackRun, tableVars
  <2>3. \A v \in Worker : v # w => \/ rollups' = rollups
                                   \/ DOMAIN upserts[v] = {}
    BY <1>6 DEF CommitRun, RollBackRun, tableVars, Rolled, RunsInv
  <2>4. Faithful(rollups)'
    BY <1>r, <2>2 DEF Faithful
  <2>5. \A v \in Worker : Faithful(upserts[v])'
    BY <1>r, <2>1, NoRowsTyped DEF Faithful
  <2>6. \A v \in Worker : \A s \in sees'[v].samples : s \in samples' \/ Emptied(MinuteOf(s))'
    BY <1>v, <2>1
  <2>7. \A v \in Worker : pc'[v] = "reading" =>
          Covers(v, rollups)' /\ \A u \in Worker : Covers(v, upserts[u])'
    <3> SUFFICES ASSUME NEW v \in Worker, pc'[v] = "reading"
                 PROVE  Covers(v, rollups)' /\ \A u \in Worker : Covers(v, upserts[u])'
      OBVIOUS
    <3>1. v # w /\ pc[v] = "reading" /\ sees'[v].samples = sees[v].samples
      BY <2>1
    <3>2. Covers(v, rollups) /\ \A u \in Worker : Covers(v, upserts[u])
      BY <3>1 DEF GrowInv
    <3>3. Covers(v, rollups)'
      BY <1>m, <2>2, <3>1, <3>2 DEF Covers
    <3>4. \A u \in Worker : Covers(v, upserts[u])'
      BY <1>m, <2>1, <3>1, <3>2, NoRowsTyped DEF Covers
    <3> QED BY <3>3, <3>4
  <2>8. \A v \in Worker : \A m \in DOMAIN rollups' \cap DOMAIN upserts'[v] :
          rollups'[m].counts \subseteq upserts'[v][m].counts
    BY <2>1, <2>3, NoRowsTyped DEF GrowInv
  <2> QED BY <2>4, <2>5, <2>6, <2>7, <2>8 DEF GrowInv
<1> QED
  BY <1>1, <1>2, <1>3, <1>4, <1>5, <1>6, Steps

-----------------------------------------------------------------------------
(* What is counted when a marker goes. *)

CountsIn(rows, s) == MinuteOf(s) \in DOMAIN rows /\ s \in rows[MinuteOf(s)].counts

\* A run that deletes a marker counts the samples of the minute that it saw.
SeenInv ==
  \A w \in Worker : \A s \in sees[w].samples :
    MinuteOf(s) \in deletes[w] => CountsIn(upserts[w], s)

\* A run's rows count what it saw of their minutes.
LEMMA AggregatedCounts ==
  ASSUME NEW w \in Worker, NEW minutes, NEW s \in sees[w].samples, MinuteOf(s) \in minutes
  PROVE  CountsIn(Aggregated(w, minutes), s)
<1>1. s \in InMinute(sees[w].samples, MinuteOf(s))
  BY DEF InMinute
<1>2. /\ MinuteOf(s) \in DOMAIN Aggregated(w, minutes)
      /\ Aggregated(w, minutes)[MinuteOf(s)].counts = InMinute(sees[w].samples, MinuteOf(s))
  BY <1>1 DEF Aggregated
<1> QED BY <1>1, <1>2 DEF CountsIn

\* Samples keep their minutes, and a rollback takes none out of a row's counts.
LEMMA SeenInvKept ==
  TypeOK /\ RunsInv /\ CountInv /\ SeenInv /\ [Next]_vars => SeenInv'
<1> SUFFICES ASSUME TypeOK, RunsInv, CountInv, SeenInv, [Next]_vars PROVE SeenInv'
  OBVIOUS
<1>t. /\ \A w \in Worker : Rows(upserts[w])
      /\ \A w \in Worker : sees[w].samples \subseteq Sample
  BY DEF TypeOK
<1>m. \A w \in Worker : \A s \in sees[w].samples : MinuteOf(s)' = MinuteOf(s)
  BY <1>t, StoredMinutes DEF CountInv
<1>0. ASSUME UNCHANGED <<sees, deletes>>,
             \A w \in Worker : \A s \in sees[w].samples :
               CountsIn(upserts[w], s) =>
                 MinuteOf(s) \in DOMAIN upserts'[w] /\ s \in upserts'[w][MinuteOf(s)].counts
      PROVE  SeenInv'
  BY <1>0, <1>m DEF SeenInv, CountsIn
<1>1. CASE UNCHANGED <<sees, deletes, upserts>>
  BY <1>0, <1>1 DEF CountsIn
<1>2. CASE UNCHANGED dataVars \/ InsertSample \/ Mark \/ CommitBatch
  BY <1>1, <1>2 DEF dataVars, InsertSample, Mark, CommitBatch, jobVars
<1>3. CASE RollBackBatch
  <2>1. UNCHANGED <<sees, deletes>> /\ \A w \in Worker : upserts'[w] = Unhide(upserts[w])
    BY <1>3 DEF RollBackBatch
  <2>2. \A w \in Worker :
          /\ DOMAIN Unhide(upserts[w]) = DOMAIN upserts[w]
          /\ \A m \in DOMAIN upserts[w] : Unhide(upserts[w])[m].counts = upserts[w][m].counts
    BY <1>t, UnhideCounts
  <2> QED BY <1>0, <2>1, <2>2 DEF CountsIn
<1>4. ASSUME NEW w \in Worker, Snapshot(w) PROVE SeenInv'
  <2>1. /\ UNCHANGED <<deletes, upserts>> /\ \A v \in Worker : v # w => sees'[v] = sees[v]
        /\ deletes[w] = {}
    BY <1>4, SnapshotTakes DEF RunsInv, Rolled
  <2> QED BY <1>m, <2>1 DEF SeenInv, CountsIn
<1>5. ASSUME NEW w \in Worker, RollUp(w) PROVE SeenInv'
  <2>1. /\ UNCHANGED sees
        /\ upserts'[w] = Aggregated(w, Affected(w)) /\ deletes'[w] = Affected(w)
        /\ \A v \in Worker : v # w => upserts'[v] = upserts[v] /\ deletes'[v] = deletes[v]
    BY <1>5, RollUpWrites
  <2>2. \A s \in sees[w].samples :
          MinuteOf(s) \in Affected(w) => CountsIn(Aggregated(w, Affected(w)), s)
    BY AggregatedCounts
  <2> QED BY <1>m, <2>1, <2>2 DEF SeenInv, CountsIn
<1>6. ASSUME NEW w \in Worker, CommitRun(w) \/ RollBackRun(w) PROVE SeenInv'
  <2>1. /\ sees'[w].samples = {}
        /\ \A v \in Worker : v # w =>
             /\ upserts'[v] = upserts[v] /\ deletes'[v] = deletes[v]
             /\ sees'[v].samples = sees[v].samples
    BY <1>6, RunEnds
  <2> QED BY <1>m, <2>1 DEF SeenInv, CountsIn
<1> QED BY <1>2, <1>3, <1>4, <1>5, <1>6, Steps

-----------------------------------------------------------------------------
(* Results. *)

SafeInv ==
  /\ TypeOK /\ RunsInv /\ PartitionInv /\ BatchInv
  /\ CountInv /\ MarkerInv /\ HideInv /\ GrowInv /\ SeenInv

\* The initial state satisfies the whole invariant.
LEMMA SafeInvStarts == Init => SafeInv
<1> SUFFICES ASSUME Init PROVE SafeInv
  OBVIOUS
<1>1. TypeOK
  BY TypeOKStarts
<1>2. RunsInv
  BY NoRowsTyped DEF Init, RunsInv, Rolled
<1>3. PartitionInv
  <2>1. Day(now) = 0
    BY SettingsAssumption, SMT DEF Init, Day
  <2>2. horizon = 0 /\ partitions = (-Retention)..Ahead /\ \A w \in Worker : ~Open(w)
    BY DEF Init, Open
  <2>3. /\ \A d \in partitions : horizon - Retention <= d
        /\ \A d \in (horizon - Retention)..(horizon + Ahead) : d \in partitions
    BY <2>2, SettingsAssumption, SMT
  <2> QED BY <2>1, <2>2, <2>3, SMT DEF Init, PartitionInv
<1>4. BatchInv /\ HideInv
  BY DEF Init, BatchInv, HideInv
<1>5. /\ DOMAIN rollups = {} /\ \A w \in Worker : DOMAIN upserts[w] = {}
      /\ \A w \in Worker : sees[w].samples = {} /\ sees[w].dirty = {} /\ pc[w] = "idle"
      /\ \A w \in Worker : deletes[w] = {}
  BY NoRowsTyped DEF Init, NoSnapshot
<1>6. CountInv /\ MarkerInv /\ GrowInv /\ SeenInv
  BY <1>5 DEF Init, SeenInv, CountInv, Honest, MarkerInv, GrowInv, Faithful, Covers
<1> QED BY <1>1, <1>2, <1>3, <1>4, <1>6 DEF SafeInv

\* The whole invariant holds in every state.
LEMMA Safe == Spec => []SafeInv
<1>1. SafeInv /\ [Next]_vars => SafeInv'
  BY TypeOKKept, RunsInvKept, PartitionInvKept, BatchInvKept, CountInvKept, MarkerInvKept,
     HideInvKept, GrowInvKept, SeenInvKept DEF SafeInv
<1> QED BY <1>1, SafeInvStarts, PTL DEF Spec

\* The minute history shows no stored sample both in its rollup and on its own.
THEOREM ShownOnce == Spec => []ViewShowsOnce
<1>1. SafeInv => ViewShowsOnce
  BY DEF SafeInv, CountInv, Honest, ViewShowsOnce, Counted, Hidden
<1> QED BY <1>1, Safe, PTL

\* A sample that the minute history shows on its own will be rolled up.
THEOREM NoneForgotten == Spec => []ShownAloneIsMarked
<1>1. SafeInv => ShownAloneIsMarked
  BY DEF SafeInv, HideInv, HidesIn, ShownAloneIsMarked, Hidden
<1> QED BY <1>1, Safe, PTL

\* Every day of the retention window takes batches, while partitions are ahead.
THEOREM WindowOpen == Spec => []WindowInsertable
<1>1. SafeInv => WindowInsertable
  <2> SUFFICES ASSUME SafeInv, NEW d \in (Day(now) - Retention)..Day(now), d <= horizon + Ahead
               PROVE  d \in partitions
    BY DEF WindowInsertable
  <2>1. now \in Nat /\ horizon \in Nat
    BY BoundsAssumption, SMT DEF SafeInv, TypeOK, Minute
  <2>2. Day(now) \in Nat
    BY <2>1, DayTyped
  <2>3. horizon <= Day(now)
        /\ \A c \in (horizon - Retention)..(horizon + Ahead) : c \in partitions
    BY DEF SafeInv, PartitionInv
  <2> QED BY <2>1, <2>2, <2>3, SettingsAssumption, SMT
<1> QED BY <1>1, Safe, PTL

\* No step replaces a rollup by one that counts less.
THEOREM NoneUncounted == Spec => RollupsGrow
<1>1. SafeInv /\ [Next]_vars =>
        [\A m \in DOMAIN rollups :
           /\ m \in DOMAIN rollups'
           /\ rollups[m].counts \subseteq rollups'[m].counts]_vars
  <2> SUFFICES ASSUME SafeInv, [Next]_vars
               PROVE  \A m \in DOMAIN rollups :
                        m \in DOMAIN rollups' /\ rollups[m].counts \subseteq rollups'[m].counts
    OBVIOUS
  <2>1. CASE RollBackBatch
    BY <2>1, UnhideCounts DEF RollBackBatch, SafeInv, TypeOK
  <2>2. CASE \E w \in Worker : CommitRun(w)
    <3>1. PICK w \in Worker : CommitRun(w)
      BY <2>2
    <3> QED BY <3>1 DEF CommitRun, SafeInv, GrowInv
  <2>3. CASE rollups' = rollups
    BY <2>3
  <2> QED
    BY <2>1, <2>2, <2>3, Steps, RollUpWrites, SnapshotTakes
    DEF SafeInv, dataVars, InsertSample, Mark, CommitBatch, RollBackRun, tableVars
<1> QED BY <1>1, Safe, PTL DEF Spec, RollupsGrow

\* A sample is missed by the rollups only if its transaction was open while the
\* statement of a run went on, for any number of batches and of runs that overlap.
THEOREM OthersAreCounted == Spec => OnlyOverlapMisses
<1> DEFINE Overlapped(s) ==
      \/ s \in inserted /\ Hidden(s)
      \/ \E w \in Worker :
           /\ pc[w] = "unlocked" /\ pc'[w] = "idle"
           /\ s \notin sees[w].samples
           /\ MinuteOf(s) \in DOMAIN upserts[w] /\ s \in upserts[w][MinuteOf(s)].hides
<1>1. ASSUME SafeInv, [Next]_vars, NEW s \in Missed', s \notin Missed
      PROVE  Overlapped(s)
  <2>0. TypeOK /\ BatchInv /\ CountInv /\ HideInv /\ GrowInv /\ SeenInv
    BY <1>1 DEF SafeInv
  <2>m. \A r \in samples : MinuteOf(r)' = MinuteOf(r)
    BY <1>1, <2>0, StoredMinutes DEF TypeOK, BatchInv
  <2>t. Rows(rollups) /\ \A w \in Worker : pc[w] = "unlocked" => Rolled(w)
    BY <2>0 DEF TypeOK, Rolled
  <2>1. /\ s \in samples' /\ MinuteOf(s)' \notin dirty'
        /\ ~(MinuteOf(s)' \in DOMAIN rollups' /\ s \in rollups'[MinuteOf(s)'].counts)
    BY <1>1 DEF Missed, Counted
  \* Nothing else takes a sample out of a rollup, or a marker away.
  <2>2. ASSUME samples' = samples, dirty' = dirty, DOMAIN rollups' = DOMAIN rollups,
               \A m \in DOMAIN rollups : rollups'[m].counts = rollups[m].counts
        PROVE  FALSE
    BY <1>1, <2>1, <2>2, <2>m DEF Missed, Counted
  <2>3. CASE RollBackBatch
    BY <2>2, <2>3, <2>t, UnhideCounts DEF RollBackBatch
  <2>4. CASE CommitBatch
    <3>1. /\ UNCHANGED rollups /\ step = "sample"
          /\ samples' = samples \cup inserted /\ dirty' = dirty \cup marks
          /\ UNCHANGED received
      BY <2>4 DEF CommitBatch, jobVars
    <3>2. s \notin samples
      BY <1>1, <2>1, <2>m, <3>1 DEF Missed, Counted
    <3>3. MinuteOf(s)' = MinuteOf(s)
      BY <3>1 DEF MinuteOf
    <3> QED BY <2>0, <2>1, <3>1, <3>2, <3>3 DEF HideInv, HidesIn, Hidden
  <2>5. CASE \E w \in Worker : CommitRun(w)
    <3>1. PICK w \in Worker : CommitRun(w)
      BY <2>5
    <3>2. /\ samples' \subseteq samples /\ dirty' = dirty \ deletes[w]
          /\ rollups' = [m \in DOMAIN rollups \cup DOMAIN upserts[w] |->
                           IF m \in DOMAIN upserts[w] THEN upserts[w][m] ELSE rollups[m]]
          /\ pc[w] = "unlocked" /\ pc'[w] = "idle"
      BY <2>0, <3>1 DEF CommitRun, Finish, TypeOK
    <3>3. s \in samples /\ MinuteOf(s)' = MinuteOf(s)
      BY <2>1, <2>m, <3>2
    <3>4. ~CountsIn(upserts[w], s)
      BY <2>1, <3>2, <3>3 DEF CountsIn
    <3>5. ~Counted(s)
      BY <2>0, <2>1, <3>2, <3>3 DEF Counted, GrowInv
    <3>6. MinuteOf(s) \in deletes[w]
      BY <1>1, <2>1, <3>2, <3>3, <3>5 DEF Missed
    <3>7. s \notin sees[w].samples
      BY <2>0, <3>4, <3>6 DEF SeenInv
    <3>8. HidesIn(upserts[w], s)
      BY <2>0, <3>3, <3>6 DEF HideInv
    <3> QED BY <3>2, <3>7, <3>8 DEF HidesIn
  <2>6. CASE UNCHANGED <<samples, dirty, rollups>>
    BY <2>2, <2>6
  <2> QED
    BY <1>1, <2>0, <2>3, <2>4, <2>5, <2>6, Steps, RollUpWrites, SnapshotTakes
    DEF dataVars, InsertSample, Mark, RollBackRun, tableVars
<1>2. SafeInv /\ [Next]_vars => [\A s \in Missed' \ Missed : Overlapped(s)]_vars
  BY <1>1
<1> QED BY <1>2, Safe, PTL DEF Spec, OnlyOverlapMisses
=============================================================================
