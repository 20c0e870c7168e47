# Verification of RadiaCode Observatory

This directory holds TLA+ models of the program under `src/`: a collector that
reads a USB radiation detector into PostgreSQL, the maintenance job that
aggregates what it stored, and the parts around them. TLC checks the models on
small instances; TLAPS proves the main safety properties for every value of
their constants.

Source paths below are relative to `src/src/radiacode_app/`. `PROJECT.json`
maps every definition to the lines it translates.

## Inventory

| Part | State it keeps | Operations | What is hard about it |
| --- | --- | --- | --- |
| Collector loop (`collector.py`) | connection, due times, stop flag | `run`, `drain_spool`, `poll_data_once`, `poll_spectrum_once`, `audit_accumulated_once`, failure handlers | a destructive read followed by two stores; health checks that are stale when used; ambiguous commits; kills at any point |
| Spool (`spool.py`) | SQLite table `spool_batches` | `append`, `pending`, `acknowledge`, `ensure_capacity`, `mark_failure` | order by wall clock; capacity; what survives a crash |
| PostgreSQL sink (`database.py`) | the private tables | `commit_data_batch`, `commit_spectrum`, `store_accumulated_snapshot`, connection rows, telemetry bootstrap | idempotent replay; rows of six tables that must stay one chain; failures that look like outages |
| Spectrum state machine (`spectrum_state.py`, `spectrum.py`) | cursor, frame accumulator | `advance_spectrum_state` | resets, recalibrations and reconnects in any order; 32-bit counts; a clock that may be set back |
| USB adapter (`device.py`) | client handle, owner thread | reads and their error classes | destructive `DATA_BUF` read |
| Reallocation (`reallocator.py`) | marker file | write, read, delete the pod | marker outlives the process and the pod |
| Decoder (`databuf.py`) | none | `decode_data_buf` | 8-bit sequence, 32-bit ticks, truncated and unknown records |
| Maintenance (`maintenance.py`, `migrations/`) | dirty markers, watermarks, rollups, partitions | `Maintenance.run` | races with in-flight batches, late frames, lock and commit order |
| MQTT (`mqtt/`) | telemetry cache, connection flags, retained topics | start, close, publish cycle, callbacks | three threads, retained messages, shutdown |
| Wiring (`cli.py`, `settings.py`) | stop event | start and stop of the above | signals |
| Migrator (`migrator.py`) | `schema_migrations` | `migrate` | concurrent migrations |
| API, exporters (`api/`, `exporters/`) | none | queries and formatting | mixing rollups with raw rows |
| Dashboard (`src/frontend/`) | React state | polling, history, rolling range | overlapping requests, back-off, visibility |

Interactions: the collector thread calls the adapter, the spool and the sink
and hands records to the MQTT publisher, whose own thread and Paho's network
thread share its cache and flags. The maintenance job and the API meet the
collector only in PostgreSQL. The reallocator meets it only in the marker file.

What makes each part correct: a batch is neither lost outside the one window
nobody can close, from the detector's buffer to the spool, nor stored or announced twice (collector, spool, sink);
counts are conserved and kept under their calibration (spectrum path); what is
aggregated is what was stored (maintenance); the retained topics tell the truth
about the collector (MQTT).

## Modules

| Module | Models | Kind |
| --- | --- | --- |
| `DurableLedger` | what acquisition promises: take, accept or lose, commit in order | abstract specification |
| `ExactFrames` | what the spectrum path promises: totals become frames, nothing split or counted twice | abstract specification |
| `Replacement` | what reallocation promises: a pod that lost its detector is replaced after a delay | abstract specification |
| `Acquisition` | collector loop, spool, data path of the sink, telemetry cache, marker | detailed, refines `DurableLedger` |
| `SpectrumLedger` | `advance_spectrum_state`, `commit_spectrum`, audit snapshots | detailed, refines `ExactFrames` |
| `DataBuf` | `decode_data_buf` and the sample times it gives | detailed |
| `ScalarRollup` | batch transaction, dirty markers, minute rollups, partitions, advisory lock | detailed |
| `SpectrumRollup` | hour and day rollups, segments, watermarks, the hybrid public query | detailed |
| `Publisher` | MQTT publisher: three threads, Paho's queue, broker, shutdown | detailed |
| `Reallocation` | marker file, reallocator, delete requests, pods | detailed, refines `Replacement` |
| `Dashboard` | the effects of `App.tsx`: polling, loads of the history, retries | detailed |
| `AcquisitionProofs`, `SpectrumLedgerProofs`, `DataBufProofs`, `ScalarRollupProofs`, `SpectrumRollupProofs`, `PublisherProofs`, `ReallocationProofs`, `DashboardProofs` | theorems about the module of that name | proofs |
| `MC...` | constants for TLC | instances |

### Acquisition

`pc` names the next stretch of code between two points at which another party
can act: a database call, a spool transaction, a USB command. `Drain` is
`drain_spool`, `PollData` is `poll_data_once`, `Close` is the `finally` block.
A database call fails when the database is down or goes down under it
(`DbFails`); in the second case its transaction may or may not have committed.
`Crash` is a kill at any point, `Signal` a termination request, `Restart` the
container runtime with the telemetry bootstrap. `UsbFails` is an error of any USB
command; it costs no batch unless the destructive read raises it after the
detector has emptied its buffer, which is `AnswerLost` (`device.py:133`). The rows of the spool are
replayed in any order, because the order by wall clock and random id is not the
order of the reads; that a wrong order never happens is a result
(`AtMostOneSpooled`), not an assumption. A batch is its number and a size; the
metrics, the log and the waiting times are left out. A `stop.wait` is the
control point at which the loop stays. The database accepts every batch whose
connection it knows; partitions that were dropped in the meantime are not in
this module.

### SpectrumLedger

`Read` takes a reading from the detector at the current clock; the commit
actions are the transaction of `commit_spectrum`, one per branch of
`advance_spectrum_state` (`CommitFirst`, `CommitBoundary`, `CommitQuiet`,
`CommitDelta`, `CommitFrame`), and `Abandon` is its failure for whatever reason.
Any reading may follow any other. CHECK constraints that can fail are guards of
the commits. `book`, an observer, holds the first and last reading of every
session and the sum of its frames, so that conservation can be stated without
keeping the counts of every frame. `through`, another observer, collects the
connections a frame was read across.

`ExactFrames` knows neither tables nor transactions, clocks, epochs or
connections: readings are totals of meters, among them the seconds, under a mark,
which stands for channel count and calibration. `RunsOf` takes the runs from `book` and `RowsOf` the rows from
the frames; an audit, a reconnect, a snapshot's epoch and a tick change neither,
and a failed commit is a reading that was dropped (`Drop`).

### ScalarRollup

The collector's transaction goes sample by sample (`InsertSample`, `Mark`,
`CommitBatch`), because each of its statements may wait for, or be seen by, the
maintenance job; `Run` is `Maintenance.run`, cut where another transaction can
come between. What a statement sees is fixed by `Snapshot`; what a run has
written is in `deletes` and `upserts` until `CommitRun`. `WaitsFor` and
`WaitsForBatch` are the two row and table locks by which job and collector wait
for each other, `BreakDeadlock` is the server's way out. The rollup row carries
the set of samples it aggregates and the set it hides from
`scalar_minute_history`, in place of the two timestamps the view compares.
Two runs can overlap, because the advisory lock is released before the commit
(`Unlock`, `CommitRun`); the row of the minute watermark, which both write,
makes the second wait, so that no property suffers.

### SpectrumRollup

`Segments` is `_segment_frames`, which adds frame after frame (`Add`), `Upsert` what `_stream_spectrum_rollups` and
`_upsert_spectrum_rollups` do to the table, `RollClosed` and `RollOpen` the two
scans per resolution, with the watermark between them. `draft` is the table as
the run's transaction sees it. `CommitSpectrum` abstracts `SpectrumLedger` to
what matters here: a frame ends at the reading that completed it, or at an
earlier one when its session was cut short, and is stored later; a calibration
epoch once left does not come back. The public
query is pure: `RollupRange`, `HeadRange` and `TailRange` are its three ranges,
`Complete` its test for rollups that lack no frame. The job, the collector and
the database are assumed to agree on the time. A request sends up to three
queries; each sees its own snapshot, but their ranges are disjoint, so the model
evaluates them together. The DELETE of surplus segments never finds a row,
because frames are never deleted and a bucket's segments only grow.

### DataBuf

One pass over the bytes of a response: `Receive` is the call with a payload of
some length, then each record is one action. What a header says is chosen when
the header is read, so every payload of that length is met. There are four ways
for a record to end the pass (`TruncatedHeader`, `Discontinuity`, `Unknown`,
`TruncatedRecord`) and one to go on (`Decoded`); `AnchorSampleTimes` is the pass
over the finished list. A record carries the range of bytes it keeps as raw. Its
`clock`, an observer, is the time of the detector's own clock; the program sees
it only on a ring (`Tick`) and has to find the distance of two times from that.
What a body says is abstracted to whether it is valid.

### Publisher

`at` is the control of the publisher's thread and of Paho's network thread,
`main` that of the collector's thread. A step is a stretch under the lock, or
a publish: what was decided under the lock is published after it was released.
Whether a turn of `run` finds its 30 seconds over (`Cycle`) or not (`Look`) is
left open.
Paho's queue is external: `sent` holds what this connection has not seen
acknowledged, `queue` what earlier ones left, which is sent again after the
connect callback. Discovery (`Discover`, part of the connect callback) and events
(`PublishEvent`, on the collector's thread) touch neither retained topic, but
take room in the same bounded queue, which then refuses a state or the
availability; `others` counts them. `Break` is the loss of the connection, on
which the broker publishes the will; a graceful disconnect (`leaving`) makes it
discard the will once it has read what was sent before. The payload's other
fields are left out. A refused or failed connection attempt changes nothing, and
a `start` that fails leaves no publisher. The 5 seconds for which `close` waits
for the publisher's thread are taken as enough: after the stop it finishes at most
one round of publishing, and no call in that waits for the network.

### Reallocation

The collector's part is `Connect`, `UsbFailure` (NO_DEVICE or another error, on
an established connection or while opening one) and the steps of
`write_reallocation_marker`: temporary file, rename, sync of the directory.
`afterCrash` is what the file may hold once the node has restarted, and
`CollectorDies` the end of the process after the last of these steps or, as a
fault, at any of them. `Observe` is a turn of `run_reallocator`'s loop, `Delete`
sends its request with the UID the pod must still have; `Accept`, `Conflict` and
`Refuse` are the API server's answers, and a request whose reallocator has died
stays on its way. `NewPod` keeps the volume or not. Kubernetes, the node and the
clock are external.

In `Replacement` there are no processes and no files: a pod loses its detector, a
marker of that stands, for a time or until the collector replaces it, and when it
has stood for the whole delay the pod may be deleted. `marker` there is what
the file holds, if it is of the present pod; `stood` is for how long it has held it.

### Dashboard

Each effect of `App.tsx` that sends requests has its own variables; `Listed`
starts polling and history. `Ends` is the `finally` of a call to `refresh`,
whichever poll is the current one by then. `Reload` is the cleanup and the new
run of the history effect: it aborts the load under way, whose reaction
(`StaleLoaded`) nevertheless runs later, writes what panels it has and may arm a
retry that nobody clears (`staleTimers`, `Retry`). The length of a timer is left
out, so that a poll may time out, or a retry come, at any moment.

## Runs

| Run | Question | Bounds | Result |
| --- | --- | --- | --- |
| `acquisition` | how many batches can a failure cost? is any duplicated, reordered or announced stale? does the whole implement the ledger? is every spooled batch eventually stored? | 3 batches of size 2 or 6 in a spool of 5 with a reserve of 1, 2 connections, 2 outages, 1 kill, 1 SQLite error or answer lost on the USB, any number of other USB errors | holds |
| `spectrum` | are counts, calibrations, sessions and gaps kept? can every reading be stored? do frames overlap? does the whole implement exact frames? | 7 readings, 1 audit, clock to 2, set back once, 2 connections, 2 sessions, frame target 2, UINT32_MAX 3 | holds |
| `spectrum_reconnect` | does a frame across two connections say so? | 4 readings, clock to 1, 2 connections | violated, see findings |
| `spectrum_flushable` | can the accumulator always be stored? | 4 readings, clock to 3, set back once | violated, see findings |
| `databuf` | is any byte lost, or decoded behind a gap? are the flags honest and the sample times true? | 9 bytes, headers of 2, bodies of 1 to 2, sequences modulo 3, a ring of 8 ticks, window -2 to 1 | holds |
| `scalar_rollup` | is any sample shown twice, or alone and forgotten? which can go uncounted? do rollups shrink? is the retention window insertable? is every marker consumed? | 2 batches of 2 samples, 2 overlapping runs, days of 2 minutes, retention 1, ahead 0, lag 2, clock to 4, 1 abort | holds |
| `scalar_late` | is every stored sample counted or marked? | 2 batches of 1 sample, 1 run, clock to 3 | violated, see findings |
| `spectrum_rollup` | do segments fit, reruns lose nothing, requests return each frame once? what is missed? | 3 frames of 2 epochs (symmetric), counts 1 or 2 with UINT32_MAX 3, hours of 1 and days of 2 units, clock to 4 | holds |
| `publisher` | do the retained topics converge? is a process that is gone offline? | 2 messages in Paho's queue, 1 discovery message | holds |
| `publisher_close` | the second without exception | the same | violated, see findings |
| `reallocation` | is only a pod that lost its detector deleted? is a request kept, and answered? does the whole implement replacement after a delay? | delay 2, 2 pods, 3 connections, 2 faults | holds |
| `dashboard` | is there one poll at a time, and always a next one? do panels that have settled show what is selected, and do they settle once retries stop aborting loads? | 2 panels, 3 selections, 2 polls, 2 aborted loads, 2 failures | holds |

Why the bounds are enough. In `acquisition`, one batch may be ambiguous in the
database while another is read and a third follows, on a second connection,
with one failure more than is needed to interrupt a recovery; the sizes include
one payload that fits twice but not a third time, although the check before the
read still passes, and one that never fits. In `spectrum`, the readings reach
every reason for a boundary, counts that grow without duration, a quiet reading
and a reading the encoding rejects (4 is above the largest count, 3). What a
third session adds, a boundary of a session that began at one, is covered by the
proofs, which hold for any number. Nine bytes in `databuf` are three records
with a body, or two and a tail of any kind; three sequence numbers wrap within
them, and the instants lie on both sides of the ring's seam, inside and outside
the window. In `scalar_rollup` both batches may fall into one minute or into
different days, and the clock passes the retention. In `spectrum_rollup` a
bucket can have two segments, a frame can be stored a whole bucket late, and a
request can begin and end inside or on the border of any bucket. A queue of two
messages in `publisher` holds one cycle and is full in every other situation;
everything else there is finite without a bound. In `reallocation` two faults
let a collector die in the middle of a write and a reallocator with a request on
its way, and the request of the first pod may reach the second. Three selections
in `dashboard` let an aborted load finish after the next one, and another begin.
Deadlock is checked in every run but those of `Publisher`, whose process may
end.

`spectrum` takes about two minutes, most of it for the refinement; every other
run less.

Some properties are proved and not run, because another property a run checks
says more. The type invariants (`TypeOK`) are theorems of every module. Of
`Acquisition`, `AtMostOneSpooled`, `OrderedCommits` and `ReadOnlyWhenDrained`
also follow from `ImplementsLedger`; `Accounted` (what became of every batch)
says less than `FailuresCostOneBatch`, which also counts. Of `SpectrumLedger`,
`Anchored`, `GuardsUnreachable` and `CursorGrows` are lemmas on the way to
`ReadingsStorable` and to the refinement, and `ShortFramesArePartial` is part of
it. `DeletesAfterDelay` of `Reallocation` is part of `ImplementsReplacement`, and
`LoadingHonest` of `Dashboard` follows from the code of one effect. The run
`spectrum_rollup` checks `EachFrameOnce` between runs of the job, which is where a
request can see new tables; `ShownOnce`, the same during a run, is proved.

Fairness. `acquisition` (for `SpoolDrains`) assumes weak fairness of the
collector thread (every wait in it has a timeout, every blocking call a timeout
or an error), of the restart (the container runtime restarts a process that
ended) and of the database's return. It is not assumed that the database stays
up: that follows from the bound on outages, as does the end of kills, of
SQLite errors and of lost answers; the result reads "once they stop".

`scalar_rollup` (for `MarkersCleared`) assumes strong fairness of the
collector's statements, because its retries come far more often than runs of the
job and locks are released in between; weak fairness of the job's steps and of
the server's deadlock detection; and that time passes.

`publisher` assumes that threads run, that Paho reconnects when it can, that an
unbroken connection delivers, and that the 30 seconds to the next cycle always
pass. `Converges` states what else it needs in its premise: acknowledgements
take less than the time between cycles (`Drains`), and events, which are rare,
do not fill the queue before every cycle (`EventsPause`).

`reallocation` assumes that Kubernetes restarts the reallocator and that its API
answers, that the reallocator polls and that time passes. Nothing is assumed of
the collector, which may hang, nor of the node.

`dashboard` assumes that timers fire and that calls end, a poll by its timeout at
the latest. Fairness is for each load: it is answered, or fails, or is aborted by
the next one (`LoadEnds`), so that loads may go on aborting each other. That they
stop doing so is the premise of `HistorySettles` (`LoadsInTime`), not part of the
fairness: the code does not guarantee it, and without it the panels need not
settle, see the observations.

## Findings

* A reading that adds nothing moves the cursor to the new connection and drops
  the warning that the session continued across a reconnect
  (`spectrum_state.py:188`); the later frame lacks the flag that
  `tests/test_spectrum_state.py:83` says is retained.
* After the wall clock is set back, the accumulator may end before it starts.
  The CHECK on `spectrum_frames` (`0001_initial.sql:209`) then rejects every
  transaction that would close the session (`spectrum_state.py:147`), until
  readings have grown past the cursor again. While
  the clock is never set back, every reading can be stored (`ReadingsStorable`).
* A batch transaction that finds the marker of its minute present adds none; when
  a run deletes that marker and aggregates before the batch commits, the batch's
  samples are in no rollup, have no marker, and are hidden from
  `scalar_minute_history`, against the comment at `0001_initial.sql:130`. The
  next batch for the minute, if any, heals it. What does hold is
  `ShownAloneIsMarked`, and `OnlyOverlapMisses`: a sample comes to that in no other
  way than this one.
* A connect callback that passed its check of `_closing` before `close()` set it
  publishes "online" after `close()` has published "offline"; the graceful
  disconnect then discards the last will (`mqtt/publisher.py:228`, against the
  comment at 191). `OfflineWhenGone` holds when no such callback was running.

Observations without a run of their own:

* A partial frame that is stored more than a bucket after its last reading lies
  below the watermark and is never rolled up, although `maintenance.py:209` says
  frames arrive in order; `MissedOnlyIfLate` shows that nothing else is missed,
  and `EachFrameOnce` that requests fall back to the raw frame.
* `Maintenance.run` releases the advisory lock before it commits
  (`maintenance.py:114`), because `pg_try_advisory_lock` has already begun the
  transaction; see `ScalarRollup` above for why this does no harm.
* The sink looks for warnings that begin with `sequence_gap:`
  (`database.py:348`), but the decoder writes `sequence_discontinuity:`
  (`databuf.py:90`): rows of the reason `data_buf_sequence_gap`
  (`database.py:359`), which the dashboard knows how to show
  (`EventTimeline.tsx:16`), are never written. The records themselves say what
  happened, which is what `ProjectedFromUnbroken` and `StatusHonest` rely on.
* Nobody withdraws a marker when the collector connects again within the same
  pod: a pod that recovered during the delay is replaced all the same.
  `OnlyLostPodsDeleted` says "lost its detector", not "has lost it still". A
  writer that is killed leaves its temporary file behind.
* The reaction of an aborted load in the dashboard (`App.tsx:195`) is not told
  that it was aborted, because `Promise.allSettled` never rejects. It shows what
  it has of the old selection, raises the error banner, and arms a retry that
  loads again after 5 seconds, also where `App.test.tsx:241` expects "no
  periodic refreshes". Nothing clears that timer: when it fires while a load
  is under way, that load is aborted, and its reaction arms the next timer. Once a
  selection has been made during a load, loads of more than 5 seconds therefore
  abort each other for ever, and the panels that take that long stay empty or old
  under "Retrying automatically." TLC finds this when the premise of
  `HistorySettles` is left out (a cycle of `Retry` and `StaleLoaded`); what holds
  is that panels settle if the retries stop aborting loads, and that they never
  settle on anything wrong.
* The spectra export reads up to two raw day buckets of up to 16 devices
  (`api/app.py:445`) under one limit on source rows, so long exports of many
  devices are always refused; and the scalar history takes the first 2,000
  buckets in ascending order, so a range that is not aligned loses its newest.

## Proofs

Every theorem is about the specification itself, for all values of the constants
that meet the assumptions the modules name: bounds are natural numbers, lengths
and targets positive, readings well-typed, the ring of ticks even and more than
twice the window.

`AcquisitionProofs` proves every safety property of the run `acquisition` and
the refinement of `DurableLedger`, for all bounds and sizes. None of them is
inductive: that a replay cannot reverse batches depends on there being one
spooled batch, which depends on what each control point knows of the spool,
which depends on the connection recorded before the first read. `SafeInv` is the
conjunction of these: `ControlInv` (what `pc` says about the spool and the batch
in hand), `ConnectionInv` (the connection in use and those of spooled batches
are recorded), `OrderInv` (a spooled batch is no older than any stored one) and
`EventInv`. Type correctness comes first, then one step per action for
`SafeInv`, then each property from it. The refinement maps the batch between
read and spool transaction to `inflight` and the spooled but not stored batches
to `pending`. `FailuresCostOneBatch` needs `BudgetInv` besides: an outage that has begun
while a batch is about to be read, or on its way, has been counted and will be paid
for with that batch only (`Owed`).

`SpectrumLedgerProofs` proves every property of the run `spectrum`, type
correctness and that the cursor only grows, for every set of readings, every
number of channels, every frame target and any number of sessions. Conservation
needs `Linked` (the cursor is the last reading of the last session; a deleted
accumulator is zero) and `Anchored`; that sums cannot overflow follows from
conservation, since the frames and the accumulator of a session add up to a
reading that fits. On top of that, `RowsInv` says of the rows already stored that
short frames end their session, that a gap names its session and the reason of
its end (`GapsInv`), and that no frame ends after the cursor was observed nor
after the accumulator began (`TimeInv`), from which frames follow each other.
`AlwaysStorable` adds `OrderInv`: while the clock was never set back, nothing that
is open began after the cursor was observed.

The refinement of `ExactFrames` (`Implementation`) rests on conservation, by which
the accumulator is what the last run has counted and its frames do not hold, and on
`HeldInv`: an accumulator that exists holds something, and never enough for a frame.
A reading continues its session exactly when it continues its run
(`PromiseContinues`): every reason for a boundary is a fallen meter or another mark.
One lemma per abstract step follows: `PromiseBegin`, `PromiseHold`, `PromiseStore`,
`PromiseRestart`.

`DataBufProofs` proves every property of the run `databuf`, for payloads of any
length and any layout of the records. `TimesAreTrue` rests on `DeltaIsDistance`:
the difference taken on the ring is the distance on the device's clock whenever
that is less than half a ring, for every even modulus.

`ScalarRollupProofs` proves the safety properties of `scalar_rollup` for any
number of runs that overlap, of batches, aborts and deadlocks. `RunsInv`: one run
holds the lock, and one, which may have released it, has written. `PartitionInv`:
the partitions cover the retention window of the last run, and every sample has
one. `BatchInv` separates the open transaction's samples and marks from committed
ones, `CountInv` says that what a row counts is committed, and hidden while it
exists, `MarkerInv` that a marker stands for a sample until its partition is
dropped. The core is `HideInv`: a sample without a marker is hidden, or will be
when the run that deleted its marker commits. `GrowInv` adds that rows and the
snapshots they are made from only grow, which gives `RollupsGrow`. For
`OnlyOverlapMisses`, `SeenInv` says that a run that takes a marker counts every
sample of the minute that was in its snapshot (`AggregatedCounts`), so what it
misses was committed later.

`PublisherProofs` proves type correctness, with the limit on Paho's queue, and
`OfflineWhenGone` for every limit. `OrderInv` says which thread may publish at
each stage of `close`, `OfflineInv` that while `close` waits for the PUBACK of
"offline" nothing is behind it in either queue, and that whatever ends a
connection without a will has put the topic to offline before.

`ReallocationProofs` proves the safety properties of `reallocation` for all
bounds: markers name pods that lost their detector, the observed marker is in
the file for at least as long as it was waited for, and what the disk may hold
after a restart contains a marker of the pod once it was requested. The refinement of
`Replacement` needs `PromiseInv`, the conjunction of these with `Lived`: a later
pod has not lost its detector before its turn. Then each action is one abstract
step or none; a marker that a restart of the node takes away again (`Withdraw`) had
not been left by its collector.

`DashboardProofs` proves `OnePoll`, `PollingGoesOn`, `RetriedWhileInError`,
`LoadingHonest` and `SettledShowsSelection` for any number of calls, panels and selections. `PollInv` says
that the call in `requestController` has not been aborted and is the only one that
will be shown; the banners need nothing but themselves (`LoadInv`).

`SpectrumRollupProofs` proves every property of the run `spectrum_rollup`, type
correctness, and two facts about the ranges of a request for all integer times
(`RequestCovered`, `RequestReadOnce`). Segments, and the sums of counts and of
source frames, are recursive functions on sets. What they are for every finite
set is proved by induction, which the library's theorem on well-founded orders
allows when it is stated for a set of subsets instead of a predicate
(`SubsetInduction`): `SegmentsWellCut` says that `_segment_frames` leaves no frame
out, cuts in the order of time and never overflows; `SizesOfCut` that the sizes of
the segments add up to the number of frames, each being in one. `RollInv` is the
invariant of the system: every group of rows, committed or of the run, is a well
cut set of frames of that group (`Table`); watermarks are borders a whole bucket in
the past (`MarksAt`), so that a scan sees whole buckets; rows are made of frames
that ended before the run (`RolledBefore`), so that the scan of the open bucket
sees them again; a frame behind the watermark without a row was late
(`MissedLate`); and the run's table has all that the committed one has
(`DraftCovers`). A group passes the test of `complete_groups` only if its rows
are made of all of its frames (`CompleteGroups`), from which, with the two facts
about ranges, `EachFrameOnce` follows.

Model-checked only: liveness (`SpoolDrains`, `MarkersCleared`, `Converges`,
`RequestsAnswered`, `HistorySettles`), which is out of the prover's reach. Every
safety property of a run that holds is also a theorem.

## Plan

Every part is modelled but the migrator and the parts without control of their
own, see below. What could follow:

1. The migrator, should it ever do more than one transaction under a lock.
2. Two collectors of one detector, should the deployment ever allow more than
   one replica: `Acquisition` and `SpectrumLedger` rely on there being one.

## Not modelled

The migrator has one action, a transaction under an advisory lock that excludes
every other; what its files create
is used as the other modules describe it. Exporters, API formatting and limits,
charts, metrics and logging keep no state and take no decision the models depend
on. The USB library, PostgreSQL, SQLite, Paho, Kubernetes and the browser are
seen through the calls the code makes. Payload contents are abstracted
everywhere: calibration and rebinning (`spectrum.py`) are functions without
state. `PROJECT.json` lists every part and, under `hazards`, what is hard to
test in it.
