----------------------------- MODULE Acquisition -----------------------------
(***************************************************************************)
(* The collector process: the thread of Collector.run with drain_spool and *)
(* poll_data_once, the SQLite spool it owns, the PostgreSQL data path it   *)
(* commits to, and the MQTT publisher it forwards records to.              *)
(*                                                                         *)
(* One action is one stretch of code between two points at which another   *)
(* party can be seen to act: a database call, a spool transaction, a USB   *)
(* command, a crash.  pc names the next stretch.  The database fails by    *)
(* going down, and a transaction caught by that may or may not have        *)
(* committed: the client sees DatabaseUnavailable either way.              *)
(*                                                                         *)
(* Batch n is the n-th non-empty DATA_BUF response.  Payloads, decoded     *)
(* records and waiting times are abstracted; a batch has a size.           *)
(***************************************************************************)
EXTENDS Integers, FiniteSets, FiniteSetsExt

CONSTANTS
  MaxBatches,      \* bound: non-empty DATA_BUF responses
  MaxConnections,  \* bound: USB connections that succeed
  MaxOutages,      \* bound: database outages
  MaxCrashes,      \* bound: kills of the process and termination signals
  MaxFaults,       \* bound: SQLite errors, and reads of which the answer is lost
  Sizes,           \* payload sizes of a batch
  SpoolMax,        \* settings.spool_max_bytes
  Reserve,         \* settings.spool_reserved_batch_bytes
  HasPodUid        \* whether POD_UID is set

ASSUME BoundsAssumption ==
  /\ MaxBatches \in Nat
  /\ MaxConnections \in Nat
  /\ MaxOutages \in Nat
  /\ MaxCrashes \in Nat
  /\ MaxFaults \in Nat

ASSUME SettingsAssumption ==
  /\ Sizes \subseteq Nat \ {0}
  /\ SpoolMax \in Nat
  /\ Reserve \in Nat
  /\ HasPodUid \in BOOLEAN

VARIABLES
  (* the process *)
  pc,        \* the next stretch of code
  drainer,   \* who called drain_spool: "outer", "loop" or "gate"
  work,      \* the rows drain_spool fetched and has not replayed yet
  conn,      \* connection_id of the USB connection, 0 for None
  nextConn,  \* connection ids used so far (uuid4 never repeats)
  cur,       \* the batch a commit or an acknowledgement is about, 0 for none
  stop,      \* stop_event
  leaving,   \* run() is on its way out after _handle_usb_failure
  cache,     \* batch whose telemetry the publisher's cache shows, 0 for none
  (* the marker file, the spool and the detector *)
  marker,    \* the reallocation marker exists
  spool,     \* batch ids in spool_batches
  taken,     \* non-empty responses the detector gave
  (* PostgreSQL *)
  dbUp,      \* healthcheck() would return True
  dbConns,   \* connections rows
  raw,       \* raw_buffer_batches rows
  projected, \* how often the projections of a batch were inserted
  (* observers and counters for the bounds *)
  batchConn, \* connection a batch was read on
  batchSize, \* payload size of a batch
  announced, \* how often the events of a batch were handed to MQTT
  lost,      \* batches the detector gave up that never reached the spool
  outages, crashes, faults

dbVars == <<dbUp, dbConns, raw, projected, outages>>
batchVars == <<taken, batchConn, batchSize, announced, lost>>
procVars == <<pc, drainer, work, conn, nextConn, cur, stop, leaving, cache>>

vars == <<procVars, marker, spool, dbVars, batchVars, crashes, faults>>

Batch == 1..MaxBatches
Connection == 1..MaxConnections

Labels ==
  {"top", "ensure", "drain", "replay", "replayAck", "replayForward",
   "connect", "firmware", "open", "firstAudit", "loop", "poll", "reserve",
    "read", "append", "commit", "ack", "forward", "spectrum",
   "audit", "close", "down"}

Init ==
  /\ pc = "top"
  /\ drainer = "outer"
  /\ work = {}
  /\ conn = 0
  /\ nextConn = 0
  /\ cur = 0
  /\ stop = FALSE
  /\ leaving = FALSE
  /\ cache = 0
  /\ marker = FALSE
  /\ spool = {}
  /\ taken = 0
  /\ dbUp \in BOOLEAN
  /\ dbConns = [c \in Connection |-> "none"]
  /\ raw = {}
  /\ projected = [b \in Batch |-> 0]
  /\ batchConn = [b \in Batch |-> 0]
  /\ batchSize = [b \in Batch |-> 0]
  /\ announced = [b \in Batch |-> 0]
  /\ lost = {}
  /\ outages = 0
  /\ crashes = 0
  /\ faults = 0

-----------------------------------------------------------------------------
(* Steps shared by several actions. *)

Goto(label) == pc' = label

\* A database call raises: the database is down, or goes down under the call,
\* in which case the transaction may have committed (applied).
DbFails(applied) ==
  \/ ~dbUp /\ ~applied /\ UNCHANGED <<dbUp, outages>>
  \/ dbUp /\ outages < MaxOutages /\ dbUp' = FALSE /\ outages' = outages + 1

\* Mutant: a replay projects the batch again.
IngestAgain(b) ==
  /\ raw' = raw \cup {b}
  /\ projected' = [projected EXCEPT ![b] = @ + 1]
  /\ UNCHANGED dbConns

\* commit_data_batch: one transaction; ON CONFLICT DO NOTHING on the raw row
\* and an early return keep a replay from projecting the batch again.
Ingest(b) ==
  /\ raw' = raw \cup {b}
  /\ projected' = IF b \in raw THEN projected
                  ELSE [projected EXCEPT ![b] = @ + 1]
  /\ UNCHANGED dbConns

IngestIf(applied, b) ==
  \/ applied /\ Ingest(b)
  \/ ~applied /\ UNCHANGED <<raw, projected, dbConns>>

\* An SQLite statement fails; OTHER to classify_usb_error.
SqliteFails == faults < MaxFaults /\ faults' = faults + 1

\* Mutant: the spool is only drained when the collector starts over.
NeverMustDrain == FALSE

MustDrain == spool # {}

\* payload_bytes
UsedBytes == MapThenSumSet(LAMBDA b : batchSize[b], spool)

WhenDrained ==
  CASE drainer = "outer" -> "connect"
    [] drainer = "loop" -> "poll"
    [] OTHER -> "reserve"

WhenNotDrained == IF drainer = "outer" THEN "top" ELSE "loop"

-----------------------------------------------------------------------------
(* The outer loop of run(). *)

Exit ==
  /\ pc = "top" /\ stop
  /\ Goto("down")
  /\ UNCHANGED <<drainer, work, conn, nextConn, cur, stop, leaving, cache,
                 marker, spool, dbVars, batchVars, crashes, faults>>

\* An unhealthy database leaves pc at "top": stop.wait and again.
Start ==
  /\ pc = "top" /\ ~stop /\ dbUp
  /\ Goto("ensure")
  /\ UNCHANGED <<drainer, work, conn, nextConn, cur, stop, leaving, cache,
                 marker, spool, dbVars, batchVars, crashes, faults>>

\* ensure_device and the drain gate in front of the USB connection.
EnsureDevice ==
  /\ pc = "ensure"
  /\ \/ dbUp /\ Goto("drain") /\ drainer' = "outer" /\ UNCHANGED dbVars
     \/ /\ \E applied \in BOOLEAN : DbFails(applied)
        /\ Goto("top")
        /\ UNCHANGED <<drainer, dbConns, raw, projected>>
  /\ UNCHANGED <<work, conn, nextConn, cur, stop, leaving, cache, marker,
                 spool, batchVars, crashes, faults>>

-----------------------------------------------------------------------------
(* drain_spool.  Rows are ordered by a wall-clock time and a random id, so *)
(* the order in which two rows would be replayed is not known: any of them *)
(* may be next.                                                            *)

DrainStart ==
  /\ pc = "drain"
  /\ \/ dbUp /\ work' = spool /\ Goto("replay")
     \/ ~dbUp /\ Goto(WhenNotDrained) /\ UNCHANGED work
  /\ UNCHANGED <<drainer, conn, nextConn, cur, stop, leaving, cache, marker,
                 spool, dbVars, batchVars, crashes, faults>>

ReplayCommit(b) ==
  /\ pc = "replay" /\ b \in work /\ dbUp
  /\ Ingest(b)
  /\ cur' = b
  /\ Goto("replayAck")
  /\ UNCHANGED <<drainer, work, conn, nextConn, stop, leaving, cache, marker,
                 spool, dbUp, outages, batchVars, crashes, faults>>

\* mark_failure and return False; the mark itself may fail and escape as an
\* SQLite error.
ReplayFails(b) ==
  /\ pc = "replay" /\ b \in work
  /\ \E applied \in BOOLEAN : DbFails(applied) /\ IngestIf(applied, b)
  /\ work' = {}
  /\ \/ Goto(WhenNotDrained) /\ UNCHANGED faults
     \/ Goto("close") /\ SqliteFails
  /\ UNCHANGED <<drainer, conn, nextConn, cur, stop, leaving, cache, marker,
                 spool, batchVars, crashes>>

\* Mutant: a replayed row is never deleted.
ReplayKeepsRow ==
  /\ pc = "replayAck"
  /\ work' = work \ {cur}
  /\ Goto("replayForward")
  /\ UNCHANGED <<drainer, conn, nextConn, cur, stop, leaving, cache, marker,
                 spool, dbVars, batchVars, crashes, faults>>

\* acknowledge, then the loop's telemetry refresh; no events on a replay.
ReplayAcknowledge ==
  /\ pc = "replayAck"
  /\ spool' = spool \ {cur}
  /\ work' = work \ {cur}
  /\ Goto("replayForward")
  /\ UNCHANGED <<drainer, conn, nextConn, cur, stop, leaving, cache, marker,
                 dbVars, batchVars, crashes, faults>>

\* Mutant: a replay publishes events too.
ReplayForwardEvents ==
  /\ pc = "replayForward"
  /\ announced' = [announced EXCEPT ![cur] = @ + 1]
  /\ cache' = cur
  /\ cur' = 0
  /\ Goto("replay")
  /\ UNCHANGED <<drainer, work, conn, nextConn, stop, leaving, marker, spool,
                 dbVars, taken, batchConn, batchSize, lost, crashes, faults>>

ReplayForward ==
  /\ pc = "replayForward"
  /\ cache' = cur
  /\ cur' = 0
  /\ Goto("replay")
  /\ UNCHANGED <<drainer, work, conn, nextConn, stop, leaving, marker, spool,
                 dbVars, batchVars, crashes, faults>>

DrainDone ==
  /\ pc = "replay" /\ work = {}
  /\ Goto(WhenDrained)
  /\ UNCHANGED <<drainer, work, conn, nextConn, cur, stop, leaving, cache,
                 marker, spool, dbVars, batchVars, crashes, faults>>

\* A statement on the spool raises (pending, acknowledge, pending_count and the
\* sums behind the metrics): run() drops the USB connection and starts over,
\* except at the top of its loop, outside the try, where the error ends it.
SpoolFault ==
  /\ \/ pc = "top" /\ ~stop /\ Goto("down")
     \/ /\ pc \in {"drain", "replayAck", "replay", "loop", "poll", "reserve",
                  "commit", "ack", "forward"}
        /\ Goto("close")
  /\ SqliteFails
  /\ work' = {}
  /\ cur' = 0
  /\ UNCHANGED <<drainer, conn, nextConn, stop, leaving, cache, marker, spool,
                 dbVars, batchVars, crashes>>

-----------------------------------------------------------------------------
(* Connecting.  connection_id exists from here on, before its row does. *)

Connect ==
  /\ pc = "connect"
  /\ \/ /\ nextConn < MaxConnections
        /\ nextConn' = nextConn + 1
        /\ conn' = nextConn + 1
        /\ Goto("firmware")
     \/ Goto("top") /\ UNCHANGED <<nextConn, conn>>
  /\ UNCHANGED <<drainer, work, cur, stop, leaving, cache, marker, spool,
                 dbVars, batchVars, crashes, faults>>

\* An OTHER error is masked; the version is optional.
ReadFirmware ==
  /\ pc = "firmware"
  /\ Goto("open")
  /\ UNCHANGED <<drainer, work, conn, nextConn, cur, stop, leaving, cache,
                 marker, spool, dbVars, batchVars, crashes, faults>>

\* Mutant: a failure to record the connection is ignored.
RecordOpenIgnored ==
  /\ pc = "open"
  /\ Goto("firstAudit")
  /\ \/ /\ dbUp
        /\ dbConns' = [dbConns EXCEPT ![conn] = "open"]
        /\ UNCHANGED <<dbUp, outages>>
     \/ DbFails(FALSE) /\ UNCHANGED dbConns
  /\ UNCHANGED <<drainer, work, conn, nextConn, cur, stop, leaving, cache,
                 marker, spool, raw, projected, batchVars, crashes, faults>>

RecordOpen ==
  /\ pc = "open"
  /\ \/ /\ dbUp
        /\ dbConns' = [dbConns EXCEPT ![conn] = "open"]
        /\ Goto("firstAudit")
        /\ UNCHANGED <<dbUp, outages>>
     \/ \E applied \in BOOLEAN :
        /\ DbFails(applied)
        /\ dbConns' = IF applied THEN [dbConns EXCEPT ![conn] = "open"]
                      ELSE dbConns
        /\ Goto("close")
  /\ UNCHANGED <<drainer, work, conn, nextConn, cur, stop, leaving, cache,
                 marker, spool, raw, projected, batchVars, crashes, faults>>

\* What an audit or a spectrum poll stores is modelled in SpectrumLedger; here
\* it succeeds or the database fails, which the outer handler answers by
\* giving the connection up and the inner one by waiting with it.
Auxiliary(label, next, unavailable) ==
  /\ pc = label
  /\ \/ dbUp /\ Goto(next) /\ UNCHANGED <<dbUp, outages>>
     \/ (\E applied \in BOOLEAN : DbFails(applied)) /\ Goto(unavailable)
  /\ UNCHANGED <<drainer, work, conn, nextConn, cur, stop, leaving, cache,
                 marker, spool, dbConns, raw, projected, batchVars, crashes,
                 faults>>

FirstAudit == Auxiliary("firstAudit", "loop", "close")
PollSpectrum == Auxiliary("spectrum", "audit", "loop")
Audit == Auxiliary("audit", "loop", "loop")

\* next_data, next_spectrum or next_audit is in the future.
NotDue ==
  /\ \/ pc = "poll" /\ Goto("spectrum")
     \/ pc = "spectrum" /\ Goto("audit")
     \/ pc = "audit" /\ Goto("loop")
  /\ UNCHANGED <<drainer, work, conn, nextConn, cur, stop, leaving, cache,
                 marker, spool, dbVars, batchVars, crashes, faults>>

\* The inner loop: leave on stop, wait while the database is unhealthy (pc
\* stays), replay what is spooled, then poll.
Loop ==
  /\ pc = "loop"
  /\ \/ stop /\ Goto("close") /\ UNCHANGED drainer
     \/ ~stop /\ dbUp /\ MustDrain /\ Goto("drain") /\ drainer' = "loop"
     \/ ~stop /\ dbUp /\ ~MustDrain /\ Goto("poll") /\ UNCHANGED drainer
  /\ UNCHANGED <<work, conn, nextConn, cur, stop, leaving, cache, marker,
                 spool, dbVars, batchVars, crashes, faults>>

-----------------------------------------------------------------------------
(* poll_data_once. *)

\* Its own health gate.  Its own drain gate never finds work, since this
\* thread alone writes the spool and the loop has just looked.
Gate ==
  /\ pc = "poll"
  /\ IF ~dbUp THEN Goto("loop") /\ UNCHANGED drainer
     ELSE IF MustDrain THEN Goto("drain") /\ drainer' = "gate"
     ELSE Goto("reserve") /\ UNCHANGED drainer
  /\ UNCHANGED <<work, conn, nextConn, cur, stop, leaving, cache, marker,
                 spool, dbVars, batchVars, crashes, faults>>

\* ensure_capacity before the destructive read.
EnsureCapacity ==
  /\ pc = "reserve"
  /\ Goto(IF UsedBytes + Reserve > SpoolMax THEN "close" ELSE "read")
  /\ UNCHANGED <<drainer, work, conn, nextConn, cur, stop, leaving, cache,
                 marker, spool, dbVars, batchVars, crashes, faults>>

\* read_data_buf_raw: from here to the spool transaction the only copy of the
\* batch is in this process.
ReadDataBuf ==
  /\ pc = "read"
  /\ \/ /\ taken < MaxBatches
        /\ taken' = taken + 1
        /\ cur' = taken + 1
        /\ batchConn' = [batchConn EXCEPT ![taken + 1] = conn]
        /\ \E s \in Sizes : batchSize' = [batchSize EXCEPT ![taken + 1] = s]
        /\ Goto("append")
     \/ Goto("spectrum") /\ UNCHANGED <<taken, cur, batchConn, batchSize>>
  /\ UNCHANGED <<drainer, work, conn, nextConn, stop, leaving, cache, marker,
                 spool, dbVars, announced, lost, crashes, faults>>

\* Mutant: acknowledges what it spooled before PostgreSQL has it.
AppendThenAcknowledge ==
  /\ pc = "append"
  /\ UsedBytes + batchSize[cur] <= SpoolMax
  /\ spool' = spool \cup {cur}
  /\ Goto("ack")
  /\ UNCHANGED <<drainer, work, conn, nextConn, cur, stop, leaving, cache,
                 marker, dbVars, batchVars, crashes, faults>>

\* append under BEGIN IMMEDIATE ... COMMIT with synchronous=FULL.
AppendToSpool ==
  /\ pc = "append"
  /\ UsedBytes + batchSize[cur] <= SpoolMax
  /\ spool' = spool \cup {cur}
  /\ Goto("commit")
  /\ UNCHANGED <<drainer, work, conn, nextConn, cur, stop, leaving, cache,
                 marker, dbVars, batchVars, crashes, faults>>

\* The capacity check inside append fails, or SQLite does: ROLLBACK, raise.
AppendFails ==
  /\ pc = "append"
  /\ \/ UsedBytes + batchSize[cur] > SpoolMax /\ UNCHANGED faults
     \/ SqliteFails
  /\ lost' = lost \cup {cur}
  /\ cur' = 0
  /\ Goto("close")
  /\ UNCHANGED <<drainer, work, conn, nextConn, stop, leaving, cache, marker,
                 spool, dbVars, taken, batchConn, batchSize, announced,
                 crashes>>

\* Mutant: forwards the records instead of acknowledging first.
CommitThenForward ==
  /\ pc = "commit" /\ dbUp
  /\ Ingest(cur)
  /\ Goto("forward")
  /\ UNCHANGED <<drainer, work, conn, nextConn, cur, stop, leaving, cache,
                 marker, spool, dbUp, outages, batchVars, crashes, faults>>

CommitBatch ==
  /\ pc = "commit" /\ dbUp
  /\ Ingest(cur)
  /\ Goto("ack")
  /\ UNCHANGED <<drainer, work, conn, nextConn, cur, stop, leaving, cache,
                 marker, spool, dbUp, outages, batchVars, crashes, faults>>

\* Mutant: the error is marked but not raised again.
CommitFailsSilently ==
  /\ pc = "commit"
  /\ \E applied \in BOOLEAN : DbFails(applied) /\ IngestIf(applied, cur)
  /\ Goto("ack")
  /\ UNCHANGED <<drainer, work, conn, nextConn, cur, stop, leaving, cache,
                 marker, spool, batchVars, crashes, faults>>

CommitFails ==
  /\ pc = "commit"
  /\ \E applied \in BOOLEAN : DbFails(applied) /\ IngestIf(applied, cur)
  /\ cur' = 0
  /\ \/ Goto("loop") /\ UNCHANGED faults
     \/ Goto("close") /\ SqliteFails
  /\ UNCHANGED <<drainer, work, conn, nextConn, stop, leaving, cache, marker,
                 spool, batchVars, crashes>>

Acknowledge ==
  /\ pc = "ack"
  /\ spool' = spool \ {cur}
  /\ Goto("forward")
  /\ UNCHANGED <<drainer, work, conn, nextConn, cur, stop, leaving, cache,
                 marker, dbVars, batchVars, crashes, faults>>

\* The records of a batch committed on its first attempt: events are
\* published and the cached telemetry is refreshed.
Forward ==
  /\ pc = "forward"
  /\ announced' = [announced EXCEPT ![cur] = @ + 1]
  /\ cache' = cur
  /\ cur' = 0
  /\ Goto("spectrum")
  /\ UNCHANGED <<drainer, work, conn, nextConn, stop, leaving, marker, spool,
                 dbVars, taken, batchConn, batchSize, lost, crashes, faults>>

-----------------------------------------------------------------------------
(* Failure handlers and the finally block. *)

\* A USB command raised with a connection established.  Only libusb's NO_DEVICE
\* asks for the pod to be replaced, and only when the pod is known; writing the
\* marker can itself fail, which ends run() with an exception.
HandleUsbFailure(noDevice) ==
  /\ leaving' = (noDevice /\ HasPodUid)
  /\ \/ marker' = (marker \/ (noDevice /\ HasPodUid))
     \/ noDevice /\ HasPodUid /\ UNCHANGED marker
  /\ Goto("close")

UsbFails(noDevice) ==
  /\ pc \in {"firmware", "firstAudit", "read", "spectrum", "audit"}
  /\ HandleUsbFailure(noDevice)
  /\ UNCHANGED <<drainer, work, conn, nextConn, cur, stop, cache, spool,
                 dbVars, batchVars, crashes, faults>>

\* read_request raises although the detector has emptied its buffer: the answer is
\* lost on its way, and the batch with it.
AnswerLost(noDevice) ==
  /\ pc = "read" /\ taken < MaxBatches
  /\ faults < MaxFaults /\ faults' = faults + 1
  /\ taken' = taken + 1
  /\ batchConn' = [batchConn EXCEPT ![taken + 1] = conn]
  /\ \E s \in Sizes : batchSize' = [batchSize EXCEPT ![taken + 1] = s]
  /\ lost' = lost \cup {taken + 1}
  /\ HandleUsbFailure(noDevice)
  /\ UNCHANGED <<drainer, work, conn, nextConn, cur, stop, cache, spool,
                 dbVars, announced, crashes>>

\* device.close(), then record_connection_close, whose failure is suppressed.
Close ==
  LET closed == IF conn # 0 /\ dbConns[conn] = "open"
                THEN [dbConns EXCEPT ![conn] = "closed"] ELSE dbConns
  IN
  /\ pc = "close"
  /\ \/ (dbUp \/ conn = 0) /\ dbConns' = closed /\ UNCHANGED <<dbUp, outages>>
     \/ /\ conn # 0
        /\ \E applied \in BOOLEAN :
             DbFails(applied) /\ dbConns' = IF applied THEN closed ELSE dbConns
  /\ conn' = 0
  /\ Goto(IF leaving THEN "down" ELSE "top")
  /\ UNCHANGED <<drainer, work, nextConn, cur, stop, leaving, cache, marker,
                 spool, raw, projected, batchVars, crashes, faults>>

-----------------------------------------------------------------------------
(* The environment: signals, kills, restarts and the database. *)

Signal ==
  /\ pc # "down" /\ ~stop /\ crashes < MaxCrashes
  /\ stop' = TRUE
  /\ crashes' = crashes + 1
  /\ UNCHANGED <<pc, drainer, work, conn, nextConn, cur, leaving, cache,
                 marker, spool, dbVars, batchVars, faults>>

\* SIGKILL or power loss.  The spool is synchronous=FULL and survives.
Crash ==
  /\ pc # "down" /\ crashes < MaxCrashes
  /\ crashes' = crashes + 1
  /\ lost' = IF pc = "append" THEN lost \cup {cur} ELSE lost
  /\ work' = {}
  /\ conn' = 0
  /\ cur' = 0
  /\ Goto("down")
  /\ UNCHANGED <<drainer, nextConn, stop, leaving, cache, marker, spool,
                 dbVars, taken, batchConn, batchSize, announced, faults>>

\* telemetry_bootstrap_updates: the newest stored values, or none when the
\* database cannot be read at that moment.
Bootstrap ==
  IF dbUp /\ raw # {}
  THEN \E b \in raw : (\A c \in raw : c <= b) /\ cache' = b
  ELSE cache' = 0

\* The container is started again: in the same pod, where the marker file is
\* still there, or in a new one.
Restart ==
  /\ pc = "down"
  /\ Goto("top")
  /\ stop' = FALSE
  /\ leaving' = FALSE
  /\ Bootstrap
  /\ marker' \in {marker, FALSE}
  /\ UNCHANGED <<drainer, work, conn, nextConn, cur, spool, dbVars, batchVars,
                 crashes, faults>>

DatabaseDown ==
  /\ dbUp /\ outages < MaxOutages
  /\ dbUp' = FALSE
  /\ outages' = outages + 1
  /\ UNCHANGED <<procVars, marker, spool, dbConns, raw, projected, batchVars,
                 crashes, faults>>

DatabaseUp ==
  /\ ~dbUp
  /\ dbUp' = TRUE
  /\ UNCHANGED <<procVars, marker, spool, dbConns, raw, projected, outages,
                 batchVars, crashes, faults>>

Drain ==
  \/ DrainStart
  \/ \E b \in Batch : ReplayCommit(b) \/ ReplayFails(b)
  \/ ReplayAcknowledge
  \/ ReplayForward
  \/ DrainDone

PollData ==
  \/ Gate
  \/ EnsureCapacity
  \/ ReadDataBuf
  \/ AppendToSpool
  \/ AppendFails
  \/ CommitBatch
  \/ CommitFails
  \/ Acknowledge
  \/ Forward

\* The statements of the collector thread, USB and SQLite errors apart.
Collector ==
  \/ Exit
  \/ Start
  \/ EnsureDevice
  \/ Drain
  \/ Connect
  \/ ReadFirmware
  \/ RecordOpen
  \/ FirstAudit
  \/ Loop
  \/ NotDue
  \/ PollData
  \/ PollSpectrum
  \/ Audit
  \/ Close

Next ==
  \/ Collector
  \/ SpoolFault
  \/ \E noDevice \in BOOLEAN : UsbFails(noDevice) \/ AnswerLost(noDevice)
  \/ Signal
  \/ Crash
  \/ Restart
  \/ DatabaseDown
  \/ DatabaseUp

Spec == Init /\ [][Next]_vars

\* The thread runs (every stop.wait has a timeout), the container runtime
\* restarts the process, and the database comes back: with the bounds on
\* outages, crashes and faults, all three eventually stay well.
FairSpec ==
  /\ Spec
  /\ WF_vars(Collector)
  /\ WF_vars(Restart)
  /\ WF_vars(DatabaseUp)

-----------------------------------------------------------------------------
(* Properties. *)

\* What the control points, the spool, the tables and the cache may hold; the
\* spool forgets what it acknowledges.
TypeOK ==
  /\ pc \in Labels
  /\ drainer \in {"outer", "loop", "gate"}
  /\ work \subseteq Batch
  /\ conn \in 0..MaxConnections
  /\ nextConn \in 0..MaxConnections
  /\ cur \in 0..MaxBatches
  /\ pc \in {"append", "commit", "ack", "forward", "replayAck",
            "replayForward"} => cur # 0
  /\ stop \in BOOLEAN
  /\ leaving \in BOOLEAN
  /\ cache \in 0..MaxBatches
  /\ marker \in BOOLEAN
  /\ spool \subseteq Batch
  /\ taken \in 0..MaxBatches
  /\ dbUp \in BOOLEAN
  /\ dbConns \in [Connection -> {"none", "open", "closed"}]
  /\ raw \subseteq Batch
  /\ projected \in [Batch -> Nat]
  /\ batchConn \in [Batch -> 0..MaxConnections]
  /\ batchSize \in [Batch -> Nat]
  /\ announced \in [Batch -> Nat]
  /\ lost \subseteq Batch
  /\ outages \in Nat
  /\ crashes \in Nat
  /\ faults \in Nat

\* However outages, errors, kills and restarts fall, at most one batch
\* waits in the spool: it is drained before every destructive read, so neither
\* its FIFO order nor its capacity is ever exercised by a backlog.
AtMostOneSpooled == \A a, b \in spool : a = b

\* Every batch taken from the detector is in the spool, in PostgreSQL, in the
\* hands of the one call that is about to spool it, or was lost in that call or on
\* the way to it;
\* a lost batch never reappears and a stored one was never lost.
Accounted ==
  /\ 1..taken = spool \cup raw \cup lost
                 \cup (IF pc = "append" THEN {cur} ELSE {})
  /\ lost \cap (spool \cup raw) = {}

\* A stored batch has its projections exactly once, however often its commit
\* was retried after an ambiguous failure or a crash before the acknowledgement.
ProjectedOnce ==
  \A b \in Batch : projected[b] = IF b \in raw THEN 1 ELSE 0

\* The connection row a spooled batch refers to is in PostgreSQL, so the
\* foreign key of raw_buffer_batches can never make its replay fail for good.
SpooledConnectionKnown ==
  \A b \in spool : batchConn[b] # 0 /\ dbConns[batchConn[b]] # "none"

\* Events reach MQTT at most once per batch, and only from a batch that is in
\* PostgreSQL and gone from the spool, so that no replay follows them.
EventsOnceAfterCommit ==
  \A b \in Batch :
    /\ announced[b] <= 1
    /\ announced[b] = 1 => b \in raw /\ b \notin spool

\* The batch poll_data_once works on, from its read to its events.
InHand == IF pc \in {"append", "commit", "ack", "forward"} THEN {cur} ELSE {}

\* The batches that were read and have come to nothing more, or to their rows
\* alone: their events will never be announced.  Of those that did not reach the
\* spool, only the ones it has room for.
CutShort ==
  {b \in 1..taken : announced[b] = 0 /\ (b \in lost => batchSize[b] <= SpoolMax)} \ InHand

\* Whatever recovers from a failure, no failure costs more than the batch at hand:
\* at most as many batches are lost, or replayed without their events, as there
\* were outages, kills, SQLite errors and answers lost on their way; a USB error
\* costs a batch only in the destructive read itself.  A batch the spool has room
\* for when it is empty never fails for lack of room.
FailuresCostOneBatch == Cardinality(CutShort) <= outages + crashes + faults

\* Events are only announced on the connection their batch was read on: what is
\* replayed from an earlier one, or from an earlier life, stays silent.
NoStaleEvents ==
  [][\A b \in Batch : announced'[b] # announced[b]
       => conn # 0 /\ batchConn[b] = conn]_vars

\* Batches enter PostgreSQL in the order in which they were read, although the
\* spool's order is by wall clock and the first attempt does not go through it.
OrderedCommits ==
  [][\A b \in raw' \ raw : \A c \in raw : c < b]_vars

\* The destructive read is only issued with an empty spool and a connection
\* that PostgreSQL knows, even if the database has failed since it was checked.
ReadOnlyWhenDrained ==
  [][taken' # taken => /\ spool = {}
                       /\ conn # 0
                       /\ dbConns[conn] # "none"]_vars

\* Within one life of the process, the telemetry shown on MQTT never goes back
\* to an older batch, although replays refresh it too.
CacheNeverRegresses == [][pc # "down" => cache <= cache']_vars

\* Every spooled batch is eventually in PostgreSQL and out of the spool.
SpoolDrains ==
  \A b \in Batch : b \in spool ~> b \in raw /\ b \notin spool

\* The inductive invariant behind the safety properties.  What the control
\* point says about the spool and the batch in hand:
ControlInv ==
  /\ pc \in {"connect", "firmware", "open", "firstAudit", "poll", "reserve",
            "read", "append", "forward", "spectrum", "audit"} => spool = {}
  /\ pc \in {"commit", "ack"} => spool = {cur}
  /\ pc \in {"replay", "replayAck", "replayForward"} => work = spool
  /\ pc = "replayAck" => cur \in spool
  /\ pc = "replayForward" => cur \notin spool
  /\ pc \in {"ack", "forward", "replayAck", "replayForward"} => cur \in raw
  /\ pc = "append" => cur = taken /\ cur # 0 /\ cur \notin spool \cup raw \cup lost

InConnection ==
  \/ pc \in {"firstAudit", "loop", "poll", "reserve", "read", "append",
             "commit", "ack", "forward", "spectrum", "audit"}
  \/ pc \in {"drain", "replay", "replayAck", "replayForward"} /\ drainer # "outer"

\* ... about the connection in use and those the spooled batches refer to:
ConnectionInv ==
  /\ InConnection => conn # 0 /\ dbConns[conn] # "none"
  /\ pc \in {"firmware", "open"} => conn # 0
  /\ pc \in {"append", "commit", "ack", "forward"} => batchConn[cur] = conn
  /\ SpooledConnectionKnown

\* ... about the order of what is spooled, stored and shown:
OrderInv ==
  /\ \A b \in spool : \A c \in raw : c <= b
  /\ pc \in {"forward", "replayForward"} => \A c \in raw : c <= cur
  /\ cache \in raw \cup {0}

\* ... and about what was handed to MQTT.
EventInv ==
  /\ EventsOnceAfterCommit
  /\ pc = "forward" => announced[cur] = 0

SafeInv ==
  /\ ControlInv
  /\ AtMostOneSpooled
  /\ Accounted
  /\ ProjectedOnce
  /\ ConnectionInv
  /\ OrderInv
  /\ EventInv

IndInv == TypeOK /\ SafeInv

\* What the failures so far have cost, and may cost still: of an outage that
\* began after the health check of poll_data_once, the batch it goes on to read.
Owed ==
  IF ~dbUp /\ pc \in {"reserve", "read", "append", "commit", "ack", "forward"} THEN 1 ELSE 0

BudgetInv ==
  /\ drainer # "gate"
  /\ Cardinality(CutShort) + Owed <= outages + crashes + faults

Ledger == INSTANCE DurableLedger WITH
  inflight <- IF pc = "append" THEN cur ELSE 0,
  pending <- spool \ raw,
  ledger <- raw

\* The collector, its spool and PostgreSQL together implement the ledger.
ImplementsLedger == Ledger!Spec
=============================================================================
