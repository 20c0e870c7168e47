---------------------------- MODULE SpectrumLedger ----------------------------
(***************************************************************************)
(* The cumulative spectrum of one detector and the rows it becomes: the    *)
(* pure state machine advance_spectrum_state, the transaction of           *)
(* commit_spectrum around it, and the audit snapshots that share its       *)
(* calibration epochs.                                                     *)
(*                                                                         *)
(* The detector is left free: it may count on, be reset, be recalibrated   *)
(* or change its channel count, so any reading may follow any other.  The  *)
(* collector reads, and later commits or fails; each transaction is one    *)
(* action.  A commit whose reply is lost is a commit followed by           *)
(* Reconnect, because the collector never retries a spectrum: it reads a   *)
(* new one.                                                                *)
(*                                                                         *)
(* A spectrum of n channels is a function on all of Channel that is zero   *)
(* above n; times count clock readings from 1, and 0 is SQL NULL, as it is *)
(* for row ids.                                                            *)
(***************************************************************************)
EXTENDS Integers, Sequences

CONSTANTS
  Readings,          \* what spectrum() can answer
  Audits,            \* what spectrum_accum() can answer
  Calibrations,      \* coefficient triples
  MaxChannels,       \* bound: channels of any reading
  ExpectedChannels,  \* channel counts the first reading may have
  FrameTarget,       \* frame_target_seconds
  UINT32_MAX,        \* largest count the encoding holds
  MaxTime,           \* bound: the wall clock
  MaxStepsBack,      \* bound: how often the wall clock is set back
  MaxConnections,    \* bound: connections
  MaxSessions        \* bound: spectrum sessions

Channel == 1..MaxChannels
Counts == [Channel -> Nat]

Spectrum ==
  [duration : Int, calibration : Calibrations, channels : Nat, counts : Counts]

ASSUME ReadingsAssumption ==
  /\ Readings # {} /\ Readings \subseteq Spectrum
  /\ Audits \subseteq Spectrum

ASSUME SettingsAssumption ==
  /\ MaxChannels \in Nat
  /\ FrameTarget \in Nat \ {0}
  /\ UINT32_MAX \in Nat

ASSUME BoundsAssumption ==
  /\ MaxTime \in Nat \ {0}
  /\ MaxStepsBack \in Nat
  /\ MaxConnections \in Nat \ {0}
  /\ MaxSessions \in Nat

VARIABLES
  now,         \* the wall clock utcnow() reads
  stepsBack,   \* times the clock was set back
  connection,  \* connection_id of the current USB connection
  polled,      \* the observation the collector holds
  (* PostgreSQL *)
  epochs,      \* calibration_epochs
  sessions,    \* spectrum_sessions
  cursor,      \* the spectrum_cursors row, session 0 for no row
  accumulator, \* the spectrum_frame_accumulators row, session 0 for no row
  frames,      \* spectrum_frames, without the counts (see book)
  gaps,        \* data_gaps
  snapshots,   \* spectrum_snapshots, by calibration
  (* observer *)
  book         \* per session: first and last spectrum, and SUM over its frames

clockVars == <<now, stepsBack>>
liveVars == <<sessions, cursor, accumulator, frames, gaps, book>>
vars == <<clockVars, connection, polled, epochs, liveVars, snapshots>>

Zero == [c \in Channel |-> 0]
Plus(a, b) == [c \in Channel |-> a[c] + b[c]]

NoCursor ==
  [session |-> 0, connection |-> 0, epoch |-> 0, observed |-> 0,
   duration |-> 0, channels |-> 0, counts |-> Zero]

NoAccumulator ==
  [session |-> 0, started |-> 0, ended |-> 0, duration |-> 0,
   counts |-> Zero, flags |-> {}, through |-> {}]

Idle == [kind |-> "idle", at |-> 0, spectrum |-> CHOOSE r \in Readings : TRUE]

Init ==
  /\ now = 1
  /\ stepsBack = 0
  /\ connection = 1
  /\ polled = Idle
  /\ epochs = << >>
  /\ sessions = << >>
  /\ cursor = NoCursor
  /\ accumulator = NoAccumulator
  /\ frames = << >>
  /\ gaps = << >>
  /\ snapshots = {}
  /\ book = << >>

-----------------------------------------------------------------------------
(* The state machine, as a function of the stored state and a reading r.   *)

\* calibration_fingerprint hashes the channel count and the coefficients.
Fingerprint(r) == <<r.channels, r.calibration>>

\* _validate_observation, encode_counts_uint32le and calibration_fingerprint
\* raise ValueError on anything else.
Encodable(r) ==
  /\ r.duration >= 0
  /\ r.channels >= 2
  /\ \A c \in Channel : r.counts[c] <= UINT32_MAX

\* The reason a reading cannot continue the session, in the order of the tests.
Reason(r) ==
  IF r.channels # cursor.channels THEN "channel_count_change"
  ELSE IF Fingerprint(r) # epochs[cursor.epoch].fingerprint THEN "calibration_change"
  ELSE IF r.duration < cursor.duration THEN "duration_regression"
  ELSE IF \E c \in Channel : r.counts[c] < cursor.counts[c] THEN "count_regression"
  ELSE "none"

BoundaryReasons ==
  {"channel_count_change", "calibration_change", "duration_regression",
   "count_regression"}

Delta(r) == [c \in Channel |-> r.counts[c] - cursor.counts[c]]

\* Counts that grew while the duration stood still.
Anomalous(r) == r.duration = cursor.duration /\ Delta(r) # Zero

Quiet(r) == r.duration = cursor.duration /\ Delta(r) = Zero

Warnings(r) ==
  {w \in {"session_continued_across_reconnect", "counts_changed_without_duration_change"} :
     IF w = "session_continued_across_reconnect"
     THEN connection # cursor.connection
     ELSE Anomalous(r)}

\* The frame accumulator with the delta of a reading taken at that time added.
\* through, an observer, collects the connections the deltas were read across.
Grown(r, at) ==
  [session  |-> cursor.session,
   started  |-> IF accumulator.session = 0 THEN cursor.observed ELSE accumulator.started,
   ended    |-> at,
   duration |-> accumulator.duration + (r.duration - cursor.duration),
   counts   |-> Plus(accumulator.counts, Delta(r)),
   flags    |-> accumulator.flags \cup Warnings(r),
   through  |-> accumulator.through \cup {cursor.connection, connection}]

NewCursor(r, at, session, epoch) ==
  [session |-> session, connection |-> connection, epoch |-> epoch,
   observed |-> at, duration |-> r.duration, channels |-> r.channels,
   counts |-> r.counts]

\* A frame row made of an accumulator.
Frame(a, epoch, flags) ==
  [session |-> a.session, epoch |-> epoch, started |-> a.started,
   ended |-> a.ended, duration |-> a.duration, flags |-> flags,
   through |-> a.through]

-----------------------------------------------------------------------------
(* Calibration epochs. *)

OpenEpochs == {e \in DOMAIN epochs : epochs[e].ended = 0}
Matching(r) == {e \in DOMAIN epochs : epochs[e].fingerprint = Fingerprint(r)}

\* _ensure_calibration_epoch: the id it returns, ...
EpochOf(r) ==
  IF OpenEpochs \cap Matching(r) # {}
  THEN CHOOSE e \in OpenEpochs \cap Matching(r) : TRUE
  ELSE Len(epochs) + 1

\* ... and the table it leaves.
EpochsWith(r, at) ==
  IF OpenEpochs \cap Matching(r) # {}
  THEN epochs
  ELSE Append([e \in DOMAIN epochs |->
                 IF e \in OpenEpochs THEN [epochs[e] EXCEPT !.ended = at] ELSE epochs[e]],
              [fingerprint |-> Fingerprint(r), started |-> at, ended |-> 0])

\* CHECK (ended_at >= started_at) on the epoch a commit would close.
EpochCloses(r, at) ==
  OpenEpochs \cap Matching(r) = {} => \A e \in OpenEpochs : at >= epochs[e].started

\* What the code raises ValueError or DatabaseIntegrityError for after the
\* reading itself was found valid.
Corrupt(r) ==
  /\ cursor.session # 0
  /\ \/ /\ OpenEpochs \cap Matching(r) # {}
        /\ EpochOf(r) # cursor.epoch
     \/ /\ Reason(r) = "none"
        /\ ~Quiet(r)
        /\ accumulator.session # 0
        /\ \/ accumulator.session # cursor.session
           \/ \E c \in Channel : accumulator.counts[c] + Delta(r)[c] > UINT32_MAX

-----------------------------------------------------------------------------
(* Actions. *)

\* poll_spectrum_once and audit_accumulated_once up to the database call: the
\* observation carries the wall clock of the moment before the USB command.
Read(kind, r) ==
  /\ polled.kind = "idle"
  /\ polled' = [kind |-> kind, at |-> now, spectrum |-> r]
  /\ UNCHANGED <<clockVars, connection, epochs, liveVars, snapshots>>

ReadSpectrum == \E r \in Readings : Read("spectrum", r)
ReadAccumulated == \E r \in Audits : Read("accumulated", r)

\* The transaction did not commit, for any reason: the reading is invalid, a
\* CHECK failed, PostgreSQL went away, the process died.  The observation is
\* dropped.
Abandon ==
  /\ polled.kind # "idle"
  /\ polled' = Idle
  /\ UNCHANGED <<clockVars, connection, epochs, liveVars, snapshots>>

\* The first reading ever stored for the device.
CommitFirst ==
  LET r == polled.spectrum
      at == polled.at
  IN /\ polled.kind = "spectrum"
     /\ Encodable(r)
     /\ cursor.session = 0
     /\ r.channels \in ExpectedChannels
     /\ Len(sessions) < MaxSessions
     /\ EpochCloses(r, at)
     /\ polled' = Idle
     /\ epochs' = EpochsWith(r, at)
     /\ sessions' = Append(sessions, [epoch |-> EpochOf(r), started |-> at,
                                      ended |-> 0, reason |-> "none"])
     /\ cursor' = NewCursor(r, at, Len(sessions) + 1, EpochOf(r))
     /\ accumulator' = NoAccumulator
     /\ book' = Append(book, [first |-> r, last |-> r, framed |-> Zero, framedDuration |-> 0])
     /\ UNCHANGED <<clockVars, connection, frames, gaps, snapshots>>

\* A reading that cannot continue the session: close it, keep what was
\* accumulated as a partial frame under an epoch, record the gap against a
\* session and start the next session.
Boundary(partial, epoch, gapSession) ==
  LET r == polled.spectrum
      at == polled.at
      s == cursor.session
  IN /\ polled.kind = "spectrum"
     /\ Encodable(r)
     /\ s # 0
     /\ Reason(r) # "none"
     /\ ~Corrupt(r)
     /\ Len(sessions) < MaxSessions
     /\ EpochCloses(r, at)
     /\ at >= sessions[s].started
     /\ partial.ended >= partial.started
     /\ polled' = Idle
     /\ epochs' = EpochsWith(r, at)
     /\ sessions' = Append([sessions EXCEPT ![s].ended = at, ![s].reason = Reason(r)],
                           [epoch |-> EpochOf(r), started |-> at,
                            ended |-> 0, reason |-> "none"])
     /\ frames' = IF partial.session = 0
                  THEN frames
                  ELSE Append(frames,
                         Frame(partial, epoch,
                               partial.flags \cup {"partial_frame_on_session_boundary"}))
     /\ gaps' = Append(gaps, [session |-> gapSession, reason |-> Reason(r)])
     /\ cursor' = NewCursor(r, at, Len(sessions) + 1, EpochOf(r))
     /\ accumulator' = NoAccumulator
     /\ book' = Append([book EXCEPT
                          ![s].framed = Plus(@, partial.counts),
                          ![s].framedDuration = @ + partial.duration],
                       [first |-> r, last |-> r, framed |-> Zero, framedDuration |-> 0])
     /\ UNCHANGED <<clockVars, connection, snapshots>>

\* Mutant: the boundary drops the partial frame with the accumulator.
BoundaryDropsPartial == Boundary(NoAccumulator, cursor.epoch, cursor.session)

\* Mutant: the partial frame is stored under the epoch of the new reading.
BoundaryUsesNewEpoch == Boundary(accumulator, EpochOf(polled.spectrum), cursor.session)

\* Mutant: the gap is reported against the session that starts.
BoundaryReportsNewSession == Boundary(accumulator, cursor.epoch, Len(sessions) + 1)

\* The code keeps the accumulator, its epoch and its session.
CommitBoundary == Boundary(accumulator, cursor.epoch, cursor.session)

\* What the commits that continue the session have in common.
Continues ==
  LET r == polled.spectrum
  IN /\ polled.kind = "spectrum"
     /\ Encodable(r)
     /\ cursor.session # 0
     /\ Reason(r) = "none"
     /\ ~Corrupt(r)
     /\ EpochCloses(r, polled.at)
     /\ polled' = Idle
     /\ epochs' = EpochsWith(r, polled.at)
     /\ cursor' = NewCursor(r, polled.at, cursor.session, EpochOf(r))
     /\ gaps' = IF Anomalous(r)
                THEN Append(gaps, [session |-> cursor.session,
                                   reason |-> "counts_changed_without_duration_change"])
                ELSE gaps
     /\ UNCHANGED <<clockVars, connection, sessions, snapshots>>

\* Nothing was counted since the last commit: only the cursor moves.
CommitQuiet ==
  /\ Continues
  /\ Quiet(polled.spectrum)
  /\ book' = [book EXCEPT ![cursor.session].last = polled.spectrum]
  /\ UNCHANGED <<accumulator, frames>>

\* The accumulator stays below the frame target.
CommitDelta ==
  /\ Continues
  /\ ~Quiet(polled.spectrum)
  /\ Grown(polled.spectrum, polled.at).duration < FrameTarget
  /\ accumulator' = Grown(polled.spectrum, polled.at)
  /\ book' = [book EXCEPT ![cursor.session].last = polled.spectrum]
  /\ UNCHANGED frames

\* The accumulator reaches a target, becomes a frame, whole, and is replaced.
FrameAt(target, rest) ==
  LET a == Grown(polled.spectrum, polled.at)
  IN /\ Continues
     /\ ~Quiet(polled.spectrum)
     /\ a.duration >= target
     /\ a.ended >= a.started
     /\ frames' = Append(frames, Frame(a, EpochOf(polled.spectrum), a.flags))
     /\ accumulator' = rest
     /\ book' = [book EXCEPT ![cursor.session].last = polled.spectrum,
                             ![cursor.session].framed = Plus(@, a.counts),
                             ![cursor.session].framedDuration = @ + a.duration]

\* Mutant: the accumulator is not deleted when it becomes a frame.
FrameKeepsAccumulator == FrameAt(FrameTarget, Grown(polled.spectrum, polled.at))

\* Mutant: the accumulator becomes a frame before it reaches the target.
FrameEveryDelta == FrameAt(1, NoAccumulator)

CommitFrame == FrameAt(FrameTarget, NoAccumulator)

\* _snapshot_calibration_epoch finds the open or else the latest epoch with
\* the fingerprint ...
Preferred(r) ==
  {e \in Matching(r) :
     \A f \in Matching(r) :
       /\ f \in OpenEpochs => e \in OpenEpochs
       /\ (f \in OpenEpochs <=> e \in OpenEpochs) => epochs[f].started <= epochs[e].started}

\* ... and store_accumulated_snapshot refers to it,
StoreSnapshotKnown ==
  /\ polled.kind = "accumulated"
  /\ Encodable(polled.spectrum)
  /\ \E e \in Preferred(polled.spectrum) :
       snapshots' = snapshots \cup {[epoch |-> e, fingerprint |-> Fingerprint(polled.spectrum)]}
  /\ polled' = Idle
  /\ UNCHANGED <<clockVars, connection, epochs, liveVars>>

\* Mutant: an audit snapshot opens its epoch the way the live spectrum does.
SnapshotOpensEpoch ==
  /\ polled.kind = "accumulated"
  /\ Encodable(polled.spectrum)
  /\ Matching(polled.spectrum) = {}
  /\ epochs' = EpochsWith(polled.spectrum, polled.at)
  /\ snapshots' = snapshots \cup {[epoch |-> Len(epochs) + 1,
                                   fingerprint |-> Fingerprint(polled.spectrum)]}
  /\ polled' = Idle
  /\ UNCHANGED <<clockVars, connection, liveVars>>

\* or else to an epoch of its own that is closed from the start.
StoreSnapshotNew ==
  /\ polled.kind = "accumulated"
  /\ Encodable(polled.spectrum)
  /\ Matching(polled.spectrum) = {}
  /\ epochs' = Append(epochs, [fingerprint |-> Fingerprint(polled.spectrum),
                               started |-> polled.at, ended |-> polled.at])
  /\ snapshots' = snapshots \cup {[epoch |-> Len(epochs) + 1,
                                   fingerprint |-> Fingerprint(polled.spectrum)]}
  /\ polled' = Idle
  /\ UNCHANGED <<clockVars, connection, liveVars>>

\* The collector closes the device and opens it again.
Reconnect ==
  /\ polled.kind = "idle"
  /\ connection < MaxConnections
  /\ connection' = connection + 1
  /\ UNCHANGED <<clockVars, polled, epochs, liveVars, snapshots>>

Tick ==
  /\ now < MaxTime
  /\ now' = now + 1
  /\ UNCHANGED <<stepsBack, connection, polled, epochs, liveVars, snapshots>>

\* The node's clock is corrected backwards.
StepBack ==
  /\ stepsBack < MaxStepsBack
  /\ stepsBack' = stepsBack + 1
  /\ now' \in 1..(now - 1)
  /\ UNCHANGED <<connection, polled, epochs, liveVars, snapshots>>

Next ==
  \/ ReadSpectrum
  \/ ReadAccumulated
  \/ Abandon
  \/ CommitFirst
  \/ CommitBoundary
  \/ CommitQuiet
  \/ CommitDelta
  \/ CommitFrame
  \/ StoreSnapshotKnown
  \/ StoreSnapshotNew
  \/ Reconnect
  \/ Tick
  \/ StepBack

Spec == Init /\ [][Next]_vars

-----------------------------------------------------------------------------
(* Properties. *)

Id == Nat
Time == 0..MaxTime
Flags ==
  {"session_continued_across_reconnect", "counts_changed_without_duration_change",
   "partial_frame_on_session_boundary"}
GapKinds == BoundaryReasons \cup {"counts_changed_without_duration_change"}

EpochRow == [fingerprint : Nat \X Calibrations, started : Time, ended : Time]
SessionRow ==
  [epoch : Id, started : Time, ended : Time, reason : BoundaryReasons \cup {"none"}]
FrameRow ==
  [session : Id, epoch : Id, started : Time, ended : Time, duration : Int,
   flags : SUBSET Flags, through : SUBSET Nat]
CursorRow ==
  [session : Id, connection : Nat, epoch : Id, observed : Time,
   duration : Nat, channels : Nat, counts : Counts]
AccumulatorRow ==
  [session : Id, started : Time, ended : Time, duration : Nat,
   counts : Counts, flags : SUBSET Flags, through : SUBSET Nat]
GapRow == [session : Id, reason : GapKinds]
BookRow ==
  [first : Spectrum, last : Spectrum, framed : Counts, framedDuration : Nat]

\* Every table holds rows of its own shape, and no stored count is negative.
TypeOK ==
  /\ now \in 1..MaxTime
  /\ stepsBack \in 0..MaxStepsBack
  /\ connection \in 1..MaxConnections
  /\ polled \in [kind : {"idle", "spectrum", "accumulated"}, at : Time, spectrum : Spectrum]
  /\ epochs \in Seq(EpochRow)
  /\ sessions \in Seq(SessionRow)
  /\ cursor \in CursorRow
  /\ accumulator \in AccumulatorRow
  /\ frames \in Seq(FrameRow)
  /\ gaps \in Seq(GapRow)
  /\ snapshots \in SUBSET [epoch : Id, fingerprint : Nat \X Calibrations]
  /\ book \in Seq(BookRow)

\* What the last committed reading of a session counted, and the part of it
\* that is still in the accumulator.
Counted(s) == IF s = cursor.session THEN cursor.counts ELSE book[s].last.counts
Lasted(s) == IF s = cursor.session THEN cursor.duration ELSE book[s].last.duration
Held(s) == IF s = accumulator.session THEN accumulator.counts ELSE Zero
HeldDuration(s) == IF s = accumulator.session THEN accumulator.duration ELSE 0

\* No count and no second is lost, split or stored twice: in every session and
\* channel the first reading, the frames and the accumulator add up to the
\* last committed reading, across reconnects, resets, failed commits and
\* boundaries (README.md: "converted into exact, unsplit deltas").
Conserved ==
  \A s \in DOMAIN book :
    /\ \A c \in Channel :
         book[s].first.counts[c] + book[s].framed[c] + Held(s)[c] = Counted(s)[c]
    /\ book[s].first.duration + book[s].framedDuration + HeldDuration(s) = Lasted(s)

\* Audit snapshots, boundaries and failed commits leave one live chain: the
\* cursor points at the only open session, and that at the only open epoch.
Anchored ==
  /\ \A s \in DOMAIN sessions : sessions[s].ended = 0 <=> s = cursor.session
  /\ \A e \in DOMAIN epochs : epochs[e].ended = 0 <=> e = cursor.epoch
  /\ cursor.session # 0 =>
       /\ cursor.session = Len(sessions)
       /\ cursor.epoch \in DOMAIN epochs
       /\ sessions[cursor.session].epoch = cursor.epoch
  /\ accumulator.session \in {0, cursor.session}

\* A frame belongs to the calibration its counts were measured under: its
\* epoch is its session's, and carries the fingerprint of the first and of
\* the last reading of the session (README.md: "Frames remain separated by
\* device and calibration epoch").  The same holds of an audit snapshot.
Calibrated ==
  /\ \A s \in DOMAIN sessions :
       /\ sessions[s].epoch \in DOMAIN epochs
       /\ epochs[sessions[s].epoch].fingerprint = Fingerprint(book[s].first)
       /\ epochs[sessions[s].epoch].fingerprint = Fingerprint(book[s].last)
  /\ \A f \in DOMAIN frames :
       /\ frames[f].session \in DOMAIN sessions
       /\ frames[f].epoch = sessions[frames[f].session].epoch
  /\ \A x \in snapshots :
       x.epoch \in DOMAIN epochs /\ epochs[x.epoch].fingerprint = x.fingerprint

\* The accumulator overflow, the accumulator of another session and the cursor
\* off the open epoch, for which the code raises, cannot happen whatever the
\* detector answers.
GuardsUnreachable == \A r \in Readings : Encodable(r) => ~Corrupt(r)

\* Only the last frame of a closed session may be shorter than the target, and
\* it says so: intervals are never split and never flushed early.
ShortFramesArePartial ==
  \A f \in DOMAIN frames :
    frames[f].duration < FrameTarget =>
      /\ "partial_frame_on_session_boundary" \in frames[f].flags
      /\ frames[f].session # cursor.session
      /\ \A g \in DOMAIN frames : frames[g].session = frames[f].session => g <= f

\* Every session that ended has exactly one boundary gap, of the reason it
\* ended for; the open session has none.
ClosedSessionsExplained ==
  \A s \in DOMAIN sessions :
    LET reported == {g \in DOMAIN gaps :
                       gaps[g].session = s /\ gaps[g].reason \in BoundaryReasons}
    IN IF sessions[s].ended = 0
       THEN reported = {}
       ELSE \E g \in reported : reported = {g} /\ gaps[g].reason = sessions[s].reason

\* Within a session the stored spectrum only grows: a reset or a
\* recalibration is never folded into it.
CursorGrows ==
  [][cursor'.session = cursor.session =>
       /\ cursor'.duration >= cursor.duration
       /\ cursor'.channels = cursor.channels
       /\ \A c \in Channel : cursor'.counts[c] >= cursor.counts[c]]_vars

\* Frames follow each other in time in the order they were stored, also across
\* sessions, as long as the wall clock is never set back.
FramesDisjoint ==
  stepsBack = 0 =>
    \A f, g \in DOMAIN frames : f < g => frames[f].ended <= frames[g].started

-----------------------------------------------------------------------------
(* What the path promises. *)

Meters == 0..MaxChannels
Totals(duration, counts) == [m \in Meters |-> IF m = 0 THEN duration ELSE counts[m]]
Reports == {[mark |-> Fingerprint(r), meters |-> Totals(r.duration, r.counts)] : r \in Readings}

RunOf(b) ==
  [mark   |-> Fingerprint(b.first),
   first  |-> Totals(b.first.duration, b.first.counts),
   last   |-> Totals(b.last.duration, b.last.counts),
   framed |-> Totals(b.framedDuration, b.framed)]
RunsOf(table) == [s \in DOMAIN table |-> RunOf(table[s])]

RowOf(f) ==
  [run |-> f.session, seconds |-> f.duration,
   partial |-> "partial_frame_on_session_boundary" \in f.flags]
RowsOf(table) == [f \in DOMAIN table |-> RowOf(table[f])]

Exact ==
  INSTANCE ExactFrames WITH
    Readings <- Reports, Seconds <- 0, Target <- FrameTarget,
    runs <- RunsOf(book), rows <- RowsOf(frames)

\* Every commit, and every commit that fails, keeps the promise: a frame holds
\* all that was counted since the one before, is stored as soon as it is long
\* enough, or short at the end of its session; a session ends exactly when the
\* detector no longer continues it, and is not touched afterwards.
ImplementsExactFrames == Exact!Spec

-----------------------------------------------------------------------------
(* What the provable properties need to be inductive. *)

\* The rows of a session, of the cursor and of the observer's book belong
\* together, times are set, and nothing is left behind in a deleted row.
Linked ==
  /\ polled.kind # "idle" => polled.at \in 1..MaxTime
  /\ Len(book) = Len(sessions)
  /\ cursor.session = Len(sessions)
  /\ cursor.session = 0 => cursor.epoch = 0
  /\ \A s \in DOMAIN book : Encodable(book[s].first) /\ Encodable(book[s].last)
  /\ cursor.session # 0 =>
       /\ cursor.duration = book[cursor.session].last.duration
       /\ cursor.channels = book[cursor.session].last.channels
       /\ cursor.counts = book[cursor.session].last.counts
  /\ accumulator.session = 0 =>
       accumulator.counts = Zero /\ accumulator.duration = 0

IndInv == TypeOK /\ Linked /\ Anchored /\ Calibrated /\ Conserved

-----------------------------------------------------------------------------
(* What the code does not keep, although its tests or its schema say so.   *)

\* A frame whose counts were read across more than one connection keeps the
\* warning of the reconnect
\* (tests/test_spectrum_state.py: "reconnect warning is retained in the
\* eventual frame").
ReconnectsFlagged ==
  \A f \in DOMAIN frames :
    (\E x, y \in frames[f].through : x # y) =>
      "session_continued_across_reconnect" \in frames[f].flags

\* The accumulator can always be stored as a frame, which a session boundary
\* needs: spectrum_frames has CHECK (ended_at >= started_at).
Flushable == accumulator.session # 0 => accumulator.ended >= accumulator.started

\* Nothing else stands in the way: of no reading a detector can send, and in no
\* order, does the state machine come to a state it cannot leave.  What the code
\* raises for does not happen whatever the clock does; no CHECK of the schema
\* rejects a transaction as long as the clock is never set back.
ReadingsStorable ==
  LET r == polled.spectrum
      at == polled.at
  IN polled.kind = "spectrum" /\ Encodable(r) /\ cursor.session # 0 =>
       /\ ~Corrupt(r)
       /\ stepsBack = 0 =>
            /\ EpochCloses(r, at)
            /\ sessions[cursor.session].started <= at
            /\ Flushable
            /\ Grown(r, at).started <= Grown(r, at).ended
=============================================================================
