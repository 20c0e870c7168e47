---------------------------- MODULE SpectrumRollup ----------------------------
(***************************************************************************)
(* Spectrum frames of one detector, the hourly and daily rollups the       *)
(* maintenance job makes of them, and the public query that mixes rollups  *)
(* with raw frames.                                                        *)
(*                                                                         *)
(* A frame ends at the reading that completed it, or, when its session was *)
(* cut short, at the last reading before: the commit may come any time     *)
(* later.  The job is one transaction whose statements each see what was   *)
(* committed when they started; two runs of it are kept apart by the row   *)
(* of the minute watermark, which both write first (ScalarRollup).         *)
(*                                                                         *)
(* One channel stands for all: segments split on the first that overflows. *)
(* A frame is its index in frames, in the order of the commits.            *)
(***************************************************************************)
EXTENDS Integers, Sequences, FiniteSets, FiniteSetsExt, SequencesExt

CONSTANTS
  HourLength,   \* clock units in an hour
  DayLength,    \* clock units in a day
  Epochs,       \* calibration epochs
  Counts,       \* counts of a frame
  UINT32_MAX,   \* largest count the encoding holds
  MaxTime,      \* bound: the clock
  MaxFrames     \* bound: frames

ASSUME LengthsAssumption ==
  /\ HourLength \in Nat \ {0}
  /\ DayLength \in Nat \ {0}

ASSUME CountsAssumption == Counts \subseteq 0..UINT32_MAX /\ UINT32_MAX \in Nat

ASSUME BoundsAssumption == MaxTime \in Nat \ {0} /\ MaxFrames \in Nat

VARIABLES
  now,
  observed,     \* observed_at of the reading being committed, 0 for none
  accumulated,  \* ended_at of the frame accumulator, 0 for none
  frames,       \* spectrum_frames
  rollups,      \* spectrum_rollups
  watermarks,   \* rollup_watermarks: resolution -> time, for rows that exist
  (* the maintenance run *)
  pc,
  resolution,   \* of the loop in _roll_up_spectra
  jobNow,       \* now in _roll_up_spectra
  draft,        \* spectrum_rollups as the run sees it
  draftMarks    \* rollup_watermarks as the run sees it

sourceVars == <<now, observed, accumulated, frames>>
jobVars == <<pc, resolution, jobNow, draft, draftMarks>>
vars == <<sourceVars, rollups, watermarks, jobVars>>

Resolutions == {"hour", "day"}
Length(res) == IF res = "hour" THEN HourLength ELSE DayLength
Time == 0..MaxTime

Floor(time, res) == (time \div Length(res)) * Length(res)

\* late, the resolutions whose length passed between the end of the frame and
\* its commit, is no column: only properties refer to it.
Frame == [ended : Time, epoch : Epochs, counts : Counts, late : SUBSET Resolutions]

Ids == DOMAIN frames

\* The columns of a row are sums over the frames it is made of.
Rollup == [resolution : Resolutions, epoch : Epochs, bucket : Time,
           segment : 0..(MaxFrames - 1), sources : SUBSET (1..MaxFrames)]

BucketOf(f, res) == Floor(frames[f].ended, res)

InGroup(f, res, epoch, bucket) ==
  frames[f].epoch = epoch /\ BucketOf(f, res) = bucket

TotalOf(ids) == MapThenSumSet(LAMBDA f : frames[f].counts, ids)

Init ==
  /\ now = 1
  /\ observed = 0
  /\ accumulated = 0
  /\ frames = <<>>
  /\ rollups = {}
  /\ watermarks = <<>>
  /\ pc = "idle"
  /\ resolution = "hour"
  /\ jobNow = 0
  /\ draft = {}
  /\ draftMarks = <<>>

-----------------------------------------------------------------------------
(* The collector's spectrum poll, as far as frames are concerned. *)

ReadSpectrum ==
  /\ observed = 0
  /\ observed' = now
  /\ UNCHANGED <<now, accumulated, frames, rollups, watermarks, jobVars>>

\* An epoch that was closed is never used again.
Store(ended) ==
  /\ Len(frames) < MaxFrames
  /\ \E e \in Epochs, c \in Counts :
       /\ \/ frames # <<>> /\ e = Last(frames).epoch
          \/ \A f \in Ids : frames[f].epoch # e
       /\ frames' = Append(frames,
            [ended |-> ended, epoch |-> e, counts |-> c,
             late |-> {res \in Resolutions : now - ended > Length(res)}])

\* The reading only adds to the accumulator, or completes its frame, or begins
\* a session, which stores the frame of the last one as it is; or nothing is
\* committed.
CommitSpectrum ==
  /\ observed # 0
  /\ \/ accumulated' = observed /\ UNCHANGED frames
     \/ accumulated' = 0 /\ Store(observed)
     \/ accumulated # 0 /\ accumulated' = 0 /\ Store(accumulated)
     \/ UNCHANGED <<accumulated, frames>>
  /\ observed' = 0
  /\ UNCHANGED <<now, rollups, watermarks, jobVars>>

Tick ==
  /\ now < MaxTime
  /\ now' = now + 1
  /\ UNCHANGED <<observed, accumulated, frames, rollups, watermarks, jobVars>>

-----------------------------------------------------------------------------
(* _segment_frames, _upsert_spectrum_rollups, _stream_spectrum_rollups. *)

\* The end of the cursor's order, within an epoch; equal times fall to a random id.
Latest(ids) ==
  CHOOSE f \in ids :
    \A g \in ids : \/ frames[g].ended < frames[f].ended
                   \/ frames[g].ended = frames[f].ended /\ g <= f

Joined(segments, i, f) == [segments EXCEPT ![i] = @ \cup {f}]

\* Mutant: a frame always joins the last segment.
AddUnbounded(segments, f) == Joined(segments, Len(segments), f)

\* Mutant: a frame joins the first segment with room.
AddFirstFit(segments, f) ==
  LET room == {i \in DOMAIN segments : TotalOf(segments[i] \cup {f}) <= UINT32_MAX}
  IN IF room # {} THEN Joined(segments, Min(room), f) ELSE Append(segments, {f})

\* A frame joins the last segment, unless that would overflow.
Add(segments, f) ==
  LET last == segments[Len(segments)]
  IN IF last = {} \/ TotalOf(last \cup {f}) <= UINT32_MAX
     THEN Joined(segments, Len(segments), f)
     ELSE Append(segments, {f})

Segments(ids) ==
  LET upTo[s \in SUBSET ids] ==
        IF s = {} THEN <<{}>> ELSE Add(upTo[s \ {Latest(s)}], Latest(s))
  IN upTo[ids]

SegmentRows(res, epoch, bucket, ids) ==
  LET segments == Segments(ids)
  IN {[resolution |-> res, epoch |-> epoch, bucket |-> bucket,
       segment |-> i - 1, sources |-> segments[i]] : i \in DOMAIN segments}

Groups(res, ids) == {<<frames[f].epoch, BucketOf(f, res)>> : f \in ids}

\* Every group's rows are replaced: ON CONFLICT DO UPDATE up to the number of
\* its segments, DELETE from there on.
Upsert(rows, res, ids) ==
  {r \in rows : r.resolution # res \/ <<r.epoch, r.bucket>> \notin Groups(res, ids)}
  \cup UNION {SegmentRows(res, g[1], g[2],
                          {f \in ids : InGroup(f, res, g[1], g[2])}) :
              g \in Groups(res, ids)}

-----------------------------------------------------------------------------
(* _roll_up_spectra. *)

StartRun ==
  /\ pc = "idle"
  /\ pc' = "closed"
  /\ resolution' = "hour"
  /\ jobNow' = now
  /\ draft' = rollups
  /\ draftMarks' = watermarks
  /\ UNCHANGED <<sourceVars, rollups, watermarks>>

Boundary == Floor(jobNow, resolution)

\* Mutant: the watermark is where the scan ended.
WatermarkAtBoundary == Boundary

Watermark == Boundary - Length(resolution)

\* Mutant: the lower end is exclusive.
ClosedAfter ==
  {f \in Ids : /\ frames[f].ended < Boundary
               /\ resolution \in DOMAIN draftMarks
                    => frames[f].ended > draftMarks[resolution]}

\* The first run has no lower end.
Closed ==
  {f \in Ids : /\ frames[f].ended < Boundary
               /\ resolution \in DOMAIN draftMarks
                    => frames[f].ended >= draftMarks[resolution]}

\* Closed buckets, when the watermark is below the boundary, and the watermark.
RollClosed ==
  /\ pc = "closed"
  /\ draft' = IF resolution \in DOMAIN draftMarks
                 /\ draftMarks[resolution] >= Boundary
              THEN draft ELSE Upsert(draft, resolution, Closed)
  /\ draftMarks' = [res \in DOMAIN draftMarks \cup {resolution} |->
                      IF res = resolution THEN Watermark ELSE draftMarks[res]]
  /\ pc' = "open"
  /\ UNCHANGED <<sourceVars, rollups, watermarks, resolution, jobNow>>

\* The bucket that is still open.
RollOpen ==
  /\ pc = "open"
  /\ draft' = Upsert(draft, resolution,
                     {f \in Ids : frames[f].ended \in Boundary..(jobNow - 1)})
  /\ IF resolution = "hour"
     THEN pc' = "closed" /\ resolution' = "day"
     ELSE pc' = "commit" /\ UNCHANGED resolution
  /\ UNCHANGED <<sourceVars, rollups, watermarks, jobNow, draftMarks>>

EndRun ==
  /\ pc' = "idle"
  /\ resolution' = "hour"
  /\ jobNow' = 0
  /\ draft' = {}
  /\ draftMarks' = <<>>
  /\ UNCHANGED sourceVars

CommitRun ==
  /\ pc = "commit"
  /\ rollups' = draft
  /\ watermarks' = draftMarks
  /\ EndRun

\* An error anywhere, or the job is killed.
AbortRun ==
  /\ pc # "idle"
  /\ EndRun
  /\ UNCHANGED <<rollups, watermarks>>

Next ==
  \/ ReadSpectrum
  \/ CommitSpectrum
  \/ Tick
  \/ StartRun
  \/ RollClosed
  \/ RollOpen
  \/ CommitRun
  \/ AbortRun

Spec == Init /\ [][Next]_vars

-----------------------------------------------------------------------------
(* PublicRepository.spectra with resolution "hour" or "day". *)

Ceil(time, res) ==
  IF time = Floor(time, res) THEN time ELSE Floor(time, res) + Length(res)

Larger(a, b) == IF a < b THEN b ELSE a
Smaller(a, b) == IF a < b THEN a ELSE b

\* The last closed bucket is left to the raw frames.
RollupEnd(start, end, res) ==
  Larger(Ceil(start, res), Floor(end, res) - Length(res))

\* What each query of the request covers: [from, to), empty if from >= to.
RollupRange(start, end, res) ==
  [from |-> Ceil(start, res), to |-> RollupEnd(start, end, res)]
HeadRange(start, end, res) ==
  [from |-> start, to |-> Smaller(Ceil(start, res), end)]
TailRange(start, end, res) ==
  [from |-> Larger(RollupEnd(start, end, res), start), to |-> end]

Within(time, range) == range.from <= time /\ time < range.to

\* add_raw_range joins the second raw range to the first when they touch.
RawRanges(start, end, res) ==
  LET head == HeadRange(start, end, res)
      tail == TailRange(start, end, res)
  IN IF head.from < head.to /\ tail.from < tail.to /\ tail.from <= head.to
     THEN {[from |-> head.from, to |-> Larger(head.to, tail.to)]}
     ELSE {r \in {head, tail} : r.from < r.to}

GroupRows(res, epoch, bucket) ==
  {r \in rollups : r.resolution = res /\ r.epoch = epoch /\ r.bucket = bucket}

\* Mutant: a rollup is used whatever it was made of.
CompleteIfPresent(res) ==
  {g \in Groups(res, Ids) : GroupRows(res, g[1], g[2]) # {}}

\* complete_groups: sum(source_frame_count) equals the number of frames.
Complete(res) ==
  {g \in Groups(res, Ids) :
     MapThenSumSet(LAMBDA r : Cardinality(r.sources), GroupRows(res, g[1], g[2]))
       = Cardinality({f \in Ids : InGroup(f, res, g[1], g[2])})}

\* _query_rollups_with_fallback: rows of complete groups, other frames as they are.
SelectedRollups(res, complete, range) ==
  {r \in rollups : /\ r.resolution = res
                   /\ Within(r.bucket, range)
                   /\ <<r.epoch, r.bucket>> \in complete}

SelectedFrames(res, complete, range) ==
  {f \in Ids : /\ Within(frames[f].ended, range)
               /\ <<frames[f].epoch, BucketOf(f, res)>> \notin complete}

-----------------------------------------------------------------------------
(* Properties. *)

\* Tables and the run's view of them keep their shape; segments count from zero.
TypeOK ==
  /\ now \in Time
  /\ observed \in Time
  /\ accumulated \in Time
  /\ frames \in Seq(Frame) /\ Len(frames) <= MaxFrames
  /\ rollups \subseteq Rollup
  /\ DOMAIN watermarks \subseteq Resolutions
  /\ \A res \in DOMAIN watermarks : watermarks[res] \in Int
  /\ pc \in {"idle", "closed", "open", "commit"}
  /\ resolution \in Resolutions
  /\ jobNow \in Time
  /\ draft \subseteq Rollup
  /\ DOMAIN draftMarks \subseteq Resolutions
  /\ \A res \in DOMAIN draftMarks : draftMarks[res] \in Int

RolledUp(f, res) == \E r \in rollups : r.resolution = res /\ f \in r.sources

\* Every request the tables could serve now, of either resolution and of any
\* interval, shows each frame of the interval once and no other.
ShownOnce ==
  \A res \in Resolutions :
    LET complete == Complete(res)
    IN \A end \in Time : \A start \in 0..(end - 1) :
         LET range == RollupRange(start, end, res)
             rolled == SelectedRollups(res, complete, range)
             loose == SelectedFrames(res, complete, range)
             raw == RawRanges(start, end, res)
             timesShown(f) ==
                 Cardinality({r \in rolled : f \in r.sources})
               + (IF f \in loose THEN 1 ELSE 0)
               + Cardinality({r \in raw : Within(frames[f].ended, r)})
         IN \A f \in Ids :
              timesShown(f)
                = IF start <= frames[f].ended /\ frames[f].ended < end THEN 1 ELSE 0

\* A request returns every frame of its interval once and no other frame,
\* whether rollups are missing, out of date or split into segments.  During a
\* run it is proved (SpectrumRollupProofs), not run: a request sees nothing of
\* the draft, and an abort leads to the same tables.
EachFrameOnce == pc = "idle" => ShownOnce

\* No stored segment overflows the encoding, which would fail every later run.
SegmentsFit == \A r \in rollups : TotalOf(r.sources) <= UINT32_MAX

\* The segments of a bucket are numbered without a gap, and a later one holds
\* later frames.
SegmentsInOrder ==
  \A r \in rollups :
    LET group == {q \in rollups : /\ q.resolution = r.resolution
                                  /\ q.epoch = r.epoch
                                  /\ q.bucket = r.bucket}
    IN /\ r.segment < Cardinality(group)
       /\ \A q \in group : r.segment < q.segment =>
            \A f \in r.sources, g \in q.sources :
              frames[f].ended <= frames[g].ended

\* Rolling a bucket up again never loses a frame: a run sees whole buckets.
NothingUnrolled ==
  [][\A res \in Resolutions, f \in Ids : RolledUp(f, res) => RolledUp(f, res)']_vars

\* A frame that no later run will look at and that is in no rollup was committed
\* more than an hour, or a day, after it ended.
MissedOnlyIfLate ==
  \A res \in DOMAIN watermarks, f \in Ids :
    frames[f].ended < watermarks[res] /\ ~RolledUp(f, res)
      => res \in frames[f].late
=============================================================================
