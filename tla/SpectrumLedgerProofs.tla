------------------------- MODULE SpectrumLedgerProofs -------------------------
(***************************************************************************)
(* Proofs about SpectrumLedger: the rows keep their types, one live chain   *)
(* of session and epoch exists, no count is lost or stored twice, frames    *)
(* are neither cut short nor overlap, every closed session has its gap, and *)
(* the whole implements ExactFrames, for every set of readings, every       *)
(* channel count and every bound.                                           *)
(***************************************************************************)
EXTENDS SpectrumLedger, SequenceTheorems, TLAPS

-----------------------------------------------------------------------------
(* The calibration epochs. *)

\* The epochs part of the invariant.
EpochsOK ==
  /\ epochs \in Seq(EpochRow)
  /\ cursor.epoch \in Nat
  /\ \A e \in DOMAIN epochs : epochs[e].ended = 0 <=> e = cursor.epoch

\* A fingerprint is a channel count and a calibration.
LEMMA FingerprintType ==
  ASSUME NEW r \in Spectrum
  PROVE  Fingerprint(r) \in Nat \X Calibrations
BY DEF Fingerprint, Spectrum

\* Closing the open epochs keeps the rows, their order and their fingerprints.
LEMMA ClosedEpochs ==
  ASSUME EpochsOK, NEW at \in 1..MaxTime,
         NEW rows,
         rows = [e \in DOMAIN epochs |->
                   IF e \in OpenEpochs THEN [epochs[e] EXCEPT !.ended = at] ELSE epochs[e]]
  PROVE  /\ rows \in Seq(EpochRow)
         /\ Len(rows) = Len(epochs)
         /\ \A e \in 1..Len(epochs) : /\ rows[e].ended # 0
                                      /\ rows[e].fingerprint = epochs[e].fingerprint
<1>1. at \in Time /\ at # 0
  BY BoundsAssumption DEF Time
<1>2. DOMAIN epochs = 1..Len(epochs) /\ Len(epochs) \in Nat
  BY DEF EpochsOK
<1>3. ASSUME NEW e \in 1..Len(epochs)
      PROVE  /\ rows[e] \in EpochRow
             /\ rows[e].ended # 0
             /\ rows[e].fingerprint = epochs[e].fingerprint
  <2>1. epochs[e] \in EpochRow
    BY <1>2 DEF EpochsOK
  <2>2. rows[e] = IF e \in OpenEpochs THEN [epochs[e] EXCEPT !.ended = at] ELSE epochs[e]
    BY <1>2
  <2>3. CASE e \in OpenEpochs
    BY <1>1, <2>1, <2>2, <2>3 DEF EpochRow
  <2>4. CASE e \notin OpenEpochs
    BY <1>2, <2>1, <2>2, <2>4 DEF OpenEpochs
  <2> QED BY <2>3, <2>4
<1>4. rows \in [1..Len(epochs) -> EpochRow]
  BY <1>2, <1>3
<1>5. rows \in Seq(EpochRow) /\ Len(rows) = Len(epochs)
  BY <1>2, <1>4
<1> QED BY <1>3, <1>5

\* _ensure_calibration_epoch leaves exactly one epoch open, the one it
\* returns, which has the fingerprint of the reading; the rows that were there
\* keep their fingerprints.
LEMMA EnsureEpoch ==
  ASSUME EpochsOK, NEW r \in Spectrum, NEW at \in 1..MaxTime
  PROVE  /\ EpochsWith(r, at) \in Seq(EpochRow)
         /\ Len(epochs) <= Len(EpochsWith(r, at))
         /\ EpochOf(r) \in 1..Len(EpochsWith(r, at))
         /\ EpochsWith(r, at)[EpochOf(r)].fingerprint = Fingerprint(r)
         /\ \A e \in 1..Len(EpochsWith(r, at)) :
              EpochsWith(r, at)[e].ended = 0 <=> e = EpochOf(r)
         /\ \A e \in 1..Len(epochs) :
              EpochsWith(r, at)[e].fingerprint = epochs[e].fingerprint
<1>0. DOMAIN epochs = 1..Len(epochs) /\ Len(epochs) \in Nat
  BY DEF EpochsOK
<1>1. CASE OpenEpochs \cap Matching(r) # {}
  <2>1. EpochOf(r) \in OpenEpochs \cap Matching(r)
    BY <1>1 DEF EpochOf
  <2>2. EpochsWith(r, at) = epochs
    BY <1>1 DEF EpochsWith
  <2> QED BY <1>0, <2>1, <2>2 DEF EpochsOK, OpenEpochs, Matching
<1>2. CASE OpenEpochs \cap Matching(r) = {}
  <2> DEFINE rows == [e \in DOMAIN epochs |->
                        IF e \in OpenEpochs THEN [epochs[e] EXCEPT !.ended = at] ELSE epochs[e]]
             row == [fingerprint |-> Fingerprint(r), started |-> at, ended |-> 0]
  <2>1. EpochsWith(r, at) = Append(rows, row) /\ EpochOf(r) = Len(epochs) + 1
    BY <1>2 DEF EpochsWith, EpochOf
  <2>2. /\ rows \in Seq(EpochRow)
        /\ Len(rows) = Len(epochs)
        /\ \A e \in 1..Len(epochs) : /\ rows[e].ended # 0
                                     /\ rows[e].fingerprint = epochs[e].fingerprint
    BY ClosedEpochs
  <2>3. row \in EpochRow
    BY FingerprintType, BoundsAssumption DEF EpochRow, Time
  <2>4. row.ended = 0 /\ row.fingerprint = Fingerprint(r)
    OBVIOUS
  <2> HIDE DEF rows, row
  <2>5. /\ Append(rows, row) \in Seq(EpochRow)
        /\ Len(Append(rows, row)) = Len(epochs) + 1
        /\ Append(rows, row)[Len(epochs) + 1] = row
        /\ \A e \in 1..Len(epochs) : Append(rows, row)[e] = rows[e]
    BY <1>0, <2>2, <2>3
  <2> QED BY <1>0, <2>1, <2>2, <2>4, <2>5
<1> QED BY <1>1, <1>2

-----------------------------------------------------------------------------
(* What the invariant says of the live rows. *)

\* The parts of the invariant about the epochs.
LEMMA EpochsAreOK ==
  ASSUME IndInv
  PROVE  EpochsOK /\ DOMAIN epochs = 1..Len(epochs) /\ Len(epochs) \in Nat
BY DEF IndInv, TypeOK, Anchored, EpochsOK, CursorRow, Id

\* The accumulator is all that the live session holds back, also if its row
\* does not exist.
LEMMA HeldLive ==
  ASSUME IndInv, cursor.session # 0
  PROVE  /\ Held(cursor.session) = accumulator.counts
         /\ HeldDuration(cursor.session) = accumulator.duration
BY DEF IndInv, Linked, Anchored, Held, HeldDuration

\* The session the cursor points at exists, and so does its epoch, which has
\* the fingerprint of the last reading.
LEMMA LiveSession ==
  ASSUME IndInv, cursor.session # 0
  PROVE  /\ cursor.session \in DOMAIN sessions
         /\ cursor.session \in DOMAIN book
         /\ cursor.session \in Nat
         /\ cursor.epoch \in DOMAIN epochs
         /\ sessions[cursor.session].epoch = cursor.epoch
         /\ OpenEpochs = {cursor.epoch}
         /\ epochs[cursor.epoch].fingerprint = Fingerprint(book[cursor.session].last)
<1>1. /\ Len(sessions) \in Nat
      /\ DOMAIN sessions = 1..Len(sessions)
      /\ DOMAIN book = 1..Len(book)
      /\ Len(book) = Len(sessions)
      /\ cursor.session = Len(sessions)
  BY DEF IndInv, TypeOK, Linked
<1>2. cursor.session \in DOMAIN sessions /\ cursor.session \in DOMAIN book
  BY <1>1
<1>3. cursor.epoch \in DOMAIN epochs /\ sessions[cursor.session].epoch = cursor.epoch
  BY DEF IndInv, Anchored
<1>4. OpenEpochs = {cursor.epoch}
  BY <1>3 DEF IndInv, Anchored, OpenEpochs
<1>5. epochs[cursor.epoch].fingerprint = Fingerprint(book[cursor.session].last)
  BY <1>2, <1>3 DEF IndInv, Calibrated
<1> QED BY <1>1, <1>2, <1>3, <1>4, <1>5

\* A reading that continues the session neither falls below the cursor nor
\* touches the epochs.
LEMMA ContinuesFacts ==
  ASSUME IndInv, Continues
  PROVE  /\ cursor.session # 0
         /\ polled.spectrum \in Spectrum
         /\ polled.at \in 1..MaxTime
         /\ Encodable(polled.spectrum)
         /\ EpochOf(polled.spectrum) = cursor.epoch
         /\ epochs' = epochs
         /\ Fingerprint(polled.spectrum) = epochs[cursor.epoch].fingerprint
         /\ polled.spectrum.channels = cursor.channels
         /\ polled.spectrum.duration >= cursor.duration
         /\ \A c \in Channel : polled.spectrum.counts[c] >= cursor.counts[c]
<1> DEFINE r == polled.spectrum
<1>1. polled.kind = "spectrum" /\ cursor.session # 0 /\ Reason(r) = "none" /\ Encodable(r)
  BY DEF Continues
<1>2. r \in Spectrum /\ polled.at \in 1..MaxTime
  BY <1>1 DEF IndInv, TypeOK, Linked
<1>3. cursor.duration \in Nat /\ cursor.counts \in Counts /\ r.duration \in Int /\ r.counts \in Counts
  BY <1>2 DEF IndInv, TypeOK, CursorRow, Spectrum
<1>4. /\ r.channels = cursor.channels
      /\ Fingerprint(r) = epochs[cursor.epoch].fingerprint
      /\ ~(r.duration < cursor.duration)
      /\ ~(\E c \in Channel : r.counts[c] < cursor.counts[c])
  BY <1>1 DEF Reason
<1>5. \A c \in Channel : r.counts[c] \in Nat /\ cursor.counts[c] \in Nat
  BY <1>3 DEF Counts
<1>6. OpenEpochs \cap Matching(r) = {cursor.epoch}
  BY <1>1, <1>4, LiveSession DEF Matching
<1>7. EpochOf(r) = cursor.epoch /\ epochs' = epochs
  BY <1>6 DEF EpochOf, EpochsWith, Continues
<1> QED BY <1>1, <1>2, <1>3, <1>4, <1>5, <1>7

\* If a first reading a, frames b and an accumulator h add up to x, then with
\* y - x added to b and h they add up to y.
LEMMA Telescope ==
  \A a, b, h, bb, hh, x, y \in Int :
    a + b + h = x /\ bb + hh = b + h + (y - x) => a + bb + hh = y
OBVIOUS

\* What a commit that continues the session adds to the frames and to the
\* accumulator is the delta of the reading, and what it stores is under the
\* live session and epoch.
Advances ==
  /\ book' \in Seq(BookRow)
  /\ Len(book') = Len(book)
  /\ \A s \in DOMAIN book : s # cursor.session => book'[s] = book[s]
  /\ book'[cursor.session].first = book[cursor.session].first
  /\ book'[cursor.session].last = polled.spectrum
  /\ \A c \in Channel :
       book'[cursor.session].framed[c] + accumulator'.counts[c]
         = book[cursor.session].framed[c] + accumulator.counts[c]
           + (polled.spectrum.counts[c] - cursor.counts[c])
  /\ book'[cursor.session].framedDuration + accumulator'.duration
       = book[cursor.session].framedDuration + accumulator.duration
         + (polled.spectrum.duration - cursor.duration)
  /\ accumulator' \in AccumulatorRow
  /\ accumulator'.session \in {0, cursor.session}
  /\ accumulator'.session = 0 =>
       accumulator'.counts = Zero /\ accumulator'.duration = 0
  /\ frames' \in Seq(FrameRow)
  /\ \A f \in DOMAIN frames' :
       \/ f \in DOMAIN frames /\ frames'[f] = frames[f]
       \/ frames'[f].session = cursor.session /\ frames'[f].epoch = cursor.epoch

\* A commit that does so keeps the invariant.
LEMMA ContinuesInv ==
  ASSUME IndInv, Continues, Advances
  PROVE  IndInv'
<1> DEFINE r == polled.spectrum
           cs == cursor.session
<1>1. /\ cs # 0
      /\ r \in Spectrum
      /\ polled.at \in 1..MaxTime
      /\ Encodable(r)
      /\ EpochOf(r) = cursor.epoch
      /\ epochs' = epochs
      /\ Fingerprint(r) = epochs[cursor.epoch].fingerprint
  BY ContinuesFacts
<1>2. /\ UNCHANGED <<clockVars, connection, sessions, snapshots>>
      /\ polled' = Idle
      /\ cursor' = NewCursor(r, polled.at, cs, cursor.epoch)
      /\ gaps' = IF Anomalous(r)
                 THEN Append(gaps, [session |-> cs,
                                    reason |-> "counts_changed_without_duration_change"])
                 ELSE gaps
  BY <1>1 DEF Continues
<1>3. /\ cs \in DOMAIN sessions
      /\ cs \in DOMAIN book
      /\ cs \in Nat
      /\ cursor.epoch \in DOMAIN epochs
      /\ sessions[cs].epoch = cursor.epoch
  BY <1>1, LiveSession
<1>4. /\ cursor'.session = cs
      /\ cursor'.epoch = cursor.epoch
      /\ cursor'.duration = r.duration
      /\ cursor'.channels = r.channels
      /\ cursor'.counts = r.counts
  BY <1>2 DEF NewCursor
<1>5. /\ Len(book) = Len(sessions)
      /\ DOMAIN book = 1..Len(book)
      /\ DOMAIN book' = DOMAIN book
      /\ cs = Len(sessions)
  BY DEF IndInv, TypeOK, Linked, Advances
<1>6. TypeOK'
  <2>1. cursor' \in CursorRow
    <3>1. connection \in Nat
      BY BoundsAssumption DEF IndInv, TypeOK
    <3>2. cursor.epoch \in Id
      BY DEF IndInv, TypeOK, CursorRow
    <3>3. /\ r.duration \in Nat
          /\ r.channels \in Nat
          /\ r.counts \in Counts
      BY <1>1 DEF Spectrum, Encodable
    <3>4. polled.at \in Time
      BY <1>1, BoundsAssumption DEF Time
    <3> QED BY <1>2, <1>3, <3>1, <3>2, <3>3, <3>4 DEF NewCursor, CursorRow, Id
  <2>2. gaps' \in Seq(GapRow)
    <3>1. [session |-> cs, reason |-> "counts_changed_without_duration_change"] \in GapRow
      BY <1>3 DEF GapRow, GapKinds, Id
    <3>2. gaps \in Seq(GapRow)
      BY DEF IndInv, TypeOK
    <3> QED BY <1>2, <3>1, <3>2
  <2>3. polled' \in [kind : {"idle", "spectrum", "accumulated"}, at : Time, spectrum : Spectrum]
    BY <1>2, ReadingsAssumption, BoundsAssumption DEF Idle, Time
  <2> QED BY <1>1, <1>2, <2>1, <2>2, <2>3 DEF IndInv, TypeOK, clockVars, Advances
<1>7. Linked'
  <2>1. polled'.kind = "idle"
    BY <1>2 DEF Idle
  <2>2. ASSUME NEW s \in DOMAIN book'
        PROVE  Encodable(book'[s].first) /\ Encodable(book'[s].last)
    BY <1>1, <1>5 DEF IndInv, Linked, Advances
  <2> QED BY <1>1, <1>2, <1>4, <1>5, <2>1, <2>2 DEF IndInv, Linked, Encodable, Advances
<1>8. Anchored'
  BY <1>1, <1>2, <1>4 DEF IndInv, Anchored, Advances
<1>9. Calibrated'
  <2>1. \A s \in DOMAIN sessions :
          /\ sessions[s].epoch \in DOMAIN epochs
          /\ epochs[sessions[s].epoch].fingerprint = Fingerprint(book'[s].first)
          /\ epochs[sessions[s].epoch].fingerprint = Fingerprint(book'[s].last)
    <3> SUFFICES ASSUME NEW s \in DOMAIN sessions
                 PROVE  /\ sessions[s].epoch \in DOMAIN epochs
                        /\ epochs[sessions[s].epoch].fingerprint = Fingerprint(book'[s].first)
                        /\ epochs[sessions[s].epoch].fingerprint = Fingerprint(book'[s].last)
      OBVIOUS
    <3>1. /\ sessions[s].epoch \in DOMAIN epochs
          /\ epochs[sessions[s].epoch].fingerprint = Fingerprint(book[s].first)
          /\ epochs[sessions[s].epoch].fingerprint = Fingerprint(book[s].last)
          /\ s \in DOMAIN book
      BY <1>5 DEF IndInv, Calibrated, TypeOK
    <3>2. CASE s = cs
      BY <1>1, <1>3, <3>1, <3>2 DEF Advances
    <3>3. CASE s # cs
      BY <3>1, <3>3 DEF Advances
    <3> QED BY <3>2, <3>3
  <2>2. \A f \in DOMAIN frames' :
          /\ frames'[f].session \in DOMAIN sessions
          /\ frames'[f].epoch = sessions[frames'[f].session].epoch
    BY <1>3 DEF IndInv, Calibrated, Advances
  <2>3. \A x \in snapshots :
          x.epoch \in DOMAIN epochs /\ epochs[x.epoch].fingerprint = x.fingerprint
    BY DEF IndInv, Calibrated
  <2> QED BY <1>1, <1>2, <2>1, <2>2, <2>3 DEF Calibrated, Fingerprint
<1>10. Conserved'
  <2> SUFFICES ASSUME NEW s \in DOMAIN book'
               PROVE  /\ \A c \in Channel :
                           book'[s].first.counts[c] + book'[s].framed[c] + Held(s)'[c]
                             = Counted(s)'[c]
                      /\ book'[s].first.duration + book'[s].framedDuration
                           + HeldDuration(s)' = Lasted(s)'
    BY DEF Conserved
  <2>1. s \in DOMAIN book /\ s # 0
    BY <1>5
  <2>2. /\ \A c \in Channel :
             book[s].first.counts[c] + book[s].framed[c] + Held(s)[c] = Counted(s)[c]
        /\ book[s].first.duration + book[s].framedDuration + HeldDuration(s) = Lasted(s)
    BY <2>1 DEF IndInv, Conserved
  <2>3. CASE s # cs
    <3>1. /\ Held(s)' = Zero
          /\ HeldDuration(s)' = 0
          /\ Held(s) = Zero
          /\ HeldDuration(s) = 0
      BY <2>1, <2>3 DEF Held, HeldDuration, IndInv, Anchored, Advances
    <3>2. /\ Counted(s)' = book'[s].last.counts
          /\ Lasted(s)' = book'[s].last.duration
          /\ Counted(s) = book[s].last.counts
          /\ Lasted(s) = book[s].last.duration
      BY <1>4, <2>3 DEF Counted, Lasted
    <3> QED BY <2>1, <2>2, <2>3, <3>1, <3>2 DEF Advances
  <2>4. CASE s = cs
    <3>1. /\ Held(s) = accumulator.counts
          /\ HeldDuration(s) = accumulator.duration
      BY <1>1, <2>4, HeldLive
    <3>2. /\ Held(s)' = accumulator'.counts
          /\ HeldDuration(s)' = accumulator'.duration
      BY <1>1, <2>1, <2>4 DEF Held, HeldDuration, Advances
    <3>3. /\ Counted(s)' = r.counts
          /\ Lasted(s)' = r.duration
          /\ Counted(s) = cursor.counts
          /\ Lasted(s) = cursor.duration
      BY <1>4, <2>4 DEF Counted, Lasted
    <3>4. /\ book[s] \in BookRow
          /\ book'[s] \in BookRow
      BY <1>5, <2>1 DEF IndInv, TypeOK, Advances
    <3>5. /\ accumulator \in AccumulatorRow
          /\ cursor \in CursorRow
      BY DEF IndInv, TypeOK
    <3>8. accumulator' \in AccumulatorRow
      BY DEF Advances
    <3>6. ASSUME NEW c \in Channel
          PROVE  book'[s].first.counts[c] + book'[s].framed[c] + accumulator'.counts[c]
                   = r.counts[c]
      <4>1. /\ book[s].first.counts[c] \in Nat
            /\ book[s].framed[c] \in Nat
            /\ book'[s].framed[c] \in Nat
            /\ accumulator.counts[c] \in Nat
            /\ accumulator'.counts[c] \in Nat
            /\ cursor.counts[c] \in Nat
            /\ r.counts[c] \in Nat
        BY <1>1, <3>4, <3>5, <3>8 DEF BookRow, AccumulatorRow, CursorRow, Spectrum, Counts
      <4>2. book[s].first.counts[c] + book[s].framed[c] + accumulator.counts[c]
              = cursor.counts[c]
        BY <2>2, <3>1, <3>3
      <4>3. /\ book'[s].first = book[s].first
            /\ book'[s].framed[c] + accumulator'.counts[c]
                 = book[s].framed[c] + accumulator.counts[c] + (r.counts[c] - cursor.counts[c])
        BY <2>4 DEF Advances
      <4>4. book'[s].first.counts[c] = book[s].first.counts[c]
        BY <4>3
      <4> DEFINE a == book[s].first.counts[c]
                 b == book[s].framed[c]
                 h == accumulator.counts[c]
                 bb == book'[s].framed[c]
                 hh == accumulator'.counts[c]
                 x == cursor.counts[c]
                 y == r.counts[c]
      <4>5. /\ a \in Int /\ b \in Int /\ h \in Int /\ bb \in Int
            /\ hh \in Int /\ x \in Int /\ y \in Int
        BY <4>1
      <4>6. a + b + h = x /\ bb + hh = b + h + (y - x)
        BY <4>2, <4>3
      <4> HIDE DEF a, b, h, bb, hh, x, y
      <4>7. a + bb + hh = y
        BY <4>5, <4>6, Telescope
      <4> QED BY <4>4, <4>7 DEF a, bb, hh, y
    <3>7. book'[s].first.duration + book'[s].framedDuration + accumulator'.duration
            = r.duration
      <4>1. /\ book[s].first.duration \in Int
            /\ book[s].framedDuration \in Nat
            /\ book'[s].framedDuration \in Nat
            /\ accumulator.duration \in Nat
            /\ accumulator'.duration \in Nat
            /\ cursor.duration \in Nat
            /\ r.duration \in Int
        BY <1>1, <3>4, <3>5, <3>8 DEF BookRow, AccumulatorRow, CursorRow, Spectrum
      <4>2. book[s].first.duration + book[s].framedDuration + accumulator.duration
              = cursor.duration
        BY <2>2, <3>1, <3>3
      <4>3. /\ book'[s].first = book[s].first
            /\ book'[s].framedDuration + accumulator'.duration
                 = book[s].framedDuration + accumulator.duration
                   + (r.duration - cursor.duration)
        BY <2>4 DEF Advances
      <4>4. book'[s].first.duration = book[s].first.duration
        BY <4>3
      <4> DEFINE a == book[s].first.duration
                 b == book[s].framedDuration
                 h == accumulator.duration
                 bb == book'[s].framedDuration
                 hh == accumulator'.duration
                 x == cursor.duration
                 y == r.duration
      <4>5. /\ a \in Int /\ b \in Int /\ h \in Int /\ bb \in Int
            /\ hh \in Int /\ x \in Int /\ y \in Int
        BY <4>1
      <4>6. a + b + h = x /\ bb + hh = b + h + (y - x)
        BY <4>2, <4>3
      <4> HIDE DEF a, b, h, bb, hh, x, y
      <4>7. a + bb + hh = y
        BY <4>5, <4>6, Telescope
      <4> QED BY <4>4, <4>7 DEF a, bb, hh, y
    <3> QED BY <3>2, <3>3, <3>6, <3>7
  <2> QED BY <2>3, <2>4
<1> QED BY <1>6, <1>7, <1>8, <1>9, <1>10 DEF IndInv

\* The accumulator with a delta added is a row, holds the old accumulator and
\* the delta, and never falls below zero.
LEMMA GrownFacts ==
  ASSUME IndInv, Continues
  PROVE  LET a == Grown(polled.spectrum, polled.at)
         IN /\ a \in AccumulatorRow
            /\ a.session = cursor.session
            /\ a.duration = accumulator.duration + (polled.spectrum.duration - cursor.duration)
            /\ \A c \in Channel :
                 a.counts[c] = accumulator.counts[c]
                                 + (polled.spectrum.counts[c] - cursor.counts[c])
<1> DEFINE r == polled.spectrum
           at == polled.at
           a == Grown(r, at)
<1>1. /\ r \in Spectrum
      /\ at \in 1..MaxTime
      /\ r.duration >= cursor.duration
      /\ \A c \in Channel : r.counts[c] >= cursor.counts[c]
  BY ContinuesFacts
<1>2. cursor \in CursorRow /\ accumulator \in AccumulatorRow /\ connection \in Nat
  BY BoundsAssumption DEF IndInv, TypeOK
<1>3. /\ a.session = cursor.session
      /\ a.started = IF accumulator.session = 0 THEN cursor.observed ELSE accumulator.started
      /\ a.ended = at
      /\ a.duration = accumulator.duration + (r.duration - cursor.duration)
      /\ a.counts = Plus(accumulator.counts, Delta(r))
      /\ a.flags = accumulator.flags \cup Warnings(r)
      /\ a.through = accumulator.through \cup {cursor.connection, connection}
  BY DEF Grown
<1>4. ASSUME NEW c \in Channel
      PROVE  /\ a.counts[c] = accumulator.counts[c] + (r.counts[c] - cursor.counts[c])
             /\ a.counts[c] \in Nat
  <2>1. /\ accumulator.counts[c] \in Nat
        /\ cursor.counts[c] \in Nat
        /\ r.counts[c] \in Nat
        /\ r.counts[c] >= cursor.counts[c]
    BY <1>1, <1>2 DEF AccumulatorRow, CursorRow, Spectrum, Counts
  <2>2. a.counts[c] = accumulator.counts[c] + (r.counts[c] - cursor.counts[c])
    BY <1>3 DEF Plus, Delta
  <2> HIDE DEF a, r
  <2> QED BY <2>1, <2>2
<1>5. a.counts \in Counts
  <2>1. a.counts = [c \in Channel |-> a.counts[c]]
    BY <1>3 DEF Plus
  <2> HIDE DEF a
  <2> QED BY <2>1, <1>4 DEF Counts
<1>6. a.duration \in Nat
  <2>1. /\ accumulator.duration \in Nat
        /\ cursor.duration \in Nat
        /\ r.duration \in Int
    BY <1>1, <1>2 DEF AccumulatorRow, CursorRow, Spectrum
  <2> HIDE DEF a, r
  <2> QED BY <1>1, <1>3, <2>1
<1>7. a.session \in Id /\ a.started \in Time /\ a.ended \in Time
  BY <1>1, <1>2, <1>3, BoundsAssumption DEF Id, Time, CursorRow, AccumulatorRow
<1>8. a.flags \in SUBSET Flags /\ a.through \in SUBSET Nat
  <2>1. Warnings(r) \subseteq Flags
    BY DEF Warnings, Flags
  <2>2. accumulator.flags \subseteq Flags /\ accumulator.through \subseteq Nat
    BY <1>2 DEF AccumulatorRow
  <2>3. cursor.connection \in Nat
    BY <1>2 DEF CursorRow
  <2> HIDE DEF a, r
  <2> QED BY <1>2, <1>3, <2>1, <2>2, <2>3
<1>9. a \in AccumulatorRow
  <2>1. a = [session |-> a.session, started |-> a.started, ended |-> a.ended,
             duration |-> a.duration, counts |-> a.counts, flags |-> a.flags,
             through |-> a.through]
    BY DEF Grown
  <2> HIDE DEF a
  <2> QED BY <2>1, <1>5, <1>6, <1>7, <1>8 DEF AccumulatorRow
<1> QED BY <1>3, <1>4, <1>9

\* A frame made of an accumulator row is a frame row.
LEMMA FrameType ==
  ASSUME NEW a \in AccumulatorRow, NEW e \in Nat, NEW flags \in SUBSET Flags
  PROVE  Frame(a, e, flags) \in FrameRow
BY DEF Frame, FrameRow, AccumulatorRow, Id

\* A reading that adds nothing.
LEMMA QuietStep ==
  ASSUME IndInv, CommitQuiet
  PROVE  Advances
<1> DEFINE r == polled.spectrum
           cs == cursor.session
<1>1. /\ Continues
      /\ r.duration = cursor.duration
      /\ Delta(r) = Zero
      /\ book' = [book EXCEPT ![cs].last = r]
      /\ accumulator' = accumulator
      /\ frames' = frames
  BY DEF CommitQuiet, Quiet
<1>2. cs # 0 /\ r \in Spectrum
  BY <1>1, ContinuesFacts
<1>3. cs \in DOMAIN book
  BY <1>2, LiveSession
<1>4. /\ book \in Seq(BookRow)
      /\ accumulator \in AccumulatorRow
      /\ cursor \in CursorRow
      /\ frames \in Seq(FrameRow)
  BY DEF IndInv, TypeOK
<1>10. book[cs] \in BookRow
  BY <1>3, <1>4
<1>5. /\ book' \in Seq(BookRow)
      /\ Len(book') = Len(book)
      /\ \A s \in DOMAIN book : s # cs => book'[s] = book[s]
      /\ book'[cs] = [book[cs] EXCEPT !.last = r]
  <2>1. [book[cs] EXCEPT !.last = r] \in BookRow
    BY <1>2, <1>10 DEF BookRow
  <2> QED BY <1>1, <1>3, <1>4, <2>1
<1>6. /\ book'[cs].first = book[cs].first
      /\ book'[cs].last = r
      /\ book'[cs].framed = book[cs].framed
      /\ book'[cs].framedDuration = book[cs].framedDuration
  BY <1>3, <1>4, <1>5 DEF BookRow
<1>7. ASSUME NEW c \in Channel
      PROVE  book'[cs].framed[c] + accumulator'.counts[c]
               = book[cs].framed[c] + accumulator.counts[c] + (r.counts[c] - cursor.counts[c])
  <2>1. r.counts[c] - cursor.counts[c] = 0
    BY <1>1 DEF Delta, Zero
  <2>2. /\ book[cs].framed[c] \in Nat
        /\ accumulator.counts[c] \in Nat
    BY <1>4, <1>10 DEF BookRow, AccumulatorRow, Counts
  <2> QED BY <1>1, <1>6, <2>1, <2>2
<1>8. book'[cs].framedDuration + accumulator'.duration
        = book[cs].framedDuration + accumulator.duration + (r.duration - cursor.duration)
  <2>1. /\ book[cs].framedDuration \in Nat
        /\ accumulator.duration \in Nat
        /\ cursor.duration \in Nat
    BY <1>4, <1>10 DEF BookRow, AccumulatorRow, CursorRow
  <2> QED BY <1>1, <1>6, <2>1
<1>9. /\ accumulator.session \in {0, cs}
      /\ accumulator.session = 0 => accumulator.counts = Zero /\ accumulator.duration = 0
  BY DEF IndInv, Anchored, Linked
<1> QED BY <1>1, <1>4, <1>5, <1>6, <1>7, <1>8, <1>9 DEF Advances

\* A delta that stays in the accumulator.
LEMMA DeltaStep ==
  ASSUME IndInv, CommitDelta
  PROVE  Advances
<1> DEFINE r == polled.spectrum
           cs == cursor.session
<1>1. /\ Continues
      /\ accumulator' = Grown(r, polled.at)
      /\ book' = [book EXCEPT ![cs].last = r]
      /\ frames' = frames
  BY DEF CommitDelta
<1>2. cs # 0 /\ r \in Spectrum
  BY <1>1, ContinuesFacts
<1>3. cs \in DOMAIN book
  BY <1>2, LiveSession
<1>4. book \in Seq(BookRow) /\ frames \in Seq(FrameRow)
  BY DEF IndInv, TypeOK
<1>5. book[cs] \in BookRow
  BY <1>3, <1>4
<1>6. /\ accumulator' \in AccumulatorRow
      /\ accumulator'.session = cs
      /\ accumulator'.duration = accumulator.duration + (r.duration - cursor.duration)
      /\ \A c \in Channel :
           accumulator'.counts[c] = accumulator.counts[c] + (r.counts[c] - cursor.counts[c])
  BY <1>1, GrownFacts
<1>7. /\ book' \in Seq(BookRow)
      /\ Len(book') = Len(book)
      /\ \A s \in DOMAIN book : s # cs => book'[s] = book[s]
      /\ book'[cs] = [book[cs] EXCEPT !.last = r]
  <2>1. [book[cs] EXCEPT !.last = r] \in BookRow
    BY <1>2, <1>5 DEF BookRow
  <2> QED BY <1>1, <1>3, <1>4, <2>1
<1>8. /\ book'[cs].first = book[cs].first
      /\ book'[cs].last = r
      /\ book'[cs].framed = book[cs].framed
      /\ book'[cs].framedDuration = book[cs].framedDuration
  BY <1>5, <1>7 DEF BookRow
<1>9. cursor \in CursorRow /\ accumulator \in AccumulatorRow
  BY DEF IndInv, TypeOK
<1>10. ASSUME NEW c \in Channel
       PROVE  book'[cs].framed[c] + accumulator'.counts[c]
                = book[cs].framed[c] + accumulator.counts[c] + (r.counts[c] - cursor.counts[c])
  <2>1. /\ book[cs].framed[c] \in Nat
        /\ accumulator.counts[c] \in Nat
        /\ cursor.counts[c] \in Nat
        /\ r.counts[c] \in Nat
    BY <1>2, <1>5, <1>9 DEF BookRow, AccumulatorRow, CursorRow, Spectrum, Counts
  <2>2. accumulator'.counts[c] = accumulator.counts[c] + (r.counts[c] - cursor.counts[c])
    BY <1>6
  <2> HIDE DEF r, cs
  <2> QED BY <1>8, <2>1, <2>2
<1>11. book'[cs].framedDuration + accumulator'.duration
         = book[cs].framedDuration + accumulator.duration + (r.duration - cursor.duration)
  <2>1. /\ book[cs].framedDuration \in Nat
        /\ accumulator.duration \in Nat
        /\ cursor.duration \in Nat
        /\ r.duration \in Int
    BY <1>2, <1>5, <1>9 DEF BookRow, AccumulatorRow, CursorRow, Spectrum
  <2> HIDE DEF r, cs
  <2> QED BY <1>6, <1>8, <2>1
<1> QED BY <1>1, <1>2, <1>4, <1>6, <1>7, <1>8, <1>10, <1>11 DEF Advances

\* A delta that turns the accumulator into a frame.
LEMMA FrameStep ==
  ASSUME IndInv, CommitFrame
  PROVE  Advances
<1> DEFINE r == polled.spectrum
           cs == cursor.session
           a == Grown(r, polled.at)
<1>1. /\ Continues
      /\ accumulator' = NoAccumulator
      /\ book' = [book EXCEPT ![cs].last = r,
                              ![cs].framed = Plus(@, a.counts),
                              ![cs].framedDuration = @ + a.duration]
      /\ frames' = Append(frames, Frame(a, EpochOf(r), a.flags))
  BY DEF CommitFrame, FrameAt
<1>2. cs # 0 /\ r \in Spectrum /\ EpochOf(r) = cursor.epoch
  BY <1>1, ContinuesFacts
<1>3. cs \in DOMAIN book
  BY <1>2, LiveSession
<1>4. book \in Seq(BookRow) /\ frames \in Seq(FrameRow) /\ cursor.epoch \in Nat
  BY DEF IndInv, TypeOK, CursorRow, Id
<1>5. book[cs] \in BookRow
  BY <1>3, <1>4
<1>6. /\ a \in AccumulatorRow
      /\ a.session = cs
      /\ a.duration = accumulator.duration + (r.duration - cursor.duration)
      /\ \A c \in Channel :
           a.counts[c] = accumulator.counts[c] + (r.counts[c] - cursor.counts[c])
  BY <1>1, GrownFacts
<1> DEFINE sum == Plus(book[cs].framed, a.counts)
           row == [book[cs] EXCEPT !.last = r, !.framed = sum,
                                   !.framedDuration = @ + a.duration]
<1> HIDE DEF a
<1>7. ASSUME NEW c \in Channel
      PROVE  /\ sum[c] = book[cs].framed[c] + a.counts[c]
             /\ sum[c] \in Nat
  <2>1. book[cs].framed[c] \in Nat /\ a.counts[c] \in Nat
    BY <1>5, <1>6 DEF BookRow, AccumulatorRow, Counts
  <2> QED BY <2>1 DEF Plus
<1>8. sum \in Counts
  BY <1>7 DEF Counts, Plus
<1> HIDE DEF sum
<1>9. row \in BookRow
  <2>1. book[cs].framedDuration + a.duration \in Nat
    BY <1>5, <1>6 DEF BookRow, AccumulatorRow
  <2> QED BY <1>2, <1>5, <1>8, <2>1 DEF BookRow
<1>10. book' = [book EXCEPT ![cs] = row]
  BY <1>1, <1>3, <1>4 DEF sum
<1>11. /\ row.first = book[cs].first
       /\ row.last = r
       /\ row.framed = sum
       /\ row.framedDuration = book[cs].framedDuration + a.duration
  BY <1>5 DEF BookRow
<1> HIDE DEF row
<1>12. /\ book' \in Seq(BookRow)
       /\ Len(book') = Len(book)
       /\ \A s \in DOMAIN book : s # cs => book'[s] = book[s]
       /\ book'[cs] = row
  BY <1>3, <1>4, <1>9, <1>10
<1>13. /\ accumulator' \in AccumulatorRow
       /\ accumulator'.session = 0
       /\ accumulator'.counts = Zero
       /\ accumulator'.duration = 0
  BY <1>1, BoundsAssumption DEF NoAccumulator, AccumulatorRow, Zero, Counts, Id, Time, Flags
<1>14. cursor \in CursorRow /\ accumulator \in AccumulatorRow
  BY DEF IndInv, TypeOK
<1>15. ASSUME NEW c \in Channel
       PROVE  book'[cs].framed[c] + accumulator'.counts[c]
                = book[cs].framed[c] + accumulator.counts[c] + (r.counts[c] - cursor.counts[c])
  <2>1. /\ book[cs].framed[c] \in Nat
        /\ accumulator.counts[c] \in Nat
        /\ cursor.counts[c] \in Nat
        /\ r.counts[c] \in Nat
    BY <1>2, <1>5, <1>14 DEF BookRow, AccumulatorRow, CursorRow, Spectrum, Counts
  <2>2. a.counts[c] = accumulator.counts[c] + (r.counts[c] - cursor.counts[c])
    BY <1>6
  <2>3. sum[c] = book[cs].framed[c] + a.counts[c]
    BY <1>7
  <2>4. book'[cs].framed[c] = sum[c] /\ accumulator'.counts[c] = 0
    BY <1>11, <1>12, <1>13 DEF Zero
  <2> HIDE DEF r, cs
  <2> QED BY <2>1, <2>2, <2>3, <2>4
<1>16. book'[cs].framedDuration + accumulator'.duration
         = book[cs].framedDuration + accumulator.duration + (r.duration - cursor.duration)
  <2>1. /\ book[cs].framedDuration \in Nat
        /\ accumulator.duration \in Nat
        /\ cursor.duration \in Nat
        /\ r.duration \in Int
    BY <1>2, <1>5, <1>14 DEF BookRow, AccumulatorRow, CursorRow, Spectrum
  <2>2. book'[cs].framedDuration = book[cs].framedDuration + a.duration
    BY <1>11, <1>12
  <2> HIDE DEF r, cs
  <2> QED BY <1>6, <1>13, <2>1, <2>2
<1>17. /\ frames' \in Seq(FrameRow)
       /\ \A f \in DOMAIN frames' :
            \/ f \in DOMAIN frames /\ frames'[f] = frames[f]
            \/ frames'[f].session = cs /\ frames'[f].epoch = cursor.epoch
  <2> DEFINE frame == Frame(a, cursor.epoch, a.flags)
  <2>1. frame \in FrameRow
    BY <1>4, <1>6, FrameType DEF AccumulatorRow
  <2>2. frame.session = cs /\ frame.epoch = cursor.epoch
    BY <1>6 DEF Frame
  <2>3. frames' = Append(frames, frame)
    BY <1>1, <1>2 DEF a
  <2> HIDE DEF frame
  <2> QED BY <1>4, <2>1, <2>2, <2>3
<1> QED BY <1>11, <1>12, <1>13, <1>15, <1>16, <1>17 DEF Advances

-----------------------------------------------------------------------------
(* Commits that start a session. *)

\* The rows a new session begins with.
NewSession == [epoch |-> EpochOf(polled.spectrum), started |-> polled.at,
               ended |-> 0, reason |-> "none"]
NewBook == [first |-> polled.spectrum, last |-> polled.spectrum,
            framed |-> Zero, framedDuration |-> 0]

\* A commit that starts a session, where closed and settled are the sessions
\* and the book without the new row: every earlier session is closed, keeps
\* its epoch, and has all it counted in frames.
Starts(closed, settled) ==
  /\ polled.kind = "spectrum"
  /\ Encodable(polled.spectrum)
  /\ polled' = Idle
  /\ epochs' = EpochsWith(polled.spectrum, polled.at)
  /\ sessions' = Append(closed, NewSession)
  /\ closed \in Seq(SessionRow)
  /\ Len(closed) = Len(sessions)
  /\ \A s \in DOMAIN sessions :
       closed[s].epoch = sessions[s].epoch /\ closed[s].ended # 0
  /\ book' = Append(settled, NewBook)
  /\ settled \in Seq(BookRow)
  /\ Len(settled) = Len(book)
  /\ \A s \in DOMAIN book :
       /\ settled[s].first = book[s].first
       /\ settled[s].last = book[s].last
       /\ \A c \in Channel :
            book[s].first.counts[c] + settled[s].framed[c] = book[s].last.counts[c]
       /\ book[s].first.duration + settled[s].framedDuration = book[s].last.duration
  /\ cursor' = NewCursor(polled.spectrum, polled.at, Len(sessions) + 1,
                         EpochOf(polled.spectrum))
  /\ accumulator' = NoAccumulator
  /\ gaps' \in Seq(GapRow)
  /\ frames' \in Seq(FrameRow)
  /\ \A f \in DOMAIN frames' :
       \/ f \in DOMAIN frames /\ frames'[f] = frames[f]
       \/ /\ frames'[f].session \in DOMAIN sessions
          /\ frames'[f].epoch = sessions[frames'[f].session].epoch
  /\ UNCHANGED <<clockVars, connection, snapshots>>

\* Such a commit keeps the invariant.
LEMMA StartsInv ==
  ASSUME IndInv, NEW closed, NEW settled, Starts(closed, settled)
  PROVE  IndInv'
<1> DEFINE r == polled.spectrum
           at == polled.at
           e == EpochOf(r)
           n == Len(sessions)
<1>1. r \in Spectrum /\ at \in 1..MaxTime /\ Encodable(r)
  BY DEF Starts, IndInv, TypeOK, Linked
<1>2. /\ epochs' \in Seq(EpochRow)
      /\ Len(epochs) <= Len(epochs')
      /\ e \in 1..Len(epochs')
      /\ epochs'[e].fingerprint = Fingerprint(r)
      /\ \A i \in 1..Len(epochs') : epochs'[i].ended = 0 <=> i = e
      /\ \A i \in 1..Len(epochs) : epochs'[i].fingerprint = epochs[i].fingerprint
  BY <1>1, EpochsAreOK, EnsureEpoch DEF Starts
<1>3. /\ DOMAIN epochs = 1..Len(epochs)
      /\ Len(epochs) \in Nat
      /\ DOMAIN epochs' = 1..Len(epochs')
      /\ Len(epochs') \in Nat
      /\ DOMAIN epochs \subseteq DOMAIN epochs'
      /\ e \in Nat
  BY <1>2, EpochsAreOK
<1>4. at \in Time
  BY <1>1, BoundsAssumption DEF Time
<1>5. /\ n \in Nat
      /\ DOMAIN sessions = 1..n
      /\ DOMAIN book = 1..n
      /\ Len(book) = n
  BY DEF IndInv, TypeOK, Linked
<1>6. NewSession \in SessionRow /\ NewSession.epoch = e /\ NewSession.ended = 0
  BY <1>3, <1>4, BoundsAssumption DEF NewSession, SessionRow, Id, Time
<1>7. /\ sessions' \in Seq(SessionRow)
      /\ Len(sessions') = n + 1
      /\ DOMAIN sessions' = 1..(n + 1)
      /\ sessions'[n + 1] = NewSession
      /\ \A s \in 1..n : sessions'[s] = closed[s]
  BY <1>5, <1>6 DEF Starts
<1>8. /\ NewBook \in BookRow
      /\ NewBook.first = r
      /\ NewBook.last = r
      /\ NewBook.framed = Zero
      /\ NewBook.framedDuration = 0
  BY <1>1 DEF NewBook, BookRow, Zero, Counts
<1>9. /\ book' \in Seq(BookRow)
      /\ Len(book') = n + 1
      /\ DOMAIN book' = 1..(n + 1)
      /\ book'[n + 1] = NewBook
      /\ \A s \in 1..n : book'[s] = settled[s]
  BY <1>5, <1>8 DEF Starts
<1>10. /\ cursor'.session = n + 1
       /\ cursor'.epoch = e
       /\ cursor'.duration = r.duration
       /\ cursor'.channels = r.channels
       /\ cursor'.counts = r.counts
  BY DEF Starts, NewCursor
<1>11. accumulator'.session = 0 /\ accumulator'.counts = Zero /\ accumulator'.duration = 0
  BY DEF Starts, NoAccumulator
<1>12. TypeOK'
  <2>1. cursor' \in CursorRow
    <3>1. connection \in Nat
      BY BoundsAssumption DEF IndInv, TypeOK
    <3>2. r.duration \in Nat /\ r.channels \in Nat /\ r.counts \in Counts
      BY <1>1 DEF Spectrum, Encodable
    <3> QED BY <1>3, <1>4, <1>5, <3>1, <3>2 DEF Starts, NewCursor, CursorRow, Id
  <2>2. accumulator' \in AccumulatorRow
    BY BoundsAssumption
       DEF Starts, NoAccumulator, AccumulatorRow, Zero, Counts, Id, Time, Flags
  <2>3. polled' \in [kind : {"idle", "spectrum", "accumulated"}, at : Time, spectrum : Spectrum]
    BY ReadingsAssumption, BoundsAssumption DEF Starts, Idle, Time
  <2>4. gaps' \in Seq(GapRow) /\ frames' \in Seq(FrameRow)
    BY DEF Starts
  <2>5. UNCHANGED <<now, stepsBack, connection, snapshots>>
    BY DEF Starts, clockVars
  <2> QED BY <1>2, <1>7, <1>9, <2>1, <2>2, <2>3, <2>4, <2>5 DEF IndInv, TypeOK
<1>13. Linked'
  <2>1. polled'.kind = "idle"
    BY DEF Starts, Idle
  <2>2. ASSUME NEW s \in DOMAIN book'
        PROVE  Encodable(book'[s].first) /\ Encodable(book'[s].last)
    <3>1. CASE s = n + 1
      BY <1>1, <1>8, <1>9, <3>1
    <3>2. CASE s # n + 1
      <4>1. s \in 1..n
        BY <1>5, <1>9, <3>2
      <4>2. book'[s].first = book[s].first /\ book'[s].last = book[s].last
        BY <1>5, <1>9, <4>1 DEF Starts
      <4>3. Encodable(book[s].first) /\ Encodable(book[s].last)
        BY <1>5, <4>1 DEF IndInv, Linked
      <4> QED BY <4>2, <4>3
    <3> QED BY <3>1, <3>2
  <2>3. n + 1 # 0
    BY <1>5
  <2> QED BY <1>7, <1>8, <1>9, <1>10, <1>11, <2>1, <2>2, <2>3 DEF Linked, Encodable
<1>14. Anchored'
  <2>1. ASSUME NEW s \in DOMAIN sessions'
        PROVE  sessions'[s].ended = 0 <=> s = n + 1
    <3>1. CASE s = n + 1
      BY <1>6, <1>7, <3>1
    <3>2. CASE s # n + 1
      <4>1. s \in 1..n
        BY <1>5, <1>7, <3>2
      <4> QED BY <1>5, <1>7, <3>2, <4>1 DEF Starts
    <3> QED BY <3>1, <3>2
  <2> QED BY <1>2, <1>3, <1>6, <1>7, <1>10, <1>11, <2>1 DEF Anchored
<1>15. Calibrated'
  <2>1. ASSUME NEW s \in DOMAIN sessions'
        PROVE  /\ sessions'[s].epoch \in DOMAIN epochs'
               /\ epochs'[sessions'[s].epoch].fingerprint = Fingerprint(book'[s].first)
               /\ epochs'[sessions'[s].epoch].fingerprint = Fingerprint(book'[s].last)
    <3>1. CASE s = n + 1
      BY <1>2, <1>3, <1>6, <1>7, <1>8, <1>9, <3>1
    <3>2. CASE s # n + 1
      <4>1. s \in 1..n
        BY <1>5, <1>7, <3>2
      <4>2. /\ book'[s].first = book[s].first
            /\ book'[s].last = book[s].last
            /\ sessions'[s].epoch = sessions[s].epoch
        BY <1>5, <1>7, <1>9, <4>1 DEF Starts
      <4>3. /\ sessions[s].epoch \in DOMAIN epochs
            /\ epochs[sessions[s].epoch].fingerprint = Fingerprint(book[s].first)
            /\ epochs[sessions[s].epoch].fingerprint = Fingerprint(book[s].last)
        BY <1>5, <4>1 DEF IndInv, Calibrated
      <4> QED BY <1>2, <1>3, <4>2, <4>3
    <3> QED BY <3>1, <3>2
  <2>2. ASSUME NEW f \in DOMAIN frames'
        PROVE  /\ frames'[f].session \in DOMAIN sessions'
               /\ frames'[f].epoch = sessions'[frames'[f].session].epoch
    <3>1. /\ frames'[f].session \in DOMAIN sessions
          /\ frames'[f].epoch = sessions[frames'[f].session].epoch
      BY DEF Starts, IndInv, Calibrated
    <3>2. ASSUME NEW s \in DOMAIN sessions
          PROVE  s \in DOMAIN sessions' /\ sessions'[s].epoch = sessions[s].epoch
      BY <1>5, <1>7 DEF Starts
    <3> QED BY <3>1, <3>2
  <2>3. ASSUME NEW x \in snapshots'
        PROVE  x.epoch \in DOMAIN epochs' /\ epochs'[x.epoch].fingerprint = x.fingerprint
    <3>1. x \in snapshots
      BY DEF Starts
    <3>2. x.epoch \in DOMAIN epochs /\ epochs[x.epoch].fingerprint = x.fingerprint
      BY <3>1 DEF IndInv, Calibrated
    <3> QED BY <1>2, <1>3, <3>2
  <2> QED BY <2>1, <2>2, <2>3 DEF Calibrated, Fingerprint
<1>16. Conserved'
  <2> SUFFICES ASSUME NEW s \in DOMAIN book'
               PROVE  /\ \A c \in Channel :
                           book'[s].first.counts[c] + book'[s].framed[c] + Held(s)'[c]
                             = Counted(s)'[c]
                      /\ book'[s].first.duration + book'[s].framedDuration
                           + HeldDuration(s)' = Lasted(s)'
    BY DEF Conserved
  <2>1. Held(s)' = Zero /\ HeldDuration(s)' = 0
    BY <1>5, <1>9, <1>11 DEF Held, HeldDuration
  <2>2. book'[s] \in BookRow
    BY <1>9
  <2>3. CASE s = n + 1
    <3>1. Counted(s)' = r.counts /\ Lasted(s)' = r.duration
      BY <1>10, <2>3 DEF Counted, Lasted
    <3>2. r.counts \in Counts /\ r.duration \in Int
      BY <1>1 DEF Spectrum
    <3>3. /\ book'[s].first = r
          /\ book'[s].framed = Zero
          /\ book'[s].framedDuration = 0
      BY <1>8, <1>9, <2>3
    <3>4. ASSUME NEW c \in Channel
          PROVE  r.counts[c] \in Nat /\ Zero[c] = 0
      BY <3>2 DEF Counts, Zero
    <3> HIDE DEF r
    <3> QED BY <2>1, <3>1, <3>2, <3>3, <3>4
  <2>4. CASE s # n + 1
    <3>1. s \in 1..n
      BY <1>5, <1>9, <2>4
    <3>2. Counted(s)' = book'[s].last.counts /\ Lasted(s)' = book'[s].last.duration
      BY <1>10, <2>4 DEF Counted, Lasted
    <3>3. book'[s].first = book[s].first /\ book'[s].last = book[s].last
      BY <1>5, <1>9, <3>1 DEF Starts
    <3>4. /\ \A c \in Channel :
               book[s].first.counts[c] + book'[s].framed[c] = book[s].last.counts[c]
          /\ book[s].first.duration + book'[s].framedDuration = book[s].last.duration
      BY <1>5, <1>9, <3>1 DEF Starts
    <3>5. ASSUME NEW c \in Channel
          PROVE  /\ book'[s].first.counts[c] \in Nat
                 /\ book'[s].framed[c] \in Nat
                 /\ Zero[c] = 0
      BY <2>2 DEF BookRow, Spectrum, Counts, Zero
    <3>6. book'[s].first.duration \in Int /\ book'[s].framedDuration \in Nat
      BY <2>2 DEF BookRow, Spectrum
    <3> QED BY <2>1, <3>2, <3>3, <3>4, <3>5, <3>6
  <2> QED BY <2>3, <2>4
<1> QED BY <1>12, <1>13, <1>14, <1>15, <1>16 DEF IndInv

\* The first reading of the device starts a session after none.
LEMMA FirstStep ==
  ASSUME IndInv, CommitFirst
  PROVE  Starts(sessions, book)
<1>1. /\ Len(sessions) = 0
      /\ Len(book) = 0
      /\ sessions \in Seq(SessionRow)
      /\ book \in Seq(BookRow)
      /\ gaps \in Seq(GapRow)
      /\ frames \in Seq(FrameRow)
  BY DEF IndInv, TypeOK, Linked, CommitFirst
<1>2. DOMAIN sessions = {} /\ DOMAIN book = {}
  BY <1>1
<1> QED BY <1>1, <1>2 DEF CommitFirst, Starts, NewSession, NewBook

\* A boundary closes the live session and settles all it had accumulated.
LEMMA BoundaryStep ==
  ASSUME IndInv, CommitBoundary
  PROVE  \E closed, settled : Starts(closed, settled)
<1> DEFINE r == polled.spectrum
           at == polled.at
           cs == cursor.session
           done == [sessions[cs] EXCEPT !.ended = at, !.reason = Reason(r)]
           closed == [sessions EXCEPT ![cs] = done]
           sum == Plus(book[cs].framed, accumulator.counts)
           total == book[cs].framedDuration + accumulator.duration
           row == [book[cs] EXCEPT !.framed = sum, !.framedDuration = total]
           settled == [book EXCEPT ![cs] = row]
<1>1. /\ polled.kind = "spectrum"
      /\ Encodable(r)
      /\ cs # 0
      /\ Reason(r) # "none"
  BY DEF CommitBoundary, Boundary
<1>2. /\ cs \in DOMAIN sessions
      /\ cs \in DOMAIN book
      /\ cs \in Nat
      /\ sessions[cs].epoch = cursor.epoch
  BY <1>1, LiveSession
<1>3. /\ sessions \in Seq(SessionRow)
      /\ book \in Seq(BookRow)
      /\ gaps \in Seq(GapRow)
      /\ frames \in Seq(FrameRow)
      /\ accumulator \in AccumulatorRow
      /\ cursor \in CursorRow
  BY DEF IndInv, TypeOK
<1>4. at \in Time /\ at # 0
  BY <1>1, BoundsAssumption DEF IndInv, Linked, Time
<1>5. Reason(r) \in BoundaryReasons
  BY <1>1 DEF Reason, BoundaryReasons
<1>6. sessions[cs] \in SessionRow /\ book[cs] \in BookRow
  BY <1>2, <1>3
<1>7. /\ closed \in Seq(SessionRow)
      /\ Len(closed) = Len(sessions)
      /\ \A s \in DOMAIN sessions :
           closed[s].epoch = sessions[s].epoch /\ closed[s].ended # 0
  <2>1. done \in SessionRow /\ done.epoch = sessions[cs].epoch /\ done.ended = at
    BY <1>4, <1>5, <1>6 DEF SessionRow
  <2>2. \A s \in DOMAIN sessions : s # cs => sessions[s].ended # 0
    BY DEF IndInv, Anchored
  <2> HIDE DEF done
  <2> QED BY <1>2, <1>3, <1>4, <2>1, <2>2
<1>8. ASSUME NEW c \in Channel
      PROVE  /\ sum[c] = book[cs].framed[c] + accumulator.counts[c]
             /\ sum[c] \in Nat
             /\ book[cs].first.counts[c] + sum[c] = book[cs].last.counts[c]
  <2>1. /\ book[cs].framed[c] \in Nat
        /\ accumulator.counts[c] \in Nat
        /\ book[cs].first.counts[c] \in Nat
    BY <1>3, <1>6 DEF BookRow, AccumulatorRow, Spectrum, Counts
  <2>2. sum[c] = book[cs].framed[c] + accumulator.counts[c]
    BY DEF Plus
  <2>3. book[cs].first.counts[c] + book[cs].framed[c] + accumulator.counts[c]
          = book[cs].last.counts[c]
    <3>1. Held(cs) = accumulator.counts
      BY <1>1, HeldLive
    <3>2. Counted(cs) = book[cs].last.counts
      BY <1>1 DEF Counted, IndInv, Linked
    <3> QED BY <1>2, <3>1, <3>2 DEF IndInv, Conserved
  <2> HIDE DEF sum, cs
  <2> QED BY <2>1, <2>2, <2>3
<1>9. sum \in Counts
  BY <1>8 DEF Counts, Plus
<1>10. total \in Nat /\ book[cs].first.duration + total = book[cs].last.duration
  <2>1. /\ book[cs].framedDuration \in Nat
        /\ accumulator.duration \in Nat
        /\ book[cs].first.duration \in Int
    BY <1>3, <1>6 DEF BookRow, AccumulatorRow, Spectrum
  <2>2. book[cs].first.duration + book[cs].framedDuration + accumulator.duration
          = book[cs].last.duration
    <3>1. HeldDuration(cs) = accumulator.duration
      BY <1>1, HeldLive
    <3>2. Lasted(cs) = book[cs].last.duration
      BY <1>1 DEF Lasted, IndInv, Linked
    <3> QED BY <1>2, <3>1, <3>2 DEF IndInv, Conserved
  <2> QED BY <2>1, <2>2
<1> HIDE DEF sum, total
<1>11. /\ settled \in Seq(BookRow)
       /\ Len(settled) = Len(book)
       /\ \A s \in DOMAIN book :
            /\ settled[s].first = book[s].first
            /\ settled[s].last = book[s].last
            /\ \A c \in Channel :
                 book[s].first.counts[c] + settled[s].framed[c] = book[s].last.counts[c]
            /\ book[s].first.duration + settled[s].framedDuration = book[s].last.duration
  <2>1. /\ row \in BookRow
        /\ row.first = book[cs].first
        /\ row.last = book[cs].last
        /\ row.framed = sum
        /\ row.framedDuration = total
    BY <1>6, <1>9, <1>10 DEF BookRow
  <2> HIDE DEF row
  <2>2. /\ settled \in Seq(BookRow)
        /\ Len(settled) = Len(book)
        /\ settled[cs] = row
        /\ \A s \in DOMAIN book : s # cs => settled[s] = book[s]
    BY <1>2, <1>3, <2>1
  <2> HIDE DEF settled
  <2>3. ASSUME NEW s \in DOMAIN book
        PROVE  /\ settled[s].first = book[s].first
               /\ settled[s].last = book[s].last
               /\ \A c \in Channel :
                    book[s].first.counts[c] + settled[s].framed[c] = book[s].last.counts[c]
               /\ book[s].first.duration + settled[s].framedDuration = book[s].last.duration
    <3>1. CASE s = cs
      BY <1>8, <1>10, <2>1, <2>2, <3>1
    <3>2. CASE s # cs
      <4>1. /\ Held(s) = Zero
            /\ HeldDuration(s) = 0
            /\ Counted(s) = book[s].last.counts
            /\ Lasted(s) = book[s].last.duration
        <5>1. s # 0
          BY <1>3
        <5> QED BY <3>2, <5>1 DEF Held, HeldDuration, Counted, Lasted, IndInv, Anchored
      <4>2. book[s] \in BookRow /\ settled[s] = book[s]
        BY <1>3, <2>2, <3>2
      <4>3. /\ \A c \in Channel :
                 book[s].first.counts[c] + book[s].framed[c] + Zero[c]
                   = book[s].last.counts[c]
            /\ book[s].first.duration + book[s].framedDuration + 0 = book[s].last.duration
        BY <4>1 DEF IndInv, Conserved
      <4>4. ASSUME NEW c \in Channel
            PROVE  book[s].first.counts[c] + book[s].framed[c] = book[s].last.counts[c]
        <5>1. /\ book[s].first.counts[c] \in Nat
              /\ book[s].framed[c] \in Nat
              /\ Zero[c] = 0
          BY <4>2 DEF BookRow, Spectrum, Counts, Zero
        <5> QED BY <4>3, <5>1
      <4>5. book[s].first.duration + book[s].framedDuration = book[s].last.duration
        <5>1. book[s].first.duration \in Int /\ book[s].framedDuration \in Nat
          BY <4>2 DEF BookRow, Spectrum
        <5> QED BY <4>3, <5>1
      <4> QED BY <4>2, <4>4, <4>5
    <3> QED BY <3>1, <3>2
  <2> QED BY <2>2, <2>3
<1>12. gaps' \in Seq(GapRow)
  <2>1. [session |-> cs, reason |-> Reason(r)] \in GapRow
    BY <1>2, <1>5 DEF GapRow, GapKinds, Id
  <2> QED BY <1>3, <2>1 DEF CommitBoundary, Boundary
<1>13. /\ frames' \in Seq(FrameRow)
       /\ \A f \in DOMAIN frames' :
            \/ f \in DOMAIN frames /\ frames'[f] = frames[f]
            \/ /\ frames'[f].session \in DOMAIN sessions
               /\ frames'[f].epoch = sessions[frames'[f].session].epoch
  <2> DEFINE flags == accumulator.flags \cup {"partial_frame_on_session_boundary"}
             frame == Frame(accumulator, cursor.epoch, flags)
  <2>1. frames' = IF accumulator.session = 0 THEN frames ELSE Append(frames, frame)
    BY DEF CommitBoundary, Boundary
  <2>2. CASE accumulator.session = 0
    BY <1>3, <2>1, <2>2
  <2>3. CASE accumulator.session # 0
    <3>1. accumulator.session = cs
      BY <2>3 DEF IndInv, Anchored
    <3>2. flags \in SUBSET Flags
      BY <1>3 DEF AccumulatorRow, Flags
    <3> HIDE DEF flags
    <3>3. frame \in FrameRow
      BY <1>3, <3>2, FrameType DEF CursorRow, Id
    <3>4. frame.session = cs /\ frame.epoch = cursor.epoch
      BY <3>1 DEF Frame
    <3> HIDE DEF frame
    <3> QED BY <1>2, <1>3, <2>1, <2>3, <3>3, <3>4
  <2> QED BY <2>2, <2>3
<1>14. sessions' = Append(closed, NewSession) /\ book' = Append(settled, NewBook)
  <2>1. closed = [sessions EXCEPT ![cs].ended = at, ![cs].reason = Reason(r)]
    BY <1>2, <1>3
  <2>2. settled = [book EXCEPT ![cs].framed = Plus(@, accumulator.counts),
                               ![cs].framedDuration = @ + accumulator.duration]
    BY <1>2, <1>3 DEF sum, total
  <2> HIDE DEF closed, settled
  <2> QED BY <2>1, <2>2 DEF CommitBoundary, Boundary, NewSession, NewBook
<1>15. /\ polled' = Idle
       /\ epochs' = EpochsWith(r, at)
       /\ cursor' = NewCursor(r, at, Len(sessions) + 1, EpochOf(r))
       /\ accumulator' = NoAccumulator
       /\ UNCHANGED <<clockVars, connection, snapshots>>
  BY DEF CommitBoundary, Boundary
<1> HIDE DEF closed, settled
<1>16. Starts(closed, settled)
  BY <1>1, <1>7, <1>11, <1>12, <1>13, <1>14, <1>15 DEF Starts
<1> QED BY <1>16

-----------------------------------------------------------------------------
(* The other steps, and the invariant. *)

\* The initial state has no rows.
LEMMA InitInv ==
  ASSUME Init
  PROVE  IndInv
<1>1. /\ epochs = << >> /\ sessions = << >> /\ frames = << >> /\ gaps = << >> /\ book = << >>
      /\ cursor = NoCursor /\ accumulator = NoAccumulator /\ snapshots = {}
      /\ now = 1 /\ stepsBack = 0 /\ connection = 1 /\ polled = Idle
  BY DEF Init
<1>2. Zero \in Counts
  BY DEF Zero, Counts
<1>3. 0 \in Time
  BY BoundsAssumption DEF Time
<1>4. cursor \in CursorRow /\ cursor.session = 0 /\ cursor.epoch = 0
  BY <1>1, <1>2, <1>3 DEF NoCursor, CursorRow, Id
<1>5. /\ accumulator \in AccumulatorRow
      /\ accumulator.session = 0
      /\ accumulator.counts = Zero
      /\ accumulator.duration = 0
  BY <1>1, <1>2, <1>3 DEF NoAccumulator, AccumulatorRow, Id, Flags
<1>6. /\ polled.kind = "idle"
      /\ polled \in [kind : {"idle", "spectrum", "accumulated"}, at : Time, spectrum : Spectrum]
  BY <1>1, <1>3, ReadingsAssumption DEF Idle
<1>7. TypeOK
  BY <1>1, <1>4, <1>5, <1>6, BoundsAssumption DEF TypeOK
<1>8. Linked
  BY <1>1, <1>4, <1>5, <1>6 DEF Linked
<1>9. Anchored /\ Calibrated /\ Conserved
  BY <1>1, <1>4, <1>5 DEF Anchored, Calibrated, Conserved
<1> QED BY <1>7, <1>8, <1>9 DEF IndInv

\* Reading, giving up, reconnecting and the clock leave the database alone.
LEMMA OutsideStep ==
  ASSUME IndInv,
         \/ ReadSpectrum \/ ReadAccumulated \/ Abandon \/ Reconnect \/ Tick \/ StepBack
         \/ UNCHANGED vars
  PROVE  IndInv' /\ UNCHANGED <<epochs, liveVars, snapshots>>
<1>1. UNCHANGED <<epochs, liveVars, snapshots>>
  BY DEF ReadSpectrum, ReadAccumulated, Read, Abandon, Reconnect, Tick, StepBack, vars
<1>2. UNCHANGED <<sessions, cursor, accumulator, frames, gaps, book>>
  BY <1>1 DEF liveVars
<1>3. /\ polled' \in [kind : {"idle", "spectrum", "accumulated"}, at : Time, spectrum : Spectrum]
      /\ polled'.kind # "idle" => polled'.at \in 1..MaxTime
  <2>1. CASE UNCHANGED polled
    BY <2>1 DEF IndInv, TypeOK, Linked
  <2>2. ASSUME NEW k \in {"spectrum", "accumulated"}, NEW r \in Spectrum,
               polled' = [kind |-> k, at |-> now, spectrum |-> r]
        PROVE  <1>3
    BY <2>2, BoundsAssumption DEF IndInv, TypeOK, Time
  <2>3. CASE polled' = Idle
    BY <2>3, ReadingsAssumption, BoundsAssumption DEF Idle, Time
  <2>4. CASE ReadSpectrum
    BY <2>2, <2>4, ReadingsAssumption DEF ReadSpectrum, Read
  <2>5. CASE ReadAccumulated
    BY <2>2, <2>5, ReadingsAssumption DEF ReadAccumulated, Read
  <2>6. CASE Abandon
    BY <2>3, <2>6 DEF Abandon
  <2>7. CASE Reconnect \/ Tick \/ StepBack \/ UNCHANGED vars
    BY <2>1, <2>7 DEF Reconnect, Tick, StepBack, vars
  <2> QED BY <2>4, <2>5, <2>6, <2>7
<1>4. now' \in 1..MaxTime /\ stepsBack' \in 0..MaxStepsBack /\ connection' \in 1..MaxConnections
  <2>1. now \in 1..MaxTime /\ stepsBack \in 0..MaxStepsBack /\ connection \in 1..MaxConnections
    BY DEF IndInv, TypeOK
  <2>2. CASE Reconnect
    BY <2>1, <2>2, BoundsAssumption DEF Reconnect, clockVars
  <2>3. CASE Tick
    BY <2>1, <2>3, BoundsAssumption DEF Tick
  <2>4. CASE StepBack
    BY <2>1, <2>4, BoundsAssumption DEF StepBack
  <2>5. CASE ReadSpectrum \/ ReadAccumulated \/ Abandon \/ UNCHANGED vars
    BY <2>1, <2>5 DEF ReadSpectrum, ReadAccumulated, Read, Abandon, vars, clockVars
  <2> QED BY <2>2, <2>3, <2>4, <2>5
<1>5. TypeOK'
  BY <1>1, <1>2, <1>3, <1>4 DEF IndInv, TypeOK
<1>6. Linked'
  BY <1>1, <1>2, <1>3 DEF IndInv, Linked
<1>7. Anchored' /\ Calibrated'
  BY <1>1, <1>2 DEF IndInv, Anchored, Calibrated
<1>8. Conserved'
  BY <1>2 DEF IndInv, Conserved, Counted, Lasted, Held, HeldDuration
<1> QED BY <1>1, <1>5, <1>6, <1>7, <1>8 DEF IndInv

\* An audit snapshot refers to an epoch of its calibration, and if it has to
\* make one, makes it closed.
LEMMA SnapshotStep ==
  ASSUME IndInv, StoreSnapshotKnown \/ StoreSnapshotNew
  PROVE  IndInv' /\ UNCHANGED liveVars
<1> DEFINE r == polled.spectrum
           at == polled.at
<1>1. /\ polled.kind = "accumulated"
      /\ polled' = Idle
      /\ UNCHANGED <<clockVars, connection, liveVars>>
  BY DEF StoreSnapshotKnown, StoreSnapshotNew
<1>2. UNCHANGED <<now, stepsBack, connection, sessions, cursor, accumulator, frames, gaps, book>>
  BY <1>1 DEF clockVars, liveVars
<1>3. r \in Spectrum /\ at \in 1..MaxTime
  BY <1>1 DEF IndInv, TypeOK, Linked
<1>4. at \in Time /\ at # 0 /\ Fingerprint(r) \in Nat \X Calibrations
  BY <1>3, FingerprintType, BoundsAssumption DEF Time
<1>5. /\ DOMAIN epochs = 1..Len(epochs)
      /\ Len(epochs) \in Nat
      /\ epochs \in Seq(EpochRow)
      /\ cursor.epoch \in 0..Len(epochs)
  <2>1. DOMAIN epochs = 1..Len(epochs) /\ Len(epochs) \in Nat /\ epochs \in Seq(EpochRow)
    BY EpochsAreOK DEF EpochsOK
  <2>2. cursor.epoch \in 0..Len(epochs)
    BY <2>1 DEF IndInv, Linked, Anchored
  <2> QED BY <2>1, <2>2
<1>6. /\ epochs' \in Seq(EpochRow)
      /\ DOMAIN epochs' = 1..Len(epochs')
      /\ DOMAIN epochs \subseteq DOMAIN epochs'
      /\ \A e \in DOMAIN epochs : epochs'[e] = epochs[e]
      /\ \A e \in DOMAIN epochs' : e \notin DOMAIN epochs => epochs'[e].ended # 0 /\ e # cursor.epoch
      /\ \A x \in snapshots' :
           \/ x \in snapshots
           \/ /\ x \in [epoch : Id, fingerprint : Nat \X Calibrations]
              /\ x.epoch \in DOMAIN epochs'
              /\ epochs'[x.epoch].fingerprint = x.fingerprint
  <2>1. CASE StoreSnapshotKnown
    <3>1. epochs' = epochs
      BY <2>1 DEF StoreSnapshotKnown
    <3>2. PICK e \in Preferred(r) :
            snapshots' = snapshots \cup {[epoch |-> e, fingerprint |-> Fingerprint(r)]}
      BY <2>1 DEF StoreSnapshotKnown
    <3>3. e \in DOMAIN epochs /\ epochs[e].fingerprint = Fingerprint(r)
      BY DEF Preferred, Matching
    <3>4. e \in Id
      BY <1>5, <3>3 DEF Id
    <3> QED BY <1>4, <1>5, <3>1, <3>2, <3>3, <3>4
  <2>2. CASE StoreSnapshotNew
    <3> DEFINE row == [fingerprint |-> Fingerprint(r), started |-> at, ended |-> at]
               shot == [epoch |-> Len(epochs) + 1, fingerprint |-> Fingerprint(r)]
    <3>1. epochs' = Append(epochs, row) /\ snapshots' = snapshots \cup {shot}
      BY <2>2 DEF StoreSnapshotNew
    <3>2. row \in EpochRow /\ row.ended # 0 /\ row.fingerprint = Fingerprint(r)
      BY <1>4 DEF EpochRow
    <3>3. /\ shot \in [epoch : Id, fingerprint : Nat \X Calibrations]
          /\ shot.epoch = Len(epochs) + 1
          /\ shot.fingerprint = Fingerprint(r)
      BY <1>4, <1>5 DEF Id
    <3> HIDE DEF row, shot
    <3>4. /\ epochs' \in Seq(EpochRow)
          /\ Len(epochs') = Len(epochs) + 1
          /\ DOMAIN epochs' = 1..(Len(epochs) + 1)
          /\ epochs'[Len(epochs) + 1] = row
          /\ \A e \in 1..Len(epochs) : epochs'[e] = epochs[e]
      BY <1>5, <3>1, <3>2
    <3> QED BY <1>5, <3>1, <3>2, <3>3, <3>4
  <2> QED BY <2>1, <2>2
<1>7. TypeOK'
  <2>1. polled' \in [kind : {"idle", "spectrum", "accumulated"}, at : Time, spectrum : Spectrum]
    BY <1>1, ReadingsAssumption, BoundsAssumption DEF Idle, Time
  <2>2. snapshots' \in SUBSET [epoch : Id, fingerprint : Nat \X Calibrations]
    BY <1>6 DEF IndInv, TypeOK
  <2> QED BY <1>2, <1>6, <2>1, <2>2 DEF IndInv, TypeOK
<1>8. Linked'
  BY <1>1, <1>2 DEF IndInv, Linked, Idle
<1>9. Anchored'
  BY <1>2, <1>6 DEF IndInv, Anchored
<1>10. Calibrated'
  <2>1. ASSUME NEW s \in DOMAIN sessions
        PROVE  /\ sessions[s].epoch \in DOMAIN epochs'
               /\ epochs'[sessions[s].epoch].fingerprint = Fingerprint(book[s].first)
               /\ epochs'[sessions[s].epoch].fingerprint = Fingerprint(book[s].last)
    BY <1>6 DEF IndInv, Calibrated
  <2>2. \A f \in DOMAIN frames :
          /\ frames[f].session \in DOMAIN sessions
          /\ frames[f].epoch = sessions[frames[f].session].epoch
    BY DEF IndInv, Calibrated
  <2>3. ASSUME NEW x \in snapshots'
        PROVE  x.epoch \in DOMAIN epochs' /\ epochs'[x.epoch].fingerprint = x.fingerprint
    BY <1>6 DEF IndInv, Calibrated
  <2> QED BY <1>2, <2>1, <2>2, <2>3 DEF Calibrated, Fingerprint
<1>11. Conserved'
  BY <1>2 DEF IndInv, Conserved, Counted, Lasted, Held, HeldDuration
<1> QED BY <1>1, <1>7, <1>8, <1>9, <1>10, <1>11 DEF IndInv

\* Every step keeps the invariant.
LEMMA InvStep ==
  ASSUME IndInv, [Next]_vars
  PROVE  IndInv'
<1>1. CASE CommitFirst
  BY <1>1, FirstStep, StartsInv
<1>2. CASE CommitBoundary
  <2>1. PICK closed, settled : Starts(closed, settled)
    BY <1>2, BoundaryStep
  <2> QED BY <2>1, StartsInv
<1>3. CASE CommitQuiet
  BY <1>3, QuietStep, ContinuesInv DEF CommitQuiet
<1>4. CASE CommitDelta
  BY <1>4, DeltaStep, ContinuesInv DEF CommitDelta
<1>5. CASE CommitFrame
  BY <1>5, FrameStep, ContinuesInv DEF CommitFrame, FrameAt
<1>6. CASE StoreSnapshotKnown \/ StoreSnapshotNew
  BY <1>6, SnapshotStep
<1>7. CASE \/ ReadSpectrum \/ ReadAccumulated \/ Abandon \/ Reconnect \/ Tick \/ StepBack
           \/ UNCHANGED vars
  BY <1>7, OutsideStep
<1> QED BY <1>1, <1>2, <1>3, <1>4, <1>5, <1>6, <1>7 DEF Next

\* The invariant of every reachable state.
LEMMA Invariance == Spec => []IndInv
BY InitInv, InvStep, PTL DEF Spec

-----------------------------------------------------------------------------
(* Theorems. *)

\* Every table keeps rows of its own shape.
THEOREM TypeCorrect == Spec => []TypeOK
<1>1. IndInv => TypeOK
  BY DEF IndInv
<1> QED BY <1>1, Invariance, PTL

\* In every session the first reading, the frames and the accumulator add up
\* to the last committed reading, channel by channel and in seconds.
THEOREM Conservation == Spec => []Conserved
<1>1. IndInv => Conserved
  BY DEF IndInv
<1> QED BY <1>1, Invariance, PTL

\* The cursor points at the only open session and the only open epoch.
THEOREM OneLiveChain == Spec => []Anchored
<1>1. IndInv => Anchored
  BY DEF IndInv
<1> QED BY <1>1, Invariance, PTL

\* Sessions, frames and snapshots stay under the calibration they were
\* measured with.
THEOREM CalibrationsKeptApart == Spec => []Calibrated
<1>1. IndInv => Calibrated
  BY DEF IndInv
<1> QED BY <1>1, Invariance, PTL

\* In a reachable state no valid reading overflows the accumulator, meets the
\* accumulator of another session or finds the cursor off the open epoch.
LEMMA NoCorruption ==
  ASSUME IndInv, NEW r \in Spectrum, Encodable(r)
  PROVE  ~Corrupt(r)
<1> SUFFICES ASSUME Corrupt(r)
             PROVE  FALSE
  OBVIOUS
<1>1. cursor.session # 0
  BY DEF Corrupt
<1>2. r \in Spectrum
  OBVIOUS
<1>3. CASE OpenEpochs \cap Matching(r) # {} /\ EpochOf(r) # cursor.epoch
  <2>1. OpenEpochs = {cursor.epoch}
    BY <1>1, LiveSession
  <2>2. EpochOf(r) \in OpenEpochs
    BY <1>3 DEF EpochOf
  <2> QED BY <1>3, <2>1, <2>2
<1>4. CASE accumulator.session # 0 /\ accumulator.session # cursor.session
  BY <1>4 DEF IndInv, Anchored
<1>5. CASE \E c \in Channel : accumulator.counts[c] + Delta(r)[c] > UINT32_MAX
  <2>1. PICK c \in Channel : accumulator.counts[c] + Delta(r)[c] > UINT32_MAX
    BY <1>5
  <2>2. cursor.session \in DOMAIN book /\ book[cursor.session] \in BookRow
    BY <1>1, LiveSession DEF IndInv, TypeOK
  <2>3. book[cursor.session].first.counts[c] + book[cursor.session].framed[c]
          + accumulator.counts[c] = cursor.counts[c]
    <3>1. Held(cursor.session) = accumulator.counts
      BY <1>1, HeldLive
    <3>2. Counted(cursor.session) = cursor.counts
      BY DEF Counted
    <3> QED BY <2>2, <3>1, <3>2 DEF IndInv, Conserved
  <2>4. /\ book[cursor.session].first.counts[c] \in Nat
        /\ book[cursor.session].framed[c] \in Nat
    BY <2>2 DEF BookRow, Spectrum, Counts
  <2>5. accumulator.counts[c] \in Nat /\ cursor.counts[c] \in Nat
    BY DEF IndInv, TypeOK, AccumulatorRow, CursorRow, Counts
  <2>6. r.counts[c] \in Nat /\ r.counts[c] <= UINT32_MAX
    BY <1>2 DEF Spectrum, Counts, Encodable
  <2>7. Delta(r)[c] = r.counts[c] - cursor.counts[c]
    BY DEF Delta
  <2>8. UINT32_MAX \in Nat
    BY SettingsAssumption
  <2> QED BY <2>1, <2>3, <2>4, <2>5, <2>6, <2>7, <2>8
<1> QED BY <1>3, <1>4, <1>5 DEF Corrupt

\* The errors the code guards against cannot be reached by any detector.
THEOREM GuardsNeverFire == Spec => []GuardsUnreachable
<1>1. IndInv => GuardsUnreachable
  BY NoCorruption, ReadingsAssumption DEF GuardsUnreachable
<1> QED BY <1>1, Invariance, PTL

\* Within a session the stored spectrum never falls.
THEOREM CursorMonotone == Spec => CursorGrows
<1> DEFINE Grows ==
      cursor'.session = cursor.session =>
        /\ cursor'.duration >= cursor.duration
        /\ cursor'.channels = cursor.channels
        /\ \A c \in Channel : cursor'.counts[c] >= cursor.counts[c]
<1>1. ASSUME IndInv, [Next]_vars
      PROVE  [Grows]_vars
  <2>1. /\ cursor.duration \in Nat
        /\ \A c \in Channel : cursor.counts[c] \in Nat
        /\ Len(sessions) \in Nat
        /\ cursor.session = Len(sessions)
    BY <1>1 DEF IndInv, TypeOK, CursorRow, Counts, Linked
  <2>2. CASE Continues
    <3>1. cursor' = NewCursor(polled.spectrum, polled.at, cursor.session, EpochOf(polled.spectrum))
      BY <2>2 DEF Continues
    <3> QED BY <1>1, <2>2, <3>1, ContinuesFacts DEF NewCursor
  <2>3. CASE CommitFirst \/ CommitBoundary
    <3>1. cursor' = NewCursor(polled.spectrum, polled.at, Len(sessions) + 1,
                              EpochOf(polled.spectrum))
      BY <2>3 DEF CommitFirst, CommitBoundary, Boundary
    <3>2. cursor'.session = Len(sessions) + 1
      BY <3>1 DEF NewCursor
    <3> QED BY <2>1, <3>2
  <2>4. CASE UNCHANGED cursor
    BY <2>1, <2>4
  <2>5. CASE StoreSnapshotKnown \/ StoreSnapshotNew
    BY <2>4, <2>5 DEF StoreSnapshotKnown, StoreSnapshotNew, liveVars
  <2>6. CASE \/ ReadSpectrum \/ ReadAccumulated \/ Abandon \/ Reconnect \/ Tick \/ StepBack
             \/ UNCHANGED vars
    BY <1>1, <2>4, <2>6, OutsideStep DEF liveVars
  <2>7. CASE CommitQuiet \/ CommitDelta \/ CommitFrame
    BY <2>2, <2>7 DEF CommitQuiet, CommitDelta, CommitFrame, FrameAt
  <2> QED BY <1>1, <2>3, <2>5, <2>6, <2>7 DEF Next
<1> QED BY <1>1, Invariance, PTL DEF Spec, CursorGrows

-----------------------------------------------------------------------------
(* Frames and gaps, as rows. *)

\* The one row a step may add to the frames.
LEMMA FramesStep ==
  ASSUME IndInv, [Next]_vars
  PROVE  \/ frames' = frames /\ cursor'.session \in {cursor.session, cursor.session + 1}
         \/ \E row \in FrameRow :
              /\ frames' = Append(frames, row)
              /\ row.session = cursor.session
              /\ \/ row.duration >= FrameTarget /\ cursor'.session = cursor.session
                 \/ /\ "partial_frame_on_session_boundary" \in row.flags
                    /\ cursor'.session = cursor.session + 1
<1>0. /\ cursor.session = Len(sessions)
      /\ accumulator \in AccumulatorRow /\ cursor \in CursorRow
  BY DEF IndInv, TypeOK, Linked
<1>1. CASE CommitFirst
  <2>1. cursor' = NewCursor(polled.spectrum, polled.at, Len(sessions) + 1, EpochOf(polled.spectrum))
        /\ frames' = frames
    BY <1>1 DEF CommitFirst
  <2> QED BY <1>0, <2>1 DEF NewCursor
<1>2. CASE CommitBoundary
  <2> DEFINE flags == accumulator.flags \cup {"partial_frame_on_session_boundary"}
             row == Frame(accumulator, cursor.epoch, flags)
  <2>1. /\ cursor' = NewCursor(polled.spectrum, polled.at, Len(sessions) + 1,
                               EpochOf(polled.spectrum))
        /\ frames' = IF accumulator.session = 0 THEN frames ELSE Append(frames, row)
    BY <1>2 DEF CommitBoundary, Boundary
  <2>2. cursor'.session = cursor.session + 1
    BY <1>0, <2>1 DEF NewCursor
  <2>3. CASE accumulator.session # 0
    <3>1. accumulator.session = cursor.session
      BY <2>3 DEF IndInv, Anchored
    <3>2. flags \in SUBSET Flags /\ "partial_frame_on_session_boundary" \in flags
      BY <1>0 DEF AccumulatorRow, Flags
    <3> HIDE DEF flags
    <3>3. row \in FrameRow
      BY <1>0, <3>2, FrameType DEF CursorRow, Id
    <3>4. row.session = cursor.session /\ row.flags = flags
      BY <3>1 DEF Frame
    <3> HIDE DEF row
    <3> QED BY <2>1, <2>2, <2>3, <3>2, <3>3, <3>4
  <2> QED BY <2>1, <2>2, <2>3
<1>3. CASE CommitQuiet \/ CommitDelta
  <2>1. /\ cursor' = NewCursor(polled.spectrum, polled.at, cursor.session,
                               EpochOf(polled.spectrum))
        /\ frames' = frames
    BY <1>3 DEF CommitQuiet, CommitDelta, Continues
  <2> QED BY <2>1 DEF NewCursor
<1>4. CASE CommitFrame
  <2> DEFINE a == Grown(polled.spectrum, polled.at)
             row == Frame(a, EpochOf(polled.spectrum), a.flags)
  <2>1. /\ cursor' = NewCursor(polled.spectrum, polled.at, cursor.session,
                               EpochOf(polled.spectrum))
        /\ frames' = Append(frames, row)
        /\ a.duration >= FrameTarget /\ Continues
    BY <1>4 DEF CommitFrame, FrameAt, Continues
  <2>2. a \in AccumulatorRow /\ a.session = cursor.session
    BY <2>1, GrownFacts
  <2>3. EpochOf(polled.spectrum) \in Nat
    BY <1>0, <2>1, ContinuesFacts DEF CursorRow, Id
  <2> HIDE DEF a
  <2>4. row \in FrameRow
    BY <2>2, <2>3, FrameType DEF AccumulatorRow
  <2>5. row.session = cursor.session /\ row.duration = a.duration
    BY <2>2 DEF Frame
  <2>6. cursor'.session = cursor.session
    BY <2>1 DEF NewCursor
  <2> HIDE DEF row
  <2> QED BY <2>1, <2>4, <2>5, <2>6
<1>5. CASE UNCHANGED liveVars
  BY <1>5 DEF liveVars
<1> QED
  BY <1>1, <1>2, <1>3, <1>4, <1>5
  DEF Next, ReadSpectrum, ReadAccumulated, Read, Abandon, StoreSnapshotKnown, StoreSnapshotNew,
      Reconnect, Tick, StepBack, vars

\* Frames shorter than the target are the last of sessions that were closed.
LEMMA ShortFramesStep ==
  ASSUME IndInv, ShortFramesArePartial, [Next]_vars
  PROVE  ShortFramesArePartial'
<1>0. /\ frames \in Seq(FrameRow) /\ Len(frames) \in Nat /\ DOMAIN frames = 1..Len(frames)
      /\ cursor.session \in Nat
      /\ \A f \in DOMAIN frames : frames[f].session \in Nat /\ frames[f].session <= cursor.session
  <2>1. frames \in Seq(FrameRow) /\ sessions \in Seq(SessionRow) /\ cursor.session = Len(sessions)
    BY DEF IndInv, TypeOK, Linked
  <2>2. \A f \in DOMAIN frames : frames[f].session \in DOMAIN sessions
    BY DEF IndInv, Calibrated
  <2> QED BY <2>1, <2>2
<1>1. CASE frames' = frames /\ cursor'.session \in {cursor.session, cursor.session + 1}
  BY <1>0, <1>1 DEF ShortFramesArePartial
<1>2. ASSUME NEW row \in FrameRow,
             frames' = Append(frames, row),
             row.session = cursor.session,
             \/ row.duration >= FrameTarget /\ cursor'.session = cursor.session
             \/ /\ "partial_frame_on_session_boundary" \in row.flags
                /\ cursor'.session = cursor.session + 1
      PROVE  ShortFramesArePartial'
  <2>1. /\ Len(frames') = Len(frames) + 1 /\ DOMAIN frames' = 1..Len(frames) + 1
        /\ frames'[Len(frames) + 1] = row
        /\ \A f \in 1..Len(frames) : frames'[f] = frames[f]
    BY <1>0, <1>2
  <2>2. row.duration \in Int /\ FrameTarget \in Nat
    BY SettingsAssumption DEF FrameRow
  <2>3. cursor'.session \in {cursor.session, cursor.session + 1}
    BY <1>2
  <2>4. ASSUME NEW f \in 1..Len(frames), frames'[f].duration < FrameTarget
        PROVE  /\ "partial_frame_on_session_boundary" \in frames'[f].flags
               /\ frames'[f].session # cursor'.session
               /\ \A g \in DOMAIN frames' : frames'[g].session = frames'[f].session => g <= f
    <3>1. frames[f].session # cursor.session /\ frames'[f] = frames[f]
      BY <1>0, <2>1, <2>4 DEF ShortFramesArePartial
    <3>2. /\ "partial_frame_on_session_boundary" \in frames[f].flags
          /\ \A g \in DOMAIN frames : frames[g].session = frames[f].session => g <= f
      BY <1>0, <2>1, <2>4 DEF ShortFramesArePartial
    <3>3. frames[f].session # cursor'.session
      BY <1>0, <2>3, <3>1
    <3> QED BY <1>0, <1>2, <2>1, <3>1, <3>2, <3>3
  <2>5. row.duration < FrameTarget =>
          /\ "partial_frame_on_session_boundary" \in row.flags
          /\ row.session # cursor'.session
    BY <1>0, <1>2, <2>2
  <2>6. \A g \in DOMAIN frames' : g <= Len(frames) + 1
    BY <1>0, <2>1
  <2> QED BY <1>0, <2>1, <2>4, <2>5, <2>6 DEF ShortFramesArePartial
<1> QED BY <1>1, <1>2, FramesStep

\* The gaps a step adds, and what it does to the sessions.
LEMMA GapsStep ==
  ASSUME IndInv, [Next]_vars
  PROVE  \/ sessions' = sessions /\ gaps' = gaps
         \/ /\ sessions' = sessions /\ cursor.session # 0
            /\ gaps' = Append(gaps, [session |-> cursor.session,
                                     reason |-> "counts_changed_without_duration_change"])
         \/ /\ cursor.session = 0 /\ gaps' = gaps
            /\ sessions' = Append(sessions, NewSession)
         \/ /\ cursor.session # 0 /\ Reason(polled.spectrum) \in BoundaryReasons
            /\ gaps' = Append(gaps, [session |-> cursor.session,
                                     reason |-> Reason(polled.spectrum)])
            /\ \E done \in SessionRow :
                 /\ done.ended # 0 /\ done.reason = Reason(polled.spectrum)
                 /\ sessions' = Append([sessions EXCEPT ![cursor.session] = done], NewSession)
<1>1. CASE CommitFirst
  BY <1>1 DEF CommitFirst, NewSession
<1>2. CASE CommitBoundary
  <2> DEFINE cs == cursor.session
             done == [sessions[cs] EXCEPT !.ended = polled.at, !.reason = Reason(polled.spectrum)]
  <2>1. /\ cs # 0 /\ Reason(polled.spectrum) \in BoundaryReasons
        /\ polled.at \in 1..MaxTime
    BY <1>2 DEF CommitBoundary, Boundary, Reason, BoundaryReasons, IndInv, Linked
  <2>2. sessions \in Seq(SessionRow) /\ cs \in DOMAIN sessions /\ sessions[cs] \in SessionRow
    <3>1. sessions \in Seq(SessionRow) /\ cs \in DOMAIN sessions
      BY <2>1, LiveSession DEF IndInv, TypeOK
    <3> QED BY <3>1
  <2>3. polled.at \in Time /\ polled.at # 0
    BY <2>1, BoundsAssumption DEF Time
  <2>4. done \in SessionRow /\ done.ended # 0 /\ done.reason = Reason(polled.spectrum)
    BY <2>1, <2>2, <2>3 DEF SessionRow
  <2>5. [sessions EXCEPT ![cs] = done]
          = [sessions EXCEPT ![cs].ended = polled.at, ![cs].reason = Reason(polled.spectrum)]
    BY <2>2
  <2> HIDE DEF done
  <2>6. sessions' = Append([sessions EXCEPT ![cs] = done], NewSession)
    BY <1>2, <2>5 DEF CommitBoundary, Boundary, NewSession
  <2> QED BY <1>2, <2>1, <2>4, <2>6 DEF CommitBoundary, Boundary
<1>3. CASE Continues
  BY <1>3 DEF Continues
<1>4. CASE UNCHANGED liveVars
  BY <1>4 DEF liveVars
<1> QED
  BY <1>1, <1>2, <1>3, <1>4
  DEF Next, CommitQuiet, CommitDelta, CommitFrame, FrameAt, ReadSpectrum, ReadAccumulated, Read,
      Abandon, StoreSnapshotKnown, StoreSnapshotNew, Reconnect, Tick, StepBack, vars

Reported(s) == {g \in DOMAIN gaps : gaps[g].session = s /\ gaps[g].reason \in BoundaryReasons}

\* Closed sessions are explained, and no gap is of a session still to come.
GapsInv ==
  /\ ClosedSessionsExplained
  /\ \A g \in DOMAIN gaps : gaps[g].session \in DOMAIN sessions

\* No step leaves an ended session without its gap, or with two.
LEMMA GapsInvStep ==
  ASSUME IndInv, GapsInv, [Next]_vars
  PROVE  GapsInv'
<1>0. /\ sessions \in Seq(SessionRow) /\ gaps \in Seq(GapRow)
      /\ Len(sessions) \in Nat /\ DOMAIN sessions = 1..Len(sessions)
      /\ Len(gaps) \in Nat /\ DOMAIN gaps = 1..Len(gaps)
      /\ cursor.session = Len(sessions)
      /\ \A s \in DOMAIN sessions : sessions[s].ended = 0 <=> s = cursor.session
      /\ \A g \in DOMAIN gaps : gaps[g].session \in DOMAIN sessions
  BY DEF IndInv, TypeOK, Linked, Anchored, GapsInv
<1>e. \A s \in DOMAIN sessions :
        IF sessions[s].ended = 0 THEN Reported(s) = {}
        ELSE \E g \in Reported(s) : Reported(s) = {g} /\ gaps[g].reason = sessions[s].reason
  BY DEF GapsInv, ClosedSessionsExplained, Reported
<1>f. SUFFICES /\ \A s \in DOMAIN sessions' :
                    IF sessions'[s].ended = 0 THEN Reported(s)' = {}
                    ELSE \E g \in Reported(s)' :
                           Reported(s)' = {g} /\ gaps'[g].reason = sessions'[s].reason
               /\ \A g \in DOMAIN gaps' : gaps'[g].session \in DOMAIN sessions'
  BY DEF GapsInv, ClosedSessionsExplained, Reported
<1>n. NewSession.ended = 0
  BY DEF NewSession
<1>1. CASE sessions' = sessions /\ gaps' = gaps
  BY <1>0, <1>1, <1>e DEF Reported
<1>2. CASE /\ sessions' = sessions /\ cursor.session # 0
           /\ gaps' = Append(gaps, [session |-> cursor.session,
                                    reason |-> "counts_changed_without_duration_change"])
  <2>1. /\ DOMAIN gaps' = 1..Len(gaps) + 1
        /\ gaps'[Len(gaps) + 1].session = cursor.session
        /\ gaps'[Len(gaps) + 1].reason = "counts_changed_without_duration_change"
        /\ \A g \in 1..Len(gaps) : gaps'[g] = gaps[g]
    BY <1>0, <1>2
  <2>2. "counts_changed_without_duration_change" \notin BoundaryReasons
    BY DEF BoundaryReasons
  <2>3. \A s : Reported(s)' = Reported(s)
    BY <1>0, <2>1, <2>2 DEF Reported
  <2>4. \A s : Reported(s) \subseteq 1..Len(gaps)
    BY <1>0 DEF Reported
  <2>5. ASSUME NEW s \in DOMAIN sessions
        PROVE  IF sessions[s].ended = 0 THEN Reported(s)' = {}
               ELSE \E g \in Reported(s)' :
                      Reported(s)' = {g} /\ gaps'[g].reason = sessions[s].reason
    BY <1>e, <2>1, <2>3, <2>4
  <2>6. \A g \in DOMAIN gaps' : gaps'[g].session \in DOMAIN sessions
    BY <1>0, <1>2, <2>1
  <2>7. sessions' = sessions
    BY <1>2
  <2>8. \A s \in DOMAIN sessions' :
          IF sessions'[s].ended = 0 THEN Reported(s)' = {}
          ELSE \E g \in Reported(s)' :
                 Reported(s)' = {g} /\ gaps'[g].reason = sessions'[s].reason
    BY <2>5, <2>7
  <2> QED BY <2>6, <2>7, <2>8
<1>3. CASE /\ cursor.session = 0 /\ gaps' = gaps
           /\ sessions' = Append(sessions, NewSession)
  <2>1. DOMAIN sessions' = {1} /\ sessions'[1] = NewSession /\ DOMAIN gaps = {}
    BY <1>0, <1>3
  <2>2. \A s : Reported(s)' = {}
    BY <1>3, <2>1 DEF Reported
  <2> QED BY <1>3, <1>n, <2>1, <2>2
<1>4. ASSUME cursor.session # 0,
             Reason(polled.spectrum) \in BoundaryReasons,
             gaps' = Append(gaps, [session |-> cursor.session,
                                   reason |-> Reason(polled.spectrum)]),
             NEW done \in SessionRow,
             done.ended # 0, done.reason = Reason(polled.spectrum),
             sessions' = Append([sessions EXCEPT ![cursor.session] = done], NewSession)
      PROVE  /\ \A s \in DOMAIN sessions' :
                  IF sessions'[s].ended = 0 THEN Reported(s)' = {}
                  ELSE \E g \in Reported(s)' :
                         Reported(s)' = {g} /\ gaps'[g].reason = sessions'[s].reason
             /\ \A g \in DOMAIN gaps' : gaps'[g].session \in DOMAIN sessions'
  <2> DEFINE cs == cursor.session
             last == Len(gaps) + 1
             closed == [sessions EXCEPT ![cs] = done]
  <2>1. /\ DOMAIN gaps' = 1..last
        /\ gaps'[last].session = cs
        /\ gaps'[last].reason = done.reason /\ done.reason \in BoundaryReasons
        /\ \A g \in 1..Len(gaps) : gaps'[g] = gaps[g]
    BY <1>0, <1>4
  <2>2. /\ cs \in DOMAIN sessions /\ sessions[cs].ended = 0
    BY <1>0, <1>4
  <2>3. /\ closed \in Seq(SessionRow)
        /\ Len(closed) = Len(sessions)
        /\ closed[cs] = done
        /\ \A s \in DOMAIN sessions : s # cs => closed[s] = sessions[s]
    BY <1>0, <2>2
  <2> HIDE DEF closed
  <2>4. /\ DOMAIN sessions' = 1..Len(sessions) + 1
        /\ sessions'[Len(sessions) + 1] = NewSession
        /\ \A s \in 1..Len(sessions) : sessions'[s] = closed[s]
    <3>1. sessions' = Append(closed, NewSession)
      BY <1>4 DEF closed
    <3> QED BY <1>0, <2>3, <3>1
  <2>5. /\ \A s : Reported(s)' = IF s = cs THEN Reported(s) \cup {last} ELSE Reported(s)
        /\ \A s : Reported(s) \subseteq 1..Len(gaps)
    BY <1>0, <2>1 DEF Reported
  <2>6. Reported(cs) = {} /\ Reported(Len(sessions) + 1) = {}
    <3>1. Reported(cs) = {}
      BY <1>e, <2>2
    <3>2. Reported(Len(sessions) + 1) = {}
      BY <1>0 DEF Reported
    <3> QED BY <3>1, <3>2
  <2>7. ASSUME NEW s \in DOMAIN sessions'
        PROVE  IF sessions'[s].ended = 0 THEN Reported(s)' = {}
               ELSE \E g \in Reported(s)' :
                      Reported(s)' = {g} /\ gaps'[g].reason = sessions'[s].reason
    <3>1. CASE s = Len(sessions) + 1
      <4>1. s # cs
        <5>1. Len(sessions) \in Nat
          BY <1>0, Zenon
        <5>2. cs = Len(sessions)
          BY <1>0, Zenon
        <5> HIDE DEF cs
        <5> QED BY <3>1, <5>1, <5>2
      <4>2. sessions'[s] = NewSession
        BY <2>4, <3>1
      <4>3. Reported(s) = {}
        BY <2>6, <3>1
      <4>4. Reported(s)' = {}
        BY <2>5, <4>1, <4>3
      <4> QED BY <1>n, <4>2, <4>4
    <3>2. CASE s = cs
      <4>1. sessions'[s] = done
        BY <1>0, <2>2, <2>3, <2>4, <3>2
      <4>2. Reported(s)' = {last}
        BY <2>5, <2>6, <3>2
      <4> QED BY <1>4, <2>1, <4>1, <4>2
    <3>3. CASE s # cs /\ s \in DOMAIN sessions
      <4>1. sessions'[s] = sessions[s] /\ Reported(s)' = Reported(s) /\ sessions[s].ended # 0
        BY <1>0, <2>3, <2>4, <2>5, <3>3
      <4>2. PICK g \in Reported(s) : Reported(s) = {g} /\ gaps[g].reason = sessions[s].reason
        BY <1>e, <3>3, <4>1
      <4>3. gaps'[g] = gaps[g]
        BY <2>1, <2>5, <4>2
      <4> QED BY <4>1, <4>2, <4>3
    <3> QED BY <1>0, <2>4, <3>1, <3>2, <3>3
  <2>8. \A g \in DOMAIN gaps' : gaps'[g].session \in DOMAIN sessions'
    BY <1>0, <2>1, <2>2, <2>4
  <2> QED BY <2>7, <2>8
<1> QED BY <1>1, <1>2, <1>3, <1>4, GapsStep
\* While the clock has never been set back, what is stored is older than what the
\* collector holds, and that is older than now.
TimeInv ==
  stepsBack = 0 =>
    /\ FramesDisjoint
    /\ cursor.observed <= now
    /\ polled.kind # "idle" => cursor.observed <= polled.at /\ polled.at <= now
    /\ \A f \in DOMAIN frames : frames[f].ended <= cursor.observed
    /\ accumulator.session # 0 =>
         /\ accumulator.ended <= cursor.observed
         /\ \A f \in DOMAIN frames : frames[f].ended <= accumulator.started

\* A frame added behind the others.
LEMMA FrameAdded ==
  ASSUME frames \in Seq(FrameRow), NEW row \in FrameRow, FramesDisjoint, stepsBack = 0,
         \A f \in DOMAIN frames : frames[f].ended <= row.started,
         frames' = Append(frames, row)
  PROVE  /\ FramesDisjoint'
         /\ \A f \in DOMAIN frames' : \/ f \in DOMAIN frames /\ frames'[f] = frames[f]
                                      \/ frames'[f] = row
<1>1. /\ Len(frames) \in Nat /\ DOMAIN frames = 1..Len(frames)
      /\ DOMAIN frames' = 1..Len(frames) + 1
      /\ frames'[Len(frames) + 1] = row
      /\ \A f \in 1..Len(frames) : frames'[f] = frames[f]
  OBVIOUS
<1>2. \A f, g \in DOMAIN frames : f < g => frames[f].ended <= frames[g].started
  BY DEF FramesDisjoint
<1>3. ASSUME NEW f \in DOMAIN frames', NEW g \in DOMAIN frames', f < g
      PROVE  frames'[f].ended <= frames'[g].started
  <2>1. f \in 1..Len(frames)
    BY <1>1, <1>3
  <2>2. CASE g \in 1..Len(frames)
    BY <1>1, <1>2, <1>3, <2>1, <2>2
  <2>3. CASE g = Len(frames) + 1
    BY <1>1, <2>1, <2>3
  <2> QED BY <1>1, <2>2, <2>3
<1> QED BY <1>1, <1>3 DEF FramesDisjoint

\* No step lets a frame end after the cursor, or after the accumulator began.
LEMMA TimeStep ==
  ASSUME IndInv, TimeInv, [Next]_vars
  PROVE  TimeInv'
<1> SUFFICES ASSUME stepsBack' = 0 PROVE TimeInv'
  BY DEF TimeInv
<1>0. /\ now \in Nat /\ stepsBack \in Nat /\ polled.at \in Nat
      /\ frames \in Seq(FrameRow) /\ accumulator \in AccumulatorRow /\ cursor \in CursorRow
      /\ cursor.observed \in Nat /\ accumulator.started \in Nat /\ accumulator.ended \in Nat
      /\ \A f \in DOMAIN frames : frames[f].started \in Nat /\ frames[f].ended \in Nat
  <2>1. /\ frames \in Seq(FrameRow) /\ accumulator \in AccumulatorRow /\ cursor \in CursorRow
        /\ now \in 1..MaxTime /\ stepsBack \in 0..MaxStepsBack /\ polled.at \in Time
    BY DEF IndInv, TypeOK
  <2>2. \A f \in DOMAIN frames : frames[f] \in FrameRow
    BY <2>1
  <2> QED BY <2>1, <2>2, BoundsAssumption DEF FrameRow, AccumulatorRow, CursorRow, Time
<1>1. CASE StepBack
  BY <1>0, <1>1 DEF StepBack
<1>s. CASE stepsBack' = stepsBack /\ now' = now
  <2>0. /\ FramesDisjoint
        /\ cursor.observed <= now
        /\ polled.kind # "idle" => cursor.observed <= polled.at /\ polled.at <= now
        /\ \A f \in DOMAIN frames : frames[f].ended <= cursor.observed
        /\ accumulator.session # 0 =>
             /\ accumulator.ended <= cursor.observed
             /\ \A f \in DOMAIN frames : frames[f].ended <= accumulator.started
    BY <1>s DEF TimeInv
  <2>i. Idle.kind = "idle"
    BY DEF Idle
  <2>p. ASSUME polled' = Idle, polled.kind # "idle",
               cursor'.observed = polled.at,
               accumulator' = NoAccumulator,
               frames' = frames
        PROVE  TimeInv'
    <3>1. \A f \in DOMAIN frames : frames[f].ended <= polled.at
      BY <1>0, <2>0, <2>p
    <3> QED BY <1>s, <2>0, <2>i, <2>p, <3>1 DEF TimeInv, FramesDisjoint, NoAccumulator
  <2>1. CASE CommitFirst
    BY <2>p, <2>1 DEF CommitFirst, NewCursor
  <2>2. CASE CommitBoundary
    <3> DEFINE flags == accumulator.flags \cup {"partial_frame_on_session_boundary"}
               row == Frame(accumulator, cursor.epoch, flags)
    <3>1. /\ polled' = Idle /\ polled.kind # "idle" /\ cursor'.observed = polled.at
          /\ accumulator' = NoAccumulator
          /\ frames' = IF accumulator.session = 0 THEN frames ELSE Append(frames, row)
      BY <2>2 DEF CommitBoundary, Boundary, NewCursor
    <3>2. CASE accumulator.session # 0
      <4>1. flags \in SUBSET Flags
        BY <1>0 DEF AccumulatorRow, Flags
      <4> HIDE DEF flags
      <4>2. row \in FrameRow /\ row.started = accumulator.started /\ row.ended = accumulator.ended
        BY <1>0, <4>1, FrameType DEF CursorRow, Id, Frame
      <4> HIDE DEF row
      <4>3. /\ FramesDisjoint'
            /\ \A f \in DOMAIN frames' : \/ f \in DOMAIN frames /\ frames'[f] = frames[f]
                                         \/ frames'[f] = row
        BY <1>0, <1>s, <2>0, <3>1, <3>2, <4>2, FrameAdded
      <4>4. \A f \in DOMAIN frames' : frames'[f].ended <= polled.at
        BY <1>0, <2>0, <3>1, <3>2, <4>2, <4>3
      <4> QED BY <1>s, <2>0, <2>i, <3>1, <4>3, <4>4 DEF TimeInv, NoAccumulator
    <3> QED BY <2>p, <3>1, <3>2
  <2>3. CASE CommitQuiet
    <3>1. /\ polled' = Idle /\ polled.kind # "idle" /\ cursor'.observed = polled.at
          /\ UNCHANGED <<accumulator, frames>>
      BY <2>3 DEF CommitQuiet, Continues, NewCursor
    <3>2. \A f \in DOMAIN frames : frames[f].ended <= polled.at
      BY <1>0, <2>0, <3>1
    <3>3. accumulator.session # 0 => accumulator.ended <= polled.at
      BY <1>0, <2>0, <3>1
    <3> QED BY <1>s, <2>0, <2>i, <3>1, <3>2, <3>3 DEF TimeInv, FramesDisjoint
  <2> DEFINE a == Grown(polled.spectrum, polled.at)
  <2>a. /\ a.ended = polled.at
        /\ a.started = IF accumulator.session = 0 THEN cursor.observed ELSE accumulator.started
    BY DEF Grown
  <2>b. \A f \in DOMAIN frames : frames[f].ended <= a.started
    BY <2>0, <2>a
  <2>4. CASE CommitDelta
    <3>1. /\ polled' = Idle /\ polled.kind # "idle" /\ cursor'.observed = polled.at
          /\ accumulator' = a /\ frames' = frames
      BY <2>4 DEF CommitDelta, Continues, NewCursor
    <3>2. \A f \in DOMAIN frames : frames[f].ended <= polled.at
      BY <1>0, <2>0, <3>1
    <3> HIDE DEF a
    <3> QED BY <1>0, <1>s, <2>0, <2>a, <2>b, <2>i, <3>1, <3>2 DEF TimeInv, FramesDisjoint
  <2>5. CASE CommitFrame
    <3> DEFINE row == Frame(a, EpochOf(polled.spectrum), a.flags)
    <3>1. /\ polled' = Idle /\ polled.kind # "idle" /\ cursor'.observed = polled.at
          /\ accumulator' = NoAccumulator
          /\ frames' = Append(frames, row) /\ Continues
      BY <2>5 DEF CommitFrame, FrameAt, Continues, NewCursor
    <3>2. a \in AccumulatorRow /\ EpochOf(polled.spectrum) \in Nat
      BY <1>0, <3>1, GrownFacts, ContinuesFacts DEF CursorRow, Id
    <3> HIDE DEF a
    <3>3. row \in FrameRow /\ row.started = a.started /\ row.ended = polled.at
      BY <2>a, <3>2, FrameType DEF AccumulatorRow, Frame
    <3> HIDE DEF row
    <3>4. /\ FramesDisjoint'
          /\ \A f \in DOMAIN frames' : \/ f \in DOMAIN frames /\ frames'[f] = frames[f]
                                       \/ frames'[f] = row
      BY <1>0, <1>s, <2>0, <2>b, <3>1, <3>3, FrameAdded
    <3>5. \A f \in DOMAIN frames' : frames'[f].ended <= polled.at
      BY <1>0, <2>0, <3>1, <3>3, <3>4
    <3> QED BY <1>s, <2>0, <2>i, <3>1, <3>4, <3>5 DEF TimeInv, NoAccumulator
  <2>6. CASE UNCHANGED liveVars /\ (polled'.kind = "idle" \/ polled' = polled
                                    \/ polled'.at = now)
    BY <1>0, <1>s, <2>0, <2>6 DEF liveVars, TimeInv, FramesDisjoint
  <2> QED
    BY <2>1, <2>2, <2>3, <2>4, <2>5, <2>6, <2>i, <1>1
    DEF Next, ReadSpectrum, ReadAccumulated, Read, Abandon, StoreSnapshotKnown, StoreSnapshotNew,
        Reconnect, Tick, vars, clockVars
<1>2. CASE Tick
  <2>1. /\ stepsBack = 0 /\ now' = now + 1
        /\ UNCHANGED <<polled, sessions, cursor, accumulator, frames, gaps, book>>
    BY <1>2 DEF Tick, liveVars
  <2>2. cursor.observed <= now' /\ (polled.kind # "idle" => polled.at <= now')
    BY <1>0, <2>1 DEF TimeInv
  <2> QED BY <2>1, <2>2 DEF TimeInv, FramesDisjoint
<1> QED
  BY <1>1, <1>s, <1>2
  DEF Next, ReadSpectrum, ReadAccumulated, Read, Abandon, CommitFirst, CommitBoundary, Boundary,
      CommitQuiet, CommitDelta, CommitFrame, FrameAt, Continues, StoreSnapshotKnown,
      StoreSnapshotNew, Reconnect, vars, clockVars

\* While the clock has never been set back, the live epoch and the live session
\* started before the last commit, and the accumulator before it ended.
OrderInv ==
  stepsBack = 0 =>
    /\ cursor.session # 0 =>
         /\ epochs[cursor.epoch].started <= cursor.observed
         /\ sessions[cursor.session].started <= cursor.observed
    /\ accumulator.session # 0 => accumulator.started <= accumulator.ended

\* What the invariants say of the times a step compares, before it is taken.
LEMMA OrderedTimes ==
  ASSUME IndInv, TimeInv, OrderInv, stepsBack = 0, polled.kind # "idle"
  PROVE  /\ cursor.observed \in Nat /\ polled.at \in Nat /\ accumulator.started \in Nat
         /\ cursor.observed <= polled.at
         /\ \A e \in OpenEpochs : epochs[e].started <= polled.at
         /\ cursor.session # 0 =>
              /\ epochs[cursor.epoch].started <= polled.at
              /\ sessions[cursor.session].started <= polled.at
         /\ accumulator.session # 0 =>
              accumulator.started <= cursor.observed /\ accumulator.started <= polled.at
<1>1. cursor.observed \in Nat /\ polled.at \in Nat
      /\ accumulator.started \in Nat /\ accumulator.ended \in Nat
  BY BoundsAssumption DEF IndInv, TypeOK, CursorRow, AccumulatorRow, Time
<1>2. cursor.observed <= polled.at
  BY DEF TimeInv
<1>3. ASSUME cursor.session # 0
      PROVE  /\ epochs[cursor.epoch].started <= polled.at
             /\ sessions[cursor.session].started <= polled.at
  <2>1. epochs[cursor.epoch] \in EpochRow /\ sessions[cursor.session] \in SessionRow
    BY <1>3, LiveSession DEF IndInv, TypeOK
  <2>2. epochs[cursor.epoch].started \in Nat /\ sessions[cursor.session].started \in Nat
    BY <2>1, BoundsAssumption DEF EpochRow, SessionRow, Time
  <2> QED BY <1>1, <1>2, <1>3, <2>2 DEF OrderInv
<1>4. ASSUME NEW e \in OpenEpochs
      PROVE  epochs[e].started <= polled.at
  <2>1. e = cursor.epoch /\ e \in DOMAIN epochs /\ DOMAIN epochs = 1..Len(epochs)
    BY EpochsAreOK DEF OpenEpochs, EpochsOK
  <2>2. cursor.session # 0
    BY <2>1 DEF IndInv, Linked
  <2> QED BY <1>3, <2>1, <2>2
<1>5. accumulator.session # 0 =>
        accumulator.started <= cursor.observed /\ accumulator.started <= polled.at
  BY <1>1, <1>2 DEF OrderInv, TimeInv
<1> QED BY <1>1, <1>2, <1>3, <1>4, <1>5

\* The epoch a commit leaves open did not start after the reading was taken.
LEMMA OpenedBefore ==
  ASSUME EpochsOK, NEW r \in Spectrum, NEW at \in 1..MaxTime,
         \A e \in OpenEpochs : epochs[e].started <= at
  PROVE  EpochsWith(r, at)[EpochOf(r)].started <= at
<1>1. CASE OpenEpochs \cap Matching(r) # {}
  BY <1>1 DEF EpochOf, EpochsWith
<1>2. CASE OpenEpochs \cap Matching(r) = {}
  <2> DEFINE rows == [e \in DOMAIN epochs |->
                        IF e \in OpenEpochs THEN [epochs[e] EXCEPT !.ended = at] ELSE epochs[e]]
             row == [fingerprint |-> Fingerprint(r), started |-> at, ended |-> 0]
  <2>1. EpochsWith(r, at) = Append(rows, row) /\ EpochOf(r) = Len(epochs) + 1
    BY <1>2 DEF EpochsWith, EpochOf
  <2>2. rows \in Seq(EpochRow) /\ Len(rows) = Len(epochs)
    BY ClosedEpochs
  <2>3. row.started = at
    OBVIOUS
  <2> HIDE DEF rows, row
  <2>4. Append(rows, row)[Len(epochs) + 1] = row
    BY <2>2
  <2> QED BY <2>1, <2>3, <2>4
<1> QED BY <1>1, <1>2

\* Every step keeps the order of the times.
LEMMA OrderStep ==
  ASSUME IndInv, TimeInv, OrderInv, [Next]_vars
  PROVE  OrderInv'
<1> SUFFICES ASSUME stepsBack' = 0
             PROVE  OrderInv'
  BY DEF OrderInv
<1> DEFINE r == polled.spectrum
           at == polled.at
<1>1. CASE StepBack
  <2>1. stepsBack \in Nat
    BY BoundsAssumption DEF IndInv, TypeOK
  <2> QED BY <1>1, <2>1 DEF StepBack
<1>2. CASE CommitFirst \/ CommitBoundary
  <2>1. PICK closed, settled : Starts(closed, settled)
    BY <1>2, FirstStep, BoundaryStep
  <2>2. /\ polled.kind = "spectrum" /\ r \in Spectrum /\ at \in 1..MaxTime /\ stepsBack = 0
    BY <2>1 DEF Starts, IndInv, TypeOK, Linked, clockVars
  <2>3. epochs'[EpochOf(r)].started <= at
    <3>1. \A e \in OpenEpochs : epochs[e].started <= at
      BY <2>2, OrderedTimes
    <3> QED BY <2>1, <2>2, <3>1, EpochsAreOK, OpenedBefore DEF Starts
  <2>4. sessions'[Len(sessions) + 1].started <= at
    <3>1. sessions' = Append(closed, NewSession) /\ Len(closed) = Len(sessions)
          /\ closed \in Seq(SessionRow)
      BY <2>1 DEF Starts
    <3>2. sessions'[Len(sessions) + 1] = NewSession
      BY <3>1
    <3> QED BY <2>2, <3>2 DEF NewSession
  <2>5. /\ cursor'.session = Len(sessions) + 1
        /\ cursor'.epoch = EpochOf(r)
        /\ cursor'.observed = at
        /\ accumulator'.session = 0
    BY <2>1 DEF Starts, NewCursor, NoAccumulator
  <2> QED BY <2>3, <2>4, <2>5 DEF OrderInv
<1>3. CASE CommitQuiet \/ CommitDelta \/ CommitFrame
  <2>1. Continues
    BY <1>3 DEF CommitQuiet, CommitDelta, CommitFrame, FrameAt
  <2>2. stepsBack = 0 /\ polled.kind # "idle" /\ cursor.session # 0
    BY <2>1 DEF Continues, clockVars
  <2>3. /\ epochs' = epochs
        /\ sessions' = sessions
        /\ cursor'.epoch = cursor.epoch
        /\ cursor'.session = cursor.session
        /\ cursor'.observed = at
    BY <2>1, ContinuesFacts DEF Continues, NewCursor
  <2>4. /\ epochs'[cursor'.epoch].started <= cursor'.observed
        /\ sessions'[cursor'.session].started <= cursor'.observed
    BY <2>2, <2>3, OrderedTimes
  <2>5. accumulator'.session # 0 => accumulator'.started <= accumulator'.ended
    <3>1. CASE accumulator' = accumulator
      BY <2>2, <3>1 DEF OrderInv
    <3>2. CASE accumulator' = NoAccumulator
      BY <3>2 DEF NoAccumulator
    <3>3. CASE accumulator' = Grown(r, at)
      BY <2>2, <3>3, OrderedTimes DEF Grown
    <3> QED BY <1>3, <3>1, <3>2, <3>3 DEF CommitQuiet, CommitDelta, CommitFrame, FrameAt
  <2> QED BY <2>4, <2>5 DEF OrderInv
<1>4. CASE StoreSnapshotNew
  <2>1. /\ UNCHANGED <<stepsBack, sessions, cursor, accumulator>>
        /\ epochs' = Append(epochs, [fingerprint |-> Fingerprint(r),
                                     started |-> at, ended |-> at])
    BY <1>4 DEF StoreSnapshotNew, clockVars, liveVars
  <2>2. cursor.session # 0 => epochs'[cursor.epoch] = epochs[cursor.epoch]
    <3>1. cursor.session # 0 => cursor.epoch \in 1..Len(epochs)
      BY LiveSession, EpochsAreOK
    <3> QED BY <2>1, <3>1, EpochsAreOK DEF EpochsOK
  <2> QED BY <2>1, <2>2 DEF OrderInv
<1>5. CASE UNCHANGED <<stepsBack, epochs, sessions, cursor, accumulator>>
  BY <1>5 DEF OrderInv
<1> QED
  BY <1>1, <1>2, <1>3, <1>4, <1>5
  DEF Next, ReadSpectrum, ReadAccumulated, Read, Abandon, StoreSnapshotKnown,
      Reconnect, Tick, vars, clockVars, liveVars

\* What the tables say of each other besides.
RowsInv == ShortFramesArePartial /\ GapsInv /\ TimeInv /\ OrderInv

\* What the stored rows say of each other holds in every state.
LEMMA RowsHold == Spec => []RowsInv
<1>1. Init => RowsInv
  <2> SUFFICES ASSUME Init PROVE RowsInv
    OBVIOUS
  <2>1. /\ DOMAIN frames = {} /\ DOMAIN gaps = {} /\ DOMAIN sessions = {}
        /\ cursor.observed = 0 /\ now = 1 /\ polled.kind = "idle" /\ accumulator.session = 0
    BY DEF Init, NoCursor, NoAccumulator, Idle
  <2>2. TimeInv
    BY <2>1 DEF TimeInv, FramesDisjoint
  <2>3. OrderInv
    BY <2>1 DEF OrderInv, Init, NoCursor
  <2> QED
    BY <2>1, <2>2, <2>3 DEF RowsInv, ShortFramesArePartial, GapsInv, ClosedSessionsExplained
<1>2. IndInv /\ RowsInv /\ [Next]_vars => RowsInv'
  BY ShortFramesStep, GapsInvStep, TimeStep, OrderStep DEF RowsInv
<1> QED BY <1>1, <1>2, Invariance, PTL DEF Spec

\* Intervals are never flushed early: a frame below the target is the last of a
\* session that was closed, and is marked so.
THEOREM NeverFlushedEarly == Spec => []ShortFramesArePartial
<1>1. RowsInv => ShortFramesArePartial
  BY DEF RowsInv
<1> QED BY <1>1, RowsHold, PTL

\* Every session that ended has exactly one gap, of its reason.
THEOREM BoundariesExplained == Spec => []ClosedSessionsExplained
<1>1. RowsInv => ClosedSessionsExplained
  BY DEF RowsInv, GapsInv
<1> QED BY <1>1, RowsHold, PTL

\* Frames do not overlap while the wall clock is not set back.
THEOREM NoOverlap == Spec => []FramesDisjoint
<1>1. RowsInv => FramesDisjoint
  BY DEF RowsInv, TimeInv, FramesDisjoint
<1> QED BY <1>1, RowsHold, PTL

\* No reading brings the state machine to a state it cannot leave: nothing the
\* code raises for happens, and while the clock is never set back no CHECK of
\* the schema rejects what a commit would write.
THEOREM AlwaysStorable == Spec => []ReadingsStorable
<1>1. ASSUME IndInv, RowsInv
      PROVE  ReadingsStorable
  <2> DEFINE r == polled.spectrum
             at == polled.at
  <2> SUFFICES ASSUME polled.kind = "spectrum", Encodable(r), cursor.session # 0
               PROVE  /\ ~Corrupt(r)
                      /\ stepsBack = 0 =>
                           /\ EpochCloses(r, at)
                           /\ sessions[cursor.session].started <= at
                           /\ Flushable
                           /\ Grown(r, at).started <= Grown(r, at).ended
    BY DEF ReadingsStorable
  <2>1. ~Corrupt(r)
    <3>1. r \in Spectrum
      BY <1>1 DEF IndInv, TypeOK
    <3> QED BY <1>1, <3>1, NoCorruption
  <2>2. ASSUME stepsBack = 0
        PROVE  /\ EpochCloses(r, at)
               /\ sessions[cursor.session].started <= at
               /\ Flushable
               /\ Grown(r, at).started <= Grown(r, at).ended
    <3>1. /\ cursor.observed \in Nat /\ at \in Nat
          /\ cursor.observed <= at
          /\ \A e \in OpenEpochs : epochs[e].started <= at
          /\ sessions[cursor.session].started <= at
          /\ accumulator.session # 0 => accumulator.started <= at
      BY <1>1, <2>2, OrderedTimes DEF RowsInv
    <3>2. EpochCloses(r, at)
      <4>1. OpenEpochs = {cursor.epoch} /\ epochs[cursor.epoch].started \in Nat
        <5>1. OpenEpochs = {cursor.epoch} /\ epochs[cursor.epoch] \in EpochRow
          BY <1>1, LiveSession DEF IndInv, TypeOK
        <5> QED BY <5>1, BoundsAssumption DEF EpochRow, Time
      <4>2. epochs[cursor.epoch].started <= at
        BY <3>1, <4>1
      <4>3. at >= epochs[cursor.epoch].started
        BY <3>1, <4>1, <4>2
      <4> QED BY <4>1, <4>3 DEF EpochCloses
    <3>3. Flushable
      <4>1. accumulator.started \in Nat /\ accumulator.ended \in Nat
        BY <1>1, BoundsAssumption DEF IndInv, TypeOK, AccumulatorRow, Time
      <4>2. accumulator.session # 0 => accumulator.started <= accumulator.ended
        BY <1>1, <2>2 DEF RowsInv, OrderInv
      <4> QED BY <4>1, <4>2 DEF Flushable
    <3>4. Grown(r, at).started <= Grown(r, at).ended
      BY <3>1 DEF Grown
    <3> QED BY <3>1, <3>2, <3>3, <3>4
  <2> QED BY <2>1, <2>2
<1> QED BY <1>1, Invariance, RowsHold, PTL

-----------------------------------------------------------------------------
(* The promise: ExactFrames. *)

RunRow ==
  [mark : Nat \X Calibrations, first : [Meters -> Int], last : [Meters -> Int],
   framed : [Meters -> Int]]

\* The meters of a duration and counts.
LEMMA TotalsType ==
  ASSUME NEW d \in Int, NEW counts \in Counts
  PROVE  /\ Totals(d, counts) \in [Meters -> Int]
         /\ Totals(d, counts)[0] = d
         /\ \A c \in Channel : Totals(d, counts)[c] = counts[c]
<1>1. 0 \in Meters /\ Meters = {0} \cup Channel /\ 0 \notin Channel
  BY SettingsAssumption DEF Meters, Channel
<1>2. \A c \in Channel : counts[c] \in Int
  BY DEF Counts
<1> QED BY <1>1, <1>2 DEF Totals

\* A row of the book is a run.
LEMMA RunType ==
  ASSUME NEW b \in BookRow
  PROVE  RunOf(b) \in RunRow
<1>1. /\ b.first \in Spectrum /\ b.last \in Spectrum
      /\ b.framed \in Counts /\ b.framedDuration \in Int
  BY DEF BookRow
<1>2. /\ b.first.duration \in Int /\ b.first.counts \in Counts
      /\ b.last.duration \in Int /\ b.last.counts \in Counts
  BY <1>1 DEF Spectrum
<1>3. /\ Totals(b.first.duration, b.first.counts) \in [Meters -> Int]
      /\ Totals(b.last.duration, b.last.counts) \in [Meters -> Int]
      /\ Totals(b.framedDuration, b.framed) \in [Meters -> Int]
  BY <1>1, <1>2, TotalsType
<1>4. Fingerprint(b.first) \in Nat \X Calibrations
  BY <1>1, FingerprintType
<1> QED BY <1>3, <1>4 DEF RunOf, RunRow

\* The runs of a book, one for one.
LEMMA RunsType ==
  ASSUME NEW b \in Seq(BookRow)
  PROVE  /\ RunsOf(b) \in Seq(RunRow)
         /\ Len(RunsOf(b)) = Len(b)
         /\ DOMAIN RunsOf(b) = 1..Len(b)
         /\ \A s \in 1..Len(b) : RunsOf(b)[s] = RunOf(b[s])
         /\ RunsOf(b) = <<>> <=> Len(b) = 0
<1>1. Len(b) \in Nat /\ DOMAIN b = 1..Len(b) /\ \A s \in 1..Len(b) : b[s] \in BookRow
  OBVIOUS
<1>2. RunsOf(b) = [s \in 1..Len(b) |-> RunOf(b[s])]
  BY <1>1 DEF RunsOf
<1>3. RunsOf(b) \in [1..Len(b) -> RunRow]
  BY <1>1, <1>2, RunType
<1>4. RunsOf(b) \in Seq(RunRow) /\ Len(RunsOf(b)) = Len(b)
  BY <1>1, <1>3
<1>5. RunsOf(b) = <<>> <=> Len(b) = 0
  BY <1>4, EmptySeq
<1> QED BY <1>1, <1>2, <1>4, <1>5

\* A row added to the book is a run added.
LEMMA RunsAppend ==
  ASSUME NEW b \in Seq(BookRow), NEW row \in BookRow
  PROVE  RunsOf(Append(b, row)) = Append(RunsOf(b), RunOf(row))
<1>1. /\ Append(b, row) \in Seq(BookRow) /\ Len(Append(b, row)) = Len(b) + 1
      /\ Len(b) \in Nat
      /\ Append(b, row)[Len(b) + 1] = row
      /\ \A s \in 1..Len(b) : Append(b, row)[s] = b[s]
  OBVIOUS
<1>2. RunOf(row) \in RunRow
  BY RunType
<1>3. /\ RunsOf(b) \in Seq(RunRow) /\ Len(RunsOf(b)) = Len(b)
      /\ \A s \in 1..Len(b) : RunsOf(b)[s] = RunOf(b[s])
  BY RunsType
<1>4. /\ RunsOf(Append(b, row)) \in Seq(RunRow)
      /\ Len(RunsOf(Append(b, row))) = Len(b) + 1
      /\ \A s \in 1..(Len(b) + 1) : RunsOf(Append(b, row))[s] = RunOf(Append(b, row)[s])
  BY <1>1, RunsType
<1>5. /\ Append(RunsOf(b), RunOf(row)) \in Seq(RunRow)
      /\ Len(Append(RunsOf(b), RunOf(row))) = Len(b) + 1
      /\ Append(RunsOf(b), RunOf(row))[Len(b) + 1] = RunOf(row)
      /\ \A s \in 1..Len(b) : Append(RunsOf(b), RunOf(row))[s] = RunsOf(b)[s]
  BY <1>2, <1>3
<1>6. ASSUME NEW s \in 1..(Len(b) + 1)
      PROVE  RunsOf(Append(b, row))[s] = Append(RunsOf(b), RunOf(row))[s]
  <2>1. s \in 1..Len(b) \/ s = Len(b) + 1
    BY <1>1
  <2> QED BY <1>1, <1>3, <1>4, <1>5, <2>1
<1> QED BY <1>4, <1>5, <1>6, SeqEqual

\* A row of the book changed is a run changed.
LEMMA RunsChanged ==
  ASSUME NEW b \in Seq(BookRow), NEW bb \in Seq(BookRow), NEW n \in 1..Len(b),
         Len(bb) = Len(b), \A s \in 1..Len(b) : s # n => bb[s] = b[s]
  PROVE  RunsOf(bb) = [RunsOf(b) EXCEPT ![n] = RunOf(bb[n])]
<1>1. DOMAIN b = 1..Len(b) /\ DOMAIN bb = 1..Len(b)
  OBVIOUS
<1>2. /\ RunsOf(b) = [s \in 1..Len(b) |-> RunOf(b[s])]
      /\ RunsOf(bb) = [s \in 1..Len(b) |-> RunOf(bb[s])]
  BY <1>1 DEF RunsOf
<1>3. \A s \in 1..Len(b) : RunOf(bb[s]) = IF s = n THEN RunOf(bb[n]) ELSE RunOf(b[s])
  OBVIOUS
<1> QED BY <1>2, <1>3

\* A frame added is a row added.
LEMMA RowsAppend ==
  ASSUME NEW table \in Seq(FrameRow), NEW row \in FrameRow
  PROVE  RowsOf(Append(table, row)) = Append(RowsOf(table), RowOf(row))
<1>1. /\ Append(table, row) \in Seq(FrameRow) /\ Len(Append(table, row)) = Len(table) + 1
      /\ Len(table) \in Nat /\ DOMAIN table = 1..Len(table)
      /\ DOMAIN Append(table, row) = 1..(Len(table) + 1)
      /\ Append(table, row)[Len(table) + 1] = row
      /\ \A f \in 1..Len(table) : Append(table, row)[f] = table[f]
  OBVIOUS
<1> DEFINE Row == [run : Id, seconds : Int, partial : BOOLEAN]
<1>2. \A f \in FrameRow : RowOf(f) \in Row
  BY DEF RowOf, FrameRow
<1>3. /\ RowsOf(table) = [f \in 1..Len(table) |-> RowOf(table[f])]
      /\ RowsOf(Append(table, row)) = [f \in 1..(Len(table) + 1) |-> RowOf(Append(table, row)[f])]
  BY <1>1 DEF RowsOf
<1> HIDE DEF Row
<1>4. RowsOf(table) \in Seq(Row) /\ Len(RowsOf(table)) = Len(table)
  BY <1>1, <1>2, <1>3
<1>5. /\ RowsOf(Append(table, row)) \in Seq(Row)
      /\ Len(RowsOf(Append(table, row))) = Len(table) + 1
  <2>1. \A f \in 1..(Len(table) + 1) : Append(table, row)[f] \in FrameRow
    BY <1>1
  <2>2. RowsOf(Append(table, row)) \in [1..(Len(table) + 1) -> Row]
    BY <1>2, <1>3, <2>1
  <2> QED BY <1>1, <2>2
<1>6. /\ Append(RowsOf(table), RowOf(row)) \in Seq(Row)
      /\ Len(Append(RowsOf(table), RowOf(row))) = Len(table) + 1
      /\ Append(RowsOf(table), RowOf(row))[Len(table) + 1] = RowOf(row)
      /\ \A f \in 1..Len(table) : Append(RowsOf(table), RowOf(row))[f] = RowsOf(table)[f]
  BY <1>2, <1>4
<1>7. ASSUME NEW f \in 1..(Len(table) + 1)
      PROVE  RowsOf(Append(table, row))[f] = Append(RowsOf(table), RowOf(row))[f]
  <2>1. f \in 1..Len(table) \/ f = Len(table) + 1
    BY <1>1
  <2> QED BY <1>1, <1>3, <1>6, <2>1
<1> QED BY <1>5, <1>6, <1>7, SeqEqual

\* What the collector holds it has read, and the accumulator, if there is one,
\* holds something, and never enough for a frame.
HeldInv ==
  /\ polled.kind = "spectrum" => polled.spectrum \in Readings
  /\ accumulator.duration < FrameTarget
  /\ accumulator.session # 0 => accumulator.duration # 0 \/ accumulator.counts # Zero
  /\ "partial_frame_on_session_boundary" \notin accumulator.flags

\* A delta that is not quiet leaves something in the accumulator.
LEMMA GrownHolds ==
  ASSUME IndInv, Continues, ~Quiet(polled.spectrum)
  PROVE  LET a == Grown(polled.spectrum, polled.at)
         IN a.duration # 0 \/ a.counts # Zero
<1> DEFINE r == polled.spectrum
           a == Grown(r, polled.at)
<1> SUFFICES a.duration # 0 \/ a.counts # Zero
  OBVIOUS
<1>1. /\ a.duration = accumulator.duration + (r.duration - cursor.duration)
      /\ \A c \in Channel :
           a.counts[c] = accumulator.counts[c] + (r.counts[c] - cursor.counts[c])
  BY GrownFacts
<1>2. /\ r \in Spectrum /\ r.duration >= cursor.duration
      /\ \A c \in Channel : r.counts[c] >= cursor.counts[c]
  BY ContinuesFacts
<1>3. /\ accumulator.duration \in Nat /\ cursor.duration \in Nat /\ r.duration \in Int
      /\ \A c \in Channel : /\ accumulator.counts[c] \in Nat /\ cursor.counts[c] \in Nat
                            /\ r.counts[c] \in Nat
  BY <1>2 DEF IndInv, TypeOK, AccumulatorRow, CursorRow, Spectrum, Counts
<1> HIDE DEF a
<1>4. CASE r.duration # cursor.duration
  <2>1. \A held, before \in Nat, after \in Int :
          after >= before /\ after # before => held + (after - before) # 0
    OBVIOUS
  <2>2. accumulator.duration + (r.duration - cursor.duration) # 0
    BY <1>2, <1>3, <1>4, <2>1
  <2> QED BY <1>1, <2>2
<1>5. CASE r.duration = cursor.duration
  <2>1. Delta(r) # Zero
    BY <1>5 DEF Quiet
  <2>2. PICK c \in Channel : r.counts[c] - cursor.counts[c] # 0
    BY <2>1 DEF Delta, Zero
  <2>3. a.counts[c] # 0
    BY <1>1, <1>2, <1>3, <2>2
  <2>4. Zero[c] = 0
    BY DEF Zero
  <2> QED BY <2>3, <2>4
<1> QED BY <1>4, <1>5

\* Every step keeps that.
LEMMA HeldStep ==
  ASSUME IndInv, HeldInv, [Next]_vars
  PROVE  HeldInv'
<1>1. /\ NoAccumulator.duration = 0 /\ NoAccumulator.session = 0 /\ NoAccumulator.flags = {}
      /\ 0 < FrameTarget
  BY SettingsAssumption DEF NoAccumulator
<1>2. Idle.kind # "spectrum"
  BY DEF Idle
<1>3. CASE CommitFirst \/ CommitBoundary \/ CommitFrame
  <2>1. accumulator' = NoAccumulator /\ polled' = Idle
    BY <1>3 DEF CommitFirst, CommitBoundary, Boundary, CommitFrame, FrameAt, Continues
  <2> QED BY <1>1, <1>2, <2>1 DEF HeldInv
<1>4. CASE CommitDelta
  <2> DEFINE a == Grown(polled.spectrum, polled.at)
  <2>1. /\ accumulator' = a /\ polled' = Idle /\ a.duration < FrameTarget
        /\ Continues /\ ~Quiet(polled.spectrum)
    BY <1>4 DEF CommitDelta, Continues
  <2>2. a.duration # 0 \/ a.counts # Zero
    BY <2>1, GrownHolds
  <2>3. "partial_frame_on_session_boundary" \notin a.flags
    BY DEF HeldInv, Grown, Warnings
  <2> HIDE DEF a
  <2> QED BY <1>2, <2>1, <2>2, <2>3 DEF HeldInv
<1>5. CASE accumulator' = accumulator /\ (polled'.kind # "spectrum" \/ polled' = polled
                                          \/ polled'.spectrum \in Readings)
  BY <1>5 DEF HeldInv, Zero
<1>6. CASE CommitQuiet
  BY <1>2, <1>5, <1>6 DEF CommitQuiet, Continues
<1>7. CASE ReadSpectrum \/ ReadAccumulated \/ Abandon \/ Reconnect \/ Tick \/ StepBack
           \/ UNCHANGED vars
  BY <1>2, <1>5, <1>7
  DEF ReadSpectrum, ReadAccumulated, Read, Abandon, Reconnect, Tick, StepBack, liveVars, vars
<1>8. CASE StoreSnapshotKnown \/ StoreSnapshotNew
  BY <1>2, <1>5, <1>8 DEF StoreSnapshotKnown, StoreSnapshotNew, liveVars
<1> QED BY <1>3, <1>4, <1>6, <1>7, <1>8 DEF Next

\* It holds in every state.
LEMMA HeldHolds == Spec => []HeldInv
<1>1. Init => HeldInv
  BY SettingsAssumption DEF Init, HeldInv, NoAccumulator, Idle
<1>2. IndInv /\ HeldInv /\ [Next]_vars => HeldInv'
  BY HeldStep
<1> QED BY <1>1, <1>2, Invariance, PTL DEF Spec

\* What ExactFrames sees of a reading.
Report(r) == [mark |-> Fingerprint(r), meters |-> Totals(r.duration, r.counts)]

\* The live session as a run: the last row of the book, which holds back what is
\* in the accumulator.
LEMMA LiveRun ==
  ASSUME IndInv, cursor.session # 0
  PROVE  LET b == book[Len(book)]
         IN /\ Len(book) = cursor.session /\ Len(book) \in Nat /\ Len(book) \in DOMAIN book
            /\ b \in BookRow
            /\ RunsOf(book) # <<>>
            /\ Len(RunsOf(book)) = Len(book)
            /\ RunsOf(book)[Len(book)] = RunOf(b)
            /\ Fingerprint(b.first) = epochs[cursor.epoch].fingerprint
            /\ b.last.duration = cursor.duration /\ b.last.counts = cursor.counts
            /\ b.first.duration + b.framedDuration + accumulator.duration = cursor.duration
            /\ \A c \in Channel :
                 b.first.counts[c] + b.framed[c] + accumulator.counts[c] = cursor.counts[c]
<1> DEFINE n == Len(book)
<1>1. n = cursor.session /\ book \in Seq(BookRow)
  BY DEF IndInv, TypeOK, Linked
<1>2. n \in Nat /\ DOMAIN book = 1..n /\ n \in 1..n /\ book[n] \in BookRow
  BY <1>1
<1>3. RunsOf(book) # <<>> /\ Len(RunsOf(book)) = n /\ RunsOf(book)[n] = RunOf(book[n])
  BY <1>1, <1>2, RunsType
<1>4. Fingerprint(book[n].first) = epochs[cursor.epoch].fingerprint
  BY <1>1, LiveSession DEF IndInv, Calibrated
<1>5. book[n].last.duration = cursor.duration /\ book[n].last.counts = cursor.counts
  BY <1>1 DEF IndInv, Linked
<1>6. /\ book[n].first.duration + book[n].framedDuration + accumulator.duration
           = cursor.duration
      /\ \A c \in Channel :
           book[n].first.counts[c] + book[n].framed[c] + accumulator.counts[c]
             = cursor.counts[c]
  BY <1>1, <1>2, HeldLive DEF IndInv, Conserved, Counted, Lasted
<1> QED BY <1>1, <1>2, <1>3, <1>4, <1>5, <1>6

\* A reading that only extends the run.
LEMMA RunExtended ==
  ASSUME NEW b \in BookRow, NEW bb \in BookRow, bb.first = b.first,
         bb.framed = b.framed, bb.framedDuration = b.framedDuration
  PROVE  RunOf(bb) = [RunOf(b) EXCEPT !.last = Totals(bb.last.duration, bb.last.counts)]
BY DEF RunOf

\* A session whose frames hold all it counted is a settled run.
LEMMA RunSettled ==
  ASSUME NEW b \in BookRow, NEW run, NEW before,
         run = [mark |-> Fingerprint(b.first),
                first |-> Totals(b.first.duration, b.first.counts),
                last |-> Totals(b.last.duration, b.last.counts), framed |-> before],
         b.first.duration + b.framedDuration = b.last.duration,
         \A c \in Channel : b.first.counts[c] + b.framed[c] = b.last.counts[c]
  PROVE  RunOf(b) = Exact!Settled(run)
<1> DEFINE first == Totals(b.first.duration, b.first.counts)
           last == Totals(b.last.duration, b.last.counts)
           framed == Totals(b.framedDuration, b.framed)
<1>1. /\ b.first \in Spectrum /\ b.last \in Spectrum
      /\ b.framed \in Counts /\ b.framedDuration \in Int
  BY DEF BookRow
<1>2. /\ b.first.duration \in Int /\ b.first.counts \in Counts
      /\ b.last.duration \in Int /\ b.last.counts \in Counts
  BY <1>1 DEF Spectrum
<1>3. /\ first \in [Meters -> Int] /\ last \in [Meters -> Int] /\ framed \in [Meters -> Int]
      /\ first[0] = b.first.duration /\ last[0] = b.last.duration
      /\ framed[0] = b.framedDuration
      /\ \A c \in Channel : /\ first[c] = b.first.counts[c]
                            /\ last[c] = b.last.counts[c]
                            /\ framed[c] = b.framed[c]
  BY <1>1, <1>2, TotalsType
<1>4. Meters = {0} \cup Channel
  BY SettingsAssumption DEF Meters, Channel
<1>5. RunOf(b) = [mark |-> Fingerprint(b.first), first |-> first, last |-> last,
                  framed |-> framed]
  BY DEF RunOf
<1>6. run = [mark |-> Fingerprint(b.first), first |-> first, last |-> last, framed |-> before]
  OBVIOUS
<1> HIDE DEF first, last, framed
<1>7. ASSUME NEW m \in Meters
      PROVE  framed[m] = last[m] - first[m]
  <2>1. first[m] + framed[m] = last[m]
    BY <1>3, <1>4
  <2>2. first[m] \in Int /\ framed[m] \in Int /\ last[m] \in Int
    BY <1>3
  <2> QED BY <2>1, <2>2
<1>8. framed = [m \in Meters |-> last[m] - first[m]]
  BY <1>3, <1>7
<1>9. Exact!Counted(run) = framed
  BY <1>6, <1>8 DEF Exact!Counted
<1>10. Exact!Settled(run)
         = [mark |-> Fingerprint(b.first), first |-> first, last |-> last, framed |-> framed]
  BY <1>6, <1>9 DEF Exact!Settled
<1> QED BY <1>5, <1>10

\* What a run holds back, meter by meter.
LEMMA RunHolds ==
  ASSUME NEW b \in BookRow, NEW d \in Int, NEW counts \in Counts, NEW run,
         NEW held \in Int, NEW kept \in Counts,
         run = [RunOf(b) EXCEPT !.last = Totals(d, counts)],
         b.first.duration + b.framedDuration + held = d,
         \A c \in Channel : b.first.counts[c] + b.framed[c] + kept[c] = counts[c]
  PROVE  Exact!Held(run) = Totals(held, kept)
<1> DEFINE first == Totals(b.first.duration, b.first.counts)
           last == Totals(d, counts)
           framed == Totals(b.framedDuration, b.framed)
           rest == Totals(held, kept)
<1>1. /\ b.first \in Spectrum /\ b.framed \in Counts /\ b.framedDuration \in Int
  BY DEF BookRow
<1>2. b.first.duration \in Int /\ b.first.counts \in Counts
  BY <1>1 DEF Spectrum
<1>3. /\ first \in [Meters -> Int] /\ last \in [Meters -> Int]
      /\ framed \in [Meters -> Int] /\ rest \in [Meters -> Int]
      /\ first[0] = b.first.duration /\ last[0] = d
      /\ framed[0] = b.framedDuration /\ rest[0] = held
      /\ \A c \in Channel : /\ first[c] = b.first.counts[c] /\ last[c] = counts[c]
                            /\ framed[c] = b.framed[c] /\ rest[c] = kept[c]
  <2>1. first \in [Meters -> Int] /\ first[0] = b.first.duration
        /\ \A c \in Channel : first[c] = b.first.counts[c]
    BY <1>2, TotalsType
  <2>2. last \in [Meters -> Int] /\ last[0] = d /\ \A c \in Channel : last[c] = counts[c]
    BY TotalsType
  <2>3. framed \in [Meters -> Int] /\ framed[0] = b.framedDuration
        /\ \A c \in Channel : framed[c] = b.framed[c]
    BY <1>1, TotalsType
  <2>4. rest \in [Meters -> Int] /\ rest[0] = held /\ \A c \in Channel : rest[c] = kept[c]
    BY TotalsType
  <2> HIDE DEF first, last, framed, rest
  <2> QED BY <2>1, <2>2, <2>3, <2>4
<1>4. Meters = {0} \cup Channel
  BY SettingsAssumption DEF Meters, Channel
<1>5. run.first = first /\ run.last = last /\ run.framed = framed
  BY DEF RunOf
<1> HIDE DEF first, last, framed, rest
<1>6. ASSUME NEW m \in Meters
      PROVE  rest[m] = last[m] - first[m] - framed[m]
  <2>1. first[m] + framed[m] + rest[m] = last[m]
    BY <1>3, <1>4
  <2>2. first[m] \in Int /\ framed[m] \in Int /\ last[m] \in Int /\ rest[m] \in Int
    BY <1>3
  <2> QED BY <2>1, <2>2
<1>7. Exact!Held(run) = [m \in Meters |-> last[m] - first[m] - framed[m]]
  BY <1>5 DEF Exact!Held, Exact!Counted
<1>8. rest = [m \in Meters |-> last[m] - first[m] - framed[m]]
  BY <1>3, <1>6
<1>9. Exact!Held(run) = rest
  BY <1>7, <1>8
<1> QED BY <1>9 DEF rest

\* The promise calls a reading a continuation exactly when the code does.
LEMMA PromiseContinues ==
  ASSUME IndInv, cursor.session # 0, NEW r \in Spectrum
  PROVE  Exact!Continues(Report(r)) <=> Reason(r) = "none"
<1> DEFINE b == book[Len(book)]
           last == Totals(cursor.duration, cursor.counts)
           totals == Totals(r.duration, r.counts)
<1>1. /\ RunsOf(book) # <<>> /\ RunsOf(book)[Len(RunsOf(book))] = RunOf(b)
      /\ Fingerprint(b.first) = epochs[cursor.epoch].fingerprint
      /\ b.last.duration = cursor.duration /\ b.last.counts = cursor.counts
  BY LiveRun
<1>2. RunOf(b).mark = epochs[cursor.epoch].fingerprint /\ RunOf(b).last = last
  BY <1>1 DEF RunOf
<1>3. /\ cursor.duration \in Int /\ cursor.counts \in Counts
      /\ r.duration \in Int /\ r.counts \in Counts
  BY DEF IndInv, TypeOK, CursorRow, Spectrum
<1>4. /\ last \in [Meters -> Int] /\ totals \in [Meters -> Int]
      /\ last[0] = cursor.duration /\ totals[0] = r.duration
      /\ \A c \in Channel : last[c] = cursor.counts[c] /\ totals[c] = r.counts[c]
  BY <1>3, TotalsType
<1>5. Meters = {0} \cup Channel
  BY SettingsAssumption DEF Meters, Channel
<1>6. Fingerprint(r) = epochs[cursor.epoch].fingerprint => r.channels = cursor.channels
  <2>1. epochs[cursor.epoch].fingerprint = Fingerprint(book[cursor.session].last)
    BY LiveSession
  <2>2. cursor.channels = book[cursor.session].last.channels
    BY DEF IndInv, Linked
  <2> QED BY <2>1, <2>2 DEF Fingerprint
<1> HIDE DEF b, last, totals
<1>7. Exact!Continues(Report(r)) <=>
        /\ Fingerprint(r) = epochs[cursor.epoch].fingerprint
        /\ \A m \in Meters : totals[m] >= last[m]
  BY <1>1, <1>2 DEF Exact!Continues, Exact!Live, Report, totals
<1>8. Reason(r) = "none" <=>
        /\ Fingerprint(r) = epochs[cursor.epoch].fingerprint
        /\ ~(r.duration < cursor.duration)
        /\ ~(\E c \in Channel : r.counts[c] < cursor.counts[c])
  BY <1>6 DEF Reason
<1>9. \A c \in Channel : r.counts[c] \in Nat /\ cursor.counts[c] \in Nat
  BY <1>3 DEF Counts
<1>10. (\A m \in Meters : totals[m] >= last[m]) <=>
         /\ ~(r.duration < cursor.duration)
         /\ ~(\E c \in Channel : r.counts[c] < cursor.counts[c])
  <2>1. (totals[0] >= last[0]) <=> ~(r.duration < cursor.duration)
    BY <1>3, <1>4
  <2>2. ASSUME NEW c \in Channel
        PROVE  (totals[c] >= last[c]) <=> ~(r.counts[c] < cursor.counts[c])
    BY <1>4, <1>9
  <2> QED BY <1>5, <2>1, <2>2
<1> QED BY <1>7, <1>8, <1>10

\* What the run holds back once a reading continues it: the grown accumulator.
LEMMA PromiseGrows ==
  ASSUME IndInv, Continues
  PROVE  LET a == Grown(polled.spectrum, polled.at)
             x == Report(polled.spectrum)
         IN /\ Exact!Continues(x)
            /\ Exact!Continued(x) = [RunOf(book[Len(book)]) EXCEPT !.last = x.meters]
            /\ Exact!Held(Exact!Continued(x))[0] = a.duration
<1> DEFINE r == polled.spectrum
           a == Grown(r, polled.at)
           x == Report(r)
           b == book[Len(book)]
<1>1. cursor.session # 0 /\ r \in Spectrum /\ Reason(r) = "none"
  BY ContinuesFacts DEF Continues
<1>2. Exact!Continues(x)
  BY <1>1, PromiseContinues
<1>3. /\ b \in BookRow /\ RunsOf(book)[Len(RunsOf(book))] = RunOf(b)
      /\ b.first.duration + b.framedDuration + accumulator.duration = cursor.duration
      /\ \A c \in Channel :
           b.first.counts[c] + b.framed[c] + accumulator.counts[c] = cursor.counts[c]
  BY <1>1, LiveRun
<1>4. Exact!Continued(x) = [RunOf(b) EXCEPT !.last = x.meters]
  BY <1>3 DEF Exact!Continued, Exact!Live
<1>5. /\ a \in AccumulatorRow
      /\ a.duration = accumulator.duration + (r.duration - cursor.duration)
      /\ \A c \in Channel :
           a.counts[c] = accumulator.counts[c] + (r.counts[c] - cursor.counts[c])
  BY GrownFacts
<1>6. a.duration \in Int /\ a.counts \in Counts /\ r.duration \in Int /\ r.counts \in Counts
  BY <1>1, <1>5 DEF AccumulatorRow, Spectrum
<1> DEFINE accumulated == accumulator.counts
           counted == cursor.counts
<1>7. /\ accumulator.duration \in Nat /\ cursor.duration \in Nat
      /\ accumulated \in Counts /\ counted \in Counts
      /\ b.framed \in Counts /\ b.framedDuration \in Nat
      /\ b.first.counts \in Counts /\ b.first.duration \in Int
  BY <1>3 DEF IndInv, TypeOK, AccumulatorRow, CursorRow, BookRow, Spectrum
<1> HIDE DEF a, b, r
<1>8. b.first.duration + b.framedDuration + a.duration = r.duration
  BY <1>3, <1>5, <1>6, <1>7
<1>9. ASSUME NEW c \in Channel
      PROVE  b.first.counts[c] + b.framed[c] + a.counts[c] = r.counts[c]
  <2>1. /\ b.first.counts[c] \in Nat /\ b.framed[c] \in Nat /\ accumulated[c] \in Nat
        /\ counted[c] \in Nat /\ r.counts[c] \in Nat
    BY <1>6, <1>7 DEF Counts
  <2>2. /\ b.first.counts[c] + b.framed[c] + accumulated[c] = counted[c]
        /\ a.counts[c] = accumulated[c] + (r.counts[c] - counted[c])
    BY <1>3, <1>5
  <2> HIDE DEF accumulated, counted
  <2> QED BY <2>1, <2>2
<1>10. x.meters = Totals(r.duration, r.counts)
  BY DEF Report
<1> HIDE DEF x
<1>11. Exact!Held(Exact!Continued(x)) = Totals(a.duration, a.counts)
  BY <1>3, <1>4, <1>6, <1>8, <1>9, <1>10, RunHolds
<1>12. Exact!Held(Exact!Continued(x))[0] = a.duration
  BY <1>6, <1>11, TotalsType
<1> QED BY <1>2, <1>4, <1>12 DEF a, b, r, x

\* A commit that continues the session and stores no frame is a Hold.
LEMMA PromiseHold ==
  ASSUME IndInv, HeldInv, CommitQuiet \/ CommitDelta
  PROVE  Exact!Hold(Report(polled.spectrum))
<1> DEFINE r == polled.spectrum
           a == Grown(r, polled.at)
           x == Report(r)
           n == Len(book)
<1>1. /\ Continues
      /\ book' = [book EXCEPT ![cursor.session].last = r]
      /\ frames' = frames
  BY DEF CommitQuiet, CommitDelta
<1>2. cursor.session # 0 /\ r \in Spectrum
  BY <1>1, ContinuesFacts
<1>3. /\ n = cursor.session /\ n \in Nat /\ n \in DOMAIN book /\ book[n] \in BookRow
      /\ book \in Seq(BookRow) /\ Len(RunsOf(book)) = n
      /\ RunsOf(book)[n] = RunOf(book[n])
  BY <1>2, LiveRun DEF IndInv, TypeOK
<1>4. a.duration < FrameTarget
  <2>1. CASE CommitDelta
    BY <2>1 DEF CommitDelta
  <2>2. CASE CommitQuiet
    <3>1. r.duration = cursor.duration /\ accumulator.duration < FrameTarget
      BY <2>2 DEF CommitQuiet, Quiet, HeldInv
    <3>2. a.duration = accumulator.duration + (r.duration - cursor.duration)
      BY <1>1, GrownFacts
    <3>3. accumulator.duration \in Nat /\ cursor.duration \in Nat
      BY DEF IndInv, TypeOK, AccumulatorRow, CursorRow
    <3> HIDE DEF a
    <3> QED BY <3>1, <3>2, <3>3
  <2> QED BY <2>1, <2>2
<1>5. /\ Exact!Continues(x)
      /\ Exact!Continued(x) = [RunOf(book[n]) EXCEPT !.last = x.meters]
      /\ Exact!Held(Exact!Continued(x))[0] = a.duration
  BY <1>1, PromiseGrows
<1> DEFINE row == [book[n] EXCEPT !.last = r]
<1>6. row \in BookRow /\ row.first = book[n].first /\ row.framed = book[n].framed
      /\ row.framedDuration = book[n].framedDuration /\ row.last = r
  BY <1>2, <1>3 DEF BookRow
<1> HIDE DEF row
<1>7. /\ book' \in Seq(BookRow) /\ Len(book') = n /\ book'[n] = row
      /\ \A s \in 1..n : s # n => book'[s] = book[s]
  BY <1>1, <1>3, <1>6 DEF row
<1>8. RunsOf(book') = [RunsOf(book) EXCEPT ![n] = RunOf(row)]
  BY <1>3, <1>7, RunsChanged
<1>9. RunOf(row) = Exact!Continued(x)
  BY <1>3, <1>5, <1>6, RunExtended DEF Report
<1> HIDE DEF x, a
<1>10. /\ RunsOf(book)' = [RunsOf(book) EXCEPT ![Len(RunsOf(book))] = Exact!Continued(x)]
       /\ RowsOf(frames)' = RowsOf(frames)
  BY <1>1, <1>3, <1>8, <1>9
<1> QED BY <1>4, <1>5, <1>10 DEF Exact!Hold, x

\* A commit that stores a frame is a Store.
LEMMA PromiseStore ==
  ASSUME IndInv, HeldInv, CommitFrame
  PROVE  Exact!Store(Report(polled.spectrum))
<1> DEFINE r == polled.spectrum
           a == Grown(r, polled.at)
           x == Report(r)
           n == Len(book)
<1>1. /\ Continues
      /\ accumulator' = NoAccumulator
      /\ a.duration >= FrameTarget
      /\ frames' = Append(frames, Frame(a, EpochOf(r), a.flags))
  BY DEF CommitFrame, FrameAt
<1>2. cursor.session # 0 /\ r \in Spectrum /\ EpochOf(r) = cursor.epoch
  BY <1>1, ContinuesFacts
<1>3. /\ n = cursor.session /\ n \in Nat /\ n \in DOMAIN book /\ book[n] \in BookRow
      /\ book \in Seq(BookRow) /\ Len(RunsOf(book)) = n
      /\ RunsOf(book)[n] = RunOf(book[n])
      /\ book[n].first.duration + book[n].framedDuration + accumulator.duration
           = cursor.duration
      /\ \A c \in Channel :
           book[n].first.counts[c] + book[n].framed[c] + accumulator.counts[c]
             = cursor.counts[c]
  BY <1>2, LiveRun DEF IndInv, TypeOK
<1>4. /\ Exact!Continues(x)
      /\ Exact!Continued(x) = [RunOf(book[n]) EXCEPT !.last = x.meters]
      /\ Exact!Held(Exact!Continued(x))[0] = a.duration
  BY <1>1, PromiseGrows
<1> DEFINE row == book'[n]
<1>5. /\ book' \in Seq(BookRow) /\ Len(book') = n
      /\ \A s \in 1..n : s # n => book'[s] = book[s]
      /\ row.first = book[n].first /\ row.last = r
      /\ \A c \in Channel :
           row.framed[c] + accumulator'.counts[c]
             = book[n].framed[c] + accumulator.counts[c] + (r.counts[c] - cursor.counts[c])
      /\ row.framedDuration + accumulator'.duration
           = book[n].framedDuration + accumulator.duration + (r.duration - cursor.duration)
  BY <1>3, FrameStep DEF Advances
<1>6. row \in BookRow
  BY <1>3, <1>5
<1>7. accumulator'.duration = 0 /\ \A c \in Channel : accumulator'.counts[c] = 0
  BY <1>1 DEF NoAccumulator, Zero
<1>8. PICK after : after = book'[n]
  OBVIOUS
<1>9. row.first.duration + row.framedDuration = row.last.duration
  <2>1. /\ after.framedDuration
             = book[n].framedDuration + accumulator.duration + (r.duration - cursor.duration)
        /\ after.first.duration = book[n].first.duration /\ after.last.duration = r.duration
    <3>1. after.framedDuration + 0
            = book[n].framedDuration + accumulator.duration + (r.duration - cursor.duration)
      BY <1>5, <1>7, <1>8
    <3>2. after.framedDuration \in Nat
      BY <1>6, <1>8 DEF BookRow
    <3> QED BY <1>5, <1>8, <3>1, <3>2
  <2>2. /\ book[n].first.duration \in Int /\ book[n].framedDuration \in Nat
        /\ accumulator.duration \in Nat /\ cursor.duration \in Nat /\ r.duration \in Int
    BY <1>2, <1>3 DEF IndInv, TypeOK, AccumulatorRow, CursorRow, BookRow, Spectrum
  <2>3. after.first.duration + after.framedDuration = after.last.duration
    <3> HIDE DEF r, n
    <3> QED BY <1>3, <2>1, <2>2
  <2> QED BY <1>8, <2>3
<1>10. ASSUME NEW c \in Channel
       PROVE  row.first.counts[c] + row.framed[c] = row.last.counts[c]
  <2>1. /\ after.framed[c] + 0
             = book[n].framed[c] + accumulator.counts[c] + (r.counts[c] - cursor.counts[c])
        /\ after.first.counts = book[n].first.counts /\ after.last.counts = r.counts
    BY <1>5, <1>7, <1>8
  <2>2. /\ book[n].first.counts[c] \in Nat /\ book[n].framed[c] \in Nat
        /\ accumulator.counts[c] \in Nat /\ cursor.counts[c] \in Nat /\ r.counts[c] \in Nat
    BY <1>2, <1>3 DEF IndInv, TypeOK, AccumulatorRow, CursorRow, BookRow, Spectrum, Counts
  <2>3. after.framed[c] \in Nat
    BY <1>6, <1>8 DEF BookRow, Counts
  <2>4. book[n].first.counts[c] + book[n].framed[c] + accumulator.counts[c] = cursor.counts[c]
    BY <1>3
  <2>5. after.first.counts[c] + after.framed[c] = after.last.counts[c]
    <3> HIDE DEF r, n
    <3> QED BY <2>1, <2>2, <2>3, <2>4
  <2> QED BY <1>8, <2>5
<1> HIDE DEF row
<1>11. RunOf(row) = Exact!Settled(Exact!Continued(x))
  <2> DEFINE run == Exact!Continued(x)
  <2>1. run = [mark |-> Fingerprint(row.first),
               first |-> Totals(row.first.duration, row.first.counts),
               last |-> Totals(row.last.duration, row.last.counts),
               framed |-> Totals(book[n].framedDuration, book[n].framed)]
    BY <1>4, <1>5 DEF RunOf, Report
  <2> HIDE DEF run
  <2> QED BY <1>6, <1>9, <1>10, <2>1, RunSettled DEF run
<1>12. RunsOf(book') = [RunsOf(book) EXCEPT ![n] = RunOf(row)]
  BY <1>3, <1>5, RunsChanged DEF row
<1> DEFINE frame == Frame(a, EpochOf(r), a.flags)
<1>13. RowsOf(frames') = Append(RowsOf(frames), RowOf(frame))
  <2>1. a \in AccumulatorRow /\ EpochOf(r) \in Nat /\ frames \in Seq(FrameRow)
    BY <1>1, <1>2, GrownFacts DEF IndInv, TypeOK, CursorRow, Id
  <2> HIDE DEF a
  <2>2. frame \in FrameRow
    BY <2>1, FrameType DEF AccumulatorRow
  <2> HIDE DEF frame
  <2> QED BY <1>1, <2>1, <2>2, RowsAppend DEF frame, a
<1>14. RowOf(frame) = [run |-> n, seconds |-> a.duration, partial |-> FALSE]
  <2>1. a.session = n
    BY <1>1, <1>3, GrownFacts
  <2>2. "partial_frame_on_session_boundary" \notin a.flags
    BY DEF HeldInv, Grown, Warnings
  <2> HIDE DEF a
  <2>3. /\ frame.session = n /\ frame.duration = a.duration /\ frame.flags = a.flags
    BY <2>1 DEF Frame
  <2>4. ("partial_frame_on_session_boundary" \in frame.flags) = FALSE
    BY <2>2, <2>3
  <2> HIDE DEF frame
  <2> QED BY <2>3, <2>4 DEF RowOf
<1> HIDE DEF x, a, frame
<1>15. RunsOf(book)'
         = [RunsOf(book) EXCEPT ![Len(RunsOf(book))] = Exact!Settled(Exact!Continued(x))]
  BY <1>3, <1>11, <1>12
<1>16. RowsOf(frames)'
         = Append(RowsOf(frames), Exact!Row(Exact!Held(Exact!Continued(x))[0], FALSE))
  BY <1>3, <1>4, <1>13, <1>14 DEF Exact!Row
<1> QED BY <1>1, <1>4, <1>15, <1>16 DEF Exact!Store, x

\* A reading that starts a session starts a run with nothing in rows.
LEMMA FreshRun ==
  ASSUME polled.spectrum \in Spectrum
  PROVE  NewBook \in BookRow /\ RunOf(NewBook) = Exact!Fresh(Report(polled.spectrum))
<1> DEFINE r == polled.spectrum
<1>1. Zero \in Counts /\ \A c \in Channel : Zero[c] = 0
  BY DEF Zero, Counts
<1>2. NewBook \in BookRow
  BY <1>1 DEF NewBook, BookRow
<1>3. Totals(0, Zero) = Exact!Nothing
  <2>1. /\ Totals(0, Zero) \in [Meters -> Int] /\ Totals(0, Zero)[0] = 0
        /\ \A c \in Channel : Totals(0, Zero)[c] = 0
    BY <1>1, TotalsType
  <2>2. Meters = {0} \cup Channel
    BY SettingsAssumption DEF Meters, Channel
  <2>3. \A m \in Meters : Totals(0, Zero)[m] = 0
    BY <2>1, <2>2
  <2> QED BY <2>1, <2>3 DEF Exact!Nothing
<1>4. RunOf(NewBook)
        = [mark |-> Fingerprint(r), first |-> Totals(r.duration, r.counts),
           last |-> Totals(r.duration, r.counts), framed |-> Totals(0, Zero)]
  BY DEF RunOf, NewBook
<1> QED BY <1>2, <1>3, <1>4 DEF Exact!Fresh, Report

\* The first reading of the device is a Begin.
LEMMA PromiseBegin ==
  ASSUME IndInv, CommitFirst
  PROVE  Exact!Begin(Report(polled.spectrum))
<1> DEFINE x == Report(polled.spectrum)
<1>1. /\ Len(book) = 0 /\ book \in Seq(BookRow) /\ polled.spectrum \in Spectrum
      /\ book' = Append(book, NewBook) /\ frames' = frames
  BY DEF CommitFirst, IndInv, TypeOK, Linked, NewBook
<1>2. NewBook \in BookRow /\ RunOf(NewBook) = Exact!Fresh(x)
  BY <1>1, FreshRun
<1>3. RunsOf(book) = <<>>
  BY <1>1, RunsType
<1>4. RunsOf(book') = Append(<<>>, RunOf(NewBook))
  BY <1>1, <1>2, <1>3, RunsAppend
<1> HIDE DEF x
<1>5. RunsOf(book)' = <<Exact!Fresh(x)>> /\ RowsOf(frames)' = RowsOf(frames)
  BY <1>1, <1>2, <1>4
<1> QED BY <1>3, <1>5 DEF Exact!Begin, x

\* A reading that cannot continue the session is a Restart.
LEMMA PromiseRestart ==
  ASSUME IndInv, HeldInv, CommitBoundary
  PROVE  Exact!Restart(Report(polled.spectrum))
<1> DEFINE r == polled.spectrum
           x == Report(r)
           n == Len(book)
           b == book[n]
           sum == Plus(b.framed, accumulator.counts)
           total == b.framedDuration + accumulator.duration
           row == [b EXCEPT !.framed = sum, !.framedDuration = total]
           settled == [book EXCEPT ![n] = row]
           flags == accumulator.flags \cup {"partial_frame_on_session_boundary"}
           frame == Frame(accumulator, cursor.epoch, flags)
<1>1. /\ cursor.session # 0
      /\ Reason(r) # "none"
      /\ r \in Spectrum
      /\ frames' = IF accumulator.session = 0 THEN frames ELSE Append(frames, frame)
  BY DEF CommitBoundary, Boundary, IndInv, TypeOK
<1>2. /\ n = cursor.session /\ n \in Nat /\ n \in DOMAIN book /\ b \in BookRow
      /\ book \in Seq(BookRow) /\ frames \in Seq(FrameRow)
      /\ RunsOf(book) # <<>> /\ Len(RunsOf(book)) = n /\ RunsOf(book)[n] = RunOf(b)
      /\ b.last.duration = cursor.duration /\ b.last.counts = cursor.counts
      /\ b.first.duration + b.framedDuration + accumulator.duration = cursor.duration
      /\ \A c \in Channel :
           b.first.counts[c] + b.framed[c] + accumulator.counts[c] = cursor.counts[c]
  BY <1>1, LiveRun DEF IndInv, TypeOK
<1>3. book' = Append(settled, NewBook)
  BY <1>2 DEF CommitBoundary, Boundary, NewBook
<1>4. /\ accumulator \in AccumulatorRow /\ cursor \in CursorRow
      /\ accumulator.duration \in Nat /\ cursor.duration \in Nat
      /\ accumulator.counts \in Counts /\ cursor.counts \in Counts
      /\ b.framed \in Counts /\ b.framedDuration \in Nat
      /\ b.first.counts \in Counts /\ b.first.duration \in Int
  BY <1>2 DEF IndInv, TypeOK, AccumulatorRow, CursorRow, BookRow, Spectrum
<1> HIDE DEF b
<1>5. ASSUME NEW c \in Channel
      PROVE  /\ sum[c] \in Nat
             /\ b.first.counts[c] + sum[c] = b.last.counts[c]
  <2>1. /\ b.first.counts[c] \in Nat /\ b.framed[c] \in Nat
        /\ accumulator.counts[c] \in Nat
    BY <1>4 DEF Counts
  <2>2. b.first.counts[c] + b.framed[c] + accumulator.counts[c] = b.last.counts[c]
    BY <1>2
  <2>3. sum[c] = b.framed[c] + accumulator.counts[c]
    BY DEF Plus
  <2> HIDE DEF sum
  <2> QED BY <2>1, <2>2, <2>3
<1>6. sum \in Counts
  BY <1>5 DEF Counts, Plus
<1>7. total \in Nat /\ b.first.duration + total = b.last.duration
  BY <1>2, <1>4
<1> HIDE DEF sum, total
<1>8. /\ row \in BookRow /\ row.first = b.first /\ row.last = b.last
      /\ row.framed = sum /\ row.framedDuration = total
  BY <1>2, <1>6, <1>7 DEF BookRow
<1> HIDE DEF row
<1>9. /\ settled \in Seq(BookRow) /\ Len(settled) = n /\ settled[n] = row
      /\ \A s \in 1..n : s # n => settled[s] = book[s]
  BY <1>2, <1>8
<1> HIDE DEF settled
<1>10. RunOf(row) = Exact!Settled(RunOf(b))
  <2>1. RunOf(b) = [mark |-> Fingerprint(row.first),
                    first |-> Totals(row.first.duration, row.first.counts),
                    last |-> Totals(row.last.duration, row.last.counts),
                    framed |-> Totals(b.framedDuration, b.framed)]
    BY <1>8 DEF RunOf
  <2> QED BY <1>5, <1>7, <1>8, <2>1, RunSettled
<1>11. RunsOf(settled) = [RunsOf(book) EXCEPT ![n] = Exact!Settled(RunOf(b))]
  BY <1>2, <1>9, <1>10, RunsChanged
<1>12. NewBook \in BookRow /\ RunOf(NewBook) = Exact!Fresh(x)
  BY <1>1, FreshRun
<1>13. RunsOf(book') = Append(RunsOf(settled), RunOf(NewBook))
  BY <1>3, <1>9, <1>12, RunsAppend
<1>14. Exact!Held(RunOf(b)) = Totals(accumulator.duration, accumulator.counts)
  <2>1. RunOf(b) = [RunOf(b) EXCEPT !.last = Totals(cursor.duration, cursor.counts)]
    BY <1>2 DEF RunOf
  <2> DEFINE run == RunOf(b)
  <2>2. run = [RunOf(b) EXCEPT !.last = Totals(cursor.duration, cursor.counts)]
    BY <2>1
  <2> HIDE DEF run
  <2> DEFINE held == accumulator.duration
             kept == accumulator.counts
             seconds == cursor.duration
             counts == cursor.counts
  <2>3. /\ held \in Int /\ kept \in Counts /\ seconds \in Int /\ counts \in Counts
        /\ run = [RunOf(b) EXCEPT !.last = Totals(seconds, counts)]
        /\ b.first.duration + b.framedDuration + held = seconds
        /\ \A c \in Channel : b.first.counts[c] + b.framed[c] + kept[c] = counts[c]
    BY <1>2, <1>4, <2>2
  <2> HIDE DEF held, kept, seconds, counts
  <2>4. Exact!Held(run) = Totals(held, kept)
    BY <1>2, <2>3, RunHolds
  <2> QED BY <2>4 DEF run, held, kept
<1>15. Totals(accumulator.duration, accumulator.counts) = Exact!Nothing
         <=> accumulator.session = 0
  <2> DEFINE held == Totals(accumulator.duration, accumulator.counts)
  <2>1. /\ held \in [Meters -> Int] /\ held[0] = accumulator.duration
        /\ \A c \in Channel : held[c] = accumulator.counts[c]
    BY <1>4, TotalsType
  <2>2. Meters = {0} \cup Channel
    BY SettingsAssumption DEF Meters, Channel
  <2> HIDE DEF held
  <2>3. held = Exact!Nothing <=> \A m \in Meters : held[m] = 0
    BY <2>1 DEF Exact!Nothing
  <2>4. (\A m \in Meters : held[m] = 0)
          <=> accumulator.duration = 0 /\ \A c \in Channel : accumulator.counts[c] = 0
    BY <2>1, <2>2
  <2>5. (\A c \in Channel : accumulator.counts[c] = 0) <=> accumulator.counts = Zero
    BY <1>4 DEF Counts, Zero
  <2>6. accumulator.session = 0 <=> accumulator.duration = 0 /\ accumulator.counts = Zero
    BY DEF HeldInv, IndInv, Linked
  <2> QED BY <2>3, <2>4, <2>5, <2>6 DEF held
<1>16. RowsOf(frames')
         = IF accumulator.session = 0 THEN RowsOf(frames)
           ELSE Append(RowsOf(frames), [run |-> n, seconds |-> accumulator.duration,
                                        partial |-> TRUE])
  <2>1. CASE accumulator.session = 0
    BY <1>1, <2>1
  <2>2. CASE accumulator.session # 0
    <3>1. flags \in SUBSET Flags /\ "partial_frame_on_session_boundary" \in flags
      BY <1>4 DEF AccumulatorRow, Flags
    <3>2. accumulator.session = n
      BY <1>2, <2>2 DEF IndInv, Anchored
    <3> HIDE DEF flags
    <3>3. /\ frame.session = n /\ frame.duration = accumulator.duration
          /\ frame.flags = flags
      BY <3>2 DEF Frame
    <3>4. frame \in FrameRow
      BY <1>4, <3>1, FrameType DEF CursorRow, Id
    <3>5. frames' = Append(frames, frame)
      BY <1>1, <2>2
    <3> HIDE DEF frame
    <3>6. ("partial_frame_on_session_boundary" \in frame.flags) = TRUE
      BY <3>1, <3>3
    <3>7. RowOf(frame)
            = [run |-> n, seconds |-> accumulator.duration, partial |-> TRUE]
      BY <3>3, <3>6 DEF RowOf
    <3>8. RowsOf(frames') = Append(RowsOf(frames), RowOf(frame))
      BY <1>2, <3>4, <3>5, RowsAppend
    <3> QED BY <2>2, <3>7, <3>8
  <2> QED BY <2>1, <2>2
<1>17. Exact!Live = RunOf(b)
  BY <1>2 DEF Exact!Live
<1>18. ~Exact!Continues(x)
  BY <1>1, PromiseContinues
<1>19. Totals(accumulator.duration, accumulator.counts)[0] = accumulator.duration
  BY <1>4, TotalsType
<1> HIDE DEF x
<1>20. RunsOf(book)'
         = Append([RunsOf(book) EXCEPT ![Len(RunsOf(book))] = Exact!Settled(Exact!Live)],
                  Exact!Fresh(x))
  BY <1>2, <1>11, <1>12, <1>13, <1>17
<1>21. RowsOf(frames)'
         = IF Exact!Held(Exact!Live) = Exact!Nothing THEN RowsOf(frames)
           ELSE Append(RowsOf(frames), Exact!Row(Exact!Held(Exact!Live)[0], TRUE))
  BY <1>2, <1>14, <1>15, <1>16, <1>17, <1>19 DEF Exact!Row
<1> QED BY <1>2, <1>18, <1>20, <1>21 DEF Exact!Restart, x

\* Every step is a step of the promise, or changes nothing it speaks of.
LEMMA PromiseStep ==
  ASSUME IndInv, HeldInv, [Next]_vars
  PROVE  [Exact!Next]_(Exact!vars)
<1>1. polled.kind = "spectrum" => Report(polled.spectrum) \in Reports
  BY DEF HeldInv, Report, Reports
<1>2. CASE CommitFirst \/ CommitBoundary \/ CommitQuiet \/ CommitDelta \/ CommitFrame
  <2>1. polled.kind = "spectrum"
    BY <1>2 DEF CommitFirst, CommitBoundary, Boundary, CommitQuiet, CommitDelta,
                CommitFrame, FrameAt, Continues
  <2>2. PICK x \in Reports :
          Exact!Begin(x) \/ Exact!Hold(x) \/ Exact!Store(x) \/ Exact!Restart(x)
    BY <1>1, <1>2, <2>1, PromiseBegin, PromiseRestart, PromiseHold, PromiseStore
  <2> QED BY <2>2 DEF Exact!Next
<1>3. CASE UNCHANGED <<book, frames>>
  <2>1. RunsOf(book)' = RunsOf(book) /\ RowsOf(frames)' = RowsOf(frames)
    BY <1>3
  <2> QED BY <2>1 DEF Exact!vars
<1>4. CASE StoreSnapshotKnown \/ StoreSnapshotNew
  BY <1>3, <1>4 DEF StoreSnapshotKnown, StoreSnapshotNew, liveVars
<1>5. CASE ReadSpectrum \/ ReadAccumulated \/ Abandon \/ Reconnect \/ Tick \/ StepBack
           \/ UNCHANGED vars
  BY <1>3, <1>5
  DEF ReadSpectrum, ReadAccumulated, Read, Abandon, Reconnect, Tick, StepBack, liveVars, vars
<1> QED BY <1>2, <1>4, <1>5 DEF Next

\* What the detector counted becomes exact, unsplit frames: the commits of the
\* spectrum path, in any order and with any failures between, do what
\* ExactFrames promises.
THEOREM Implementation == Spec => ImplementsExactFrames
<1>1. Init => Exact!Init
  <2> SUFFICES ASSUME Init PROVE Exact!Init
    OBVIOUS
  <2>1. book = <<>> /\ frames = <<>>
    BY DEF Init
  <2>2. RunsOf(book) = <<>>
    BY <2>1, EmptySeq, RunsType
  <2>3. RowsOf(frames) = <<>>
    <3>1. RowsOf(frames) = [f \in 1..0 |-> RowOf(frames[f])]
      BY <2>1 DEF RowsOf
    <3>2. RowsOf(frames) \in Seq({RowOf(frames[f]) : f \in 1..0}) /\ Len(RowsOf(frames)) = 0
      BY <3>1
    <3> QED BY <3>2, EmptySeq
  <2> QED BY <2>2, <2>3 DEF Exact!Init
<1>2. IndInv /\ HeldInv /\ [Next]_vars => [Exact!Next]_(Exact!vars)
  BY PromiseStep
<1> QED BY <1>1, <1>2, Invariance, HeldHolds, PTL DEF Spec, ImplementsExactFrames, Exact!Spec
=============================================================================
