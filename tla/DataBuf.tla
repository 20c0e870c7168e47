-------------------------------- MODULE DataBuf --------------------------------
(***************************************************************************)
(* decode_data_buf: one pass over the bytes of a DATA_BUF response, record *)
(* by record, until the bytes end or can no longer be trusted, and then    *)
(* _anchor_sample_times over what was found.                               *)
(*                                                                         *)
(* The bytes are whatever the detector sent: what a header says is chosen  *)
(* when the header is read.  A record keeps its raw bytes as the range     *)
(* [first, last) of the payload.  Its device_tick is the device's own      *)
(* clock, which the program never sees, on a ring of TickModulus ticks.    *)
(***************************************************************************)
EXTENDS Integers, Sequences

CONSTANTS
  MaxLength,        \* bound: bytes in a response
  HeaderSize,       \* HEADER.size
  SequenceModulus,  \* 256
  BodySize,         \* RECORD_TYPES with a body_format: kind -> bytes
  SampleWidth,      \* RECORD_TYPES with a sample_width: kind -> bytes per sample
  SampleHeader,     \* the bytes before the samples
  MaxSamples,       \* the largest sample count
  TickModulus,      \* 2^32
  MaxAge,           \* MAX_BATCH_ANCHOR_AGE, in ticks
  MaxSkew,          \* MAX_BATCH_FUTURE_SKEW, in ticks
  Instants          \* times of the device's clock

\* Kinds of the records that end a pass: the bytes behind them have no known
\* boundaries.
Untrusted ==
  {"truncated_header", "sequence_discontinuity", "unknown", "truncated_record"}

Fixed == DOMAIN BodySize
Sampled == DOMAIN SampleWidth
Kind == Fixed \cup Sampled
HalfRing == TickModulus \div 2

ASSUME WireAssumption ==
  /\ MaxLength \in Nat /\ HeaderSize \in Nat \ {0}
  /\ SequenceModulus \in Nat \ {0}
  /\ BodySize \in [Fixed -> Nat] /\ SampleWidth \in [Sampled -> Nat]
  /\ SampleHeader \in Nat /\ MaxSamples \in Nat
  /\ Fixed \cap Sampled = {} /\ Kind \cap Untrusted = {}

ASSUME ClockAssumption ==
  /\ HalfRing \in Nat \ {0} /\ TickModulus = 2 * HalfRing
  /\ MaxAge \in Nat /\ MaxSkew \in Nat
  /\ MaxAge < HalfRing /\ MaxSkew < HalfRing
  /\ Instants \subseteq Int

VARIABLES
  phase,      \* "idle", "decode", "anchor" or "done"
  length,     \* of the payload
  position,
  records,
  expected,   \* next_expected
  truncated,
  unknown_tail

vars == <<phase, length, position, records, expected, truncated, unknown_tail>>

None == -1
Sequence == 0..(SequenceModulus - 1)

Entry ==
  [first : Nat, last : Nat, kind : Kind \cup Untrusted,
   sequence : Sequence \cup {None}, clock : Int, valid : BOOLEAN,
   quality : {"not_available", "batch_relative", "invalid_tick"},
   offset : Int]  \* sample_at - received_at, in ticks

Init ==
  /\ phase = "idle"
  /\ length = 0 /\ position = 0
  /\ records = <<>> /\ expected = None
  /\ truncated = FALSE /\ unknown_tail = FALSE

\* The collector decodes the payload of another response.  What the detector
\* counted to in the last one is forgotten.
Receive(size) ==
  /\ phase \in {"idle", "done"}
  /\ phase' = "decode"
  /\ length' = size /\ position' = 0
  /\ records' = <<>> /\ expected' = None
  /\ truncated' = FALSE /\ unknown_tail' = FALSE

-----------------------------------------------------------------------------
(* The loop. *)

\* What a header says, and whether the values of the body are plausible.
Header ==
  [sequence : Sequence, kind : Kind \cup {"unknown"}, clock : Instants,
   samples : 0..MaxSamples, valid : BOOLEAN]

Available == length - (position + HeaderSize)

\* A record from the current position up to "last".
Found(kind, sequence, clock, valid, last) ==
  [first |-> position, last |-> last, kind |-> kind, sequence |-> sequence,
   clock |-> clock, valid |-> valid, quality |-> "not_available", offset |-> 0]

\* Mutant: only the header of an unusable record is kept.
StopAtHeader(kind, h) ==
  /\ records' = Append(records, Found(kind, h.sequence, h.clock, FALSE,
                                      position + HeaderSize))
  /\ phase' = "anchor"
  /\ UNCHANGED <<length, position>>

\* The rest of the payload is kept as one record, and the pass ends.
Stop(kind, h) ==
  /\ records' = Append(records, Found(kind, h.sequence, h.clock, FALSE, length))
  /\ phase' = "anchor"
  /\ UNCHANGED <<length, position>>

TruncatedHeader ==
  /\ phase = "decode" /\ position < length
  /\ length - position < HeaderSize
  /\ Stop("truncated_header", [sequence |-> None, clock |-> 0])
  /\ truncated' = TRUE
  /\ UNCHANGED <<expected, unknown_tail>>

HasHeader == phase = "decode" /\ length - position >= HeaderSize

\* _sequence_discontinuity.
Continues(h) == expected = None \/ expected = h.sequence

Discontinuity(h) ==
  /\ HasHeader
  /\ ~Continues(h)
  /\ Stop("sequence_discontinuity", h)
  /\ expected' = None
  /\ unknown_tail' = TRUE
  /\ UNCHANGED truncated

Successor(sequence) == (sequence + 1) % SequenceModulus

\* Mutant: an unknown type does not count as an unknown tail.
UnknownUnflagged(h) ==
  /\ HasHeader
  /\ Continues(h)
  /\ h.kind = "unknown"
  /\ Stop("unknown", h)
  /\ expected' = Successor(h.sequence)
  /\ UNCHANGED <<truncated, unknown_tail>>

Unknown(h) ==
  /\ HasHeader
  /\ Continues(h)
  /\ h.kind = "unknown"
  /\ Stop("unknown", h)
  /\ expected' = Successor(h.sequence)
  /\ unknown_tail' = TRUE
  /\ UNCHANGED truncated

\* The sample count is read only when the bytes before the samples are there.
Size(h) ==
  IF h.kind \in Fixed THEN BodySize[h.kind]
  ELSE IF Available < SampleHeader THEN SampleHeader
  ELSE SampleHeader + h.samples * SampleWidth[h.kind]

TruncatedRecord(h) ==
  /\ HasHeader
  /\ Continues(h)
  /\ h.kind \in Kind
  /\ Available < Size(h)
  /\ Stop("truncated_record", h)
  /\ expected' = Successor(h.sequence)
  /\ truncated' = TRUE
  /\ UNCHANGED unknown_tail

\* Mutant: a gap is passed over and the pass resynchronises.
DecodedAfterGap(h) ==
  /\ HasHeader
  /\ h.kind \in Kind
  /\ Available >= Size(h)
  /\ position' = position + HeaderSize + Size(h)
  /\ records' = Append(records, Found(h.kind, h.sequence, h.clock, h.valid, position'))
  /\ expected' = Successor(h.sequence)
  /\ UNCHANGED <<phase, length, truncated, unknown_tail>>

\* _decode_values never rejects a record: implausible values make it invalid.
Decoded(h) ==
  /\ HasHeader
  /\ Continues(h)
  /\ h.kind \in Kind
  /\ Available >= Size(h)
  /\ position' = position + HeaderSize + Size(h)
  /\ records' = Append(records, Found(h.kind, h.sequence, h.clock, h.valid, position'))
  /\ expected' = Successor(h.sequence)
  /\ UNCHANGED <<phase, length, truncated, unknown_tail>>

EndOfPayload ==
  /\ phase = "decode" /\ position = length
  /\ phase' = "anchor"
  /\ UNCHANGED <<length, position, records, expected, truncated, unknown_tail>>

-----------------------------------------------------------------------------
(* _anchor_sample_times. *)

\* The signed 32-bit tick on the wire.
Tick(clock) == ((clock + HalfRing) % TickModulus) - HalfRing

\* Mutant: ticks are subtracted as they are.
DeltaSigned(tick, anchor) == tick - anchor

Delta(tick, anchor) == ((tick - anchor + HalfRing) % TickModulus) - HalfRing

Anchorable == {i \in DOMAIN records : records[i].kind \notin Untrusted}

\* The last record that has a place in time stands for received_at.
Anchor == CHOOSE i \in Anchorable : \A j \in Anchorable : j <= i

InWindow(delta) == -MaxAge <= delta /\ delta <= MaxSkew

Anchored(i) ==
  LET delta == Delta(Tick(records[i].clock), Tick(records[Anchor].clock))
  IN  IF i \notin Anchorable THEN records[i]
      ELSE IF InWindow(delta)
      THEN [records[i] EXCEPT !.quality = "batch_relative", !.offset = delta]
      ELSE [records[i] EXCEPT !.quality = "invalid_tick"]

AnchorSampleTimes ==
  /\ phase = "anchor"
  /\ phase' = "done"
  /\ records' = [i \in DOMAIN records |-> Anchored(i)]
  /\ UNCHANGED <<length, position, expected, truncated, unknown_tail>>

Read(h) == Discontinuity(h) \/ Unknown(h) \/ TruncatedRecord(h) \/ Decoded(h)

Next ==
  \/ \E size \in 0..MaxLength : Receive(size)
  \/ TruncatedHeader
  \/ \E h \in Header : Read(h)
  \/ EndOfPayload
  \/ AnchorSampleTimes

Spec == Init /\ [][Next]_vars
-----------------------------------------------------------------------------
(* Properties. *)

\* The pass keeps its shape: positions lie in the payload, the expectation is a
\* sequence number, records carry what DecodedRecord declares.
TypeOK ==
  /\ phase \in {"idle", "decode", "anchor", "done"}
  /\ length \in 0..MaxLength
  /\ position \in 0..length
  /\ records \in Seq(Entry)
  /\ expected \in Sequence \cup {None}
  /\ truncated \in BOOLEAN /\ unknown_tail \in BOOLEAN

\* "without discarding undecodable bytes": the raw records are the payload, cut
\* into pieces: every byte is in exactly one of them.
Covered == IF records = <<>> THEN 0 ELSE records[Len(records)].last
Lossless ==
  /\ \A i \in DOMAIN records :
       /\ records[i].first = IF i = 1 THEN 0 ELSE records[i - 1].last
       /\ records[i].first < records[i].last
  /\ phase \in {"anchor", "done"} => Covered = length

\* What commit_data_batch writes to a table of its own, and MQTT announces.
Projected(r) ==
  \/ r.kind \in {"raw", "dose_rate_db", "event"}
  \/ r.kind \in {"real_time", "rare"} /\ r.valid

\* "never project arbitrary tail bytes as measurements or detector events": up
\* to a projected record nothing is missing, unknown or cut off, and the
\* sequence numbers run on, also where they wrap.
ProjectedFromUnbroken ==
  \A i \in DOMAIN records :
    Projected(records[i]) =>
      /\ \A j \in 1..i : records[j].kind \in Kind
      /\ \A j \in 2..i : records[j].sequence = Successor(records[j - 1].sequence)

\* The flags that decide the batch's decode_status tell the truth: a batch has
\* neither if and only if every byte belongs to a decoded record; and only what
\* was not continued leaves no expectation.
StatusHonest ==
  phase \in {"anchor", "done"} =>
    /\ ~(truncated \/ unknown_tail) <=> \A i \in DOMAIN records : records[i].kind \in Kind
    /\ ~(truncated /\ unknown_tail)
    /\ records # <<>> /\ expected = None =>
         records[Len(records)].kind \in {"truncated_header", "sequence_discontinuity"}

\* A record's sample time is as far from the last one's as the device's clock
\* says, on whichever side of the ring's seam they lie, and it has none exactly
\* if that is outside the window.  Half a ring, 248 days, is more than any
\* response spans.
Near(i) ==
  LET distance == records[i].clock - records[Anchor].clock
  IN  -HalfRing <= distance /\ distance < HalfRing
TimesTrue ==
  phase = "done" =>
    \A i \in Anchorable :
      Near(i) =>
        LET distance == records[i].clock - records[Anchor].clock
        IN  IF InWindow(distance)
            THEN records[i].quality = "batch_relative" /\ records[i].offset = distance
            ELSE records[i].quality = "invalid_tick"
=============================================================================
