----------------------------- MODULE DataBufProofs -----------------------------
(***************************************************************************)
(* Of decode_data_buf, for every payload, record layout and window: it     *)
(* keeps every byte, projects only behind an unbroken run of records, and  *)
(* places samples in time as the device's clock does.                      *)
(***************************************************************************)
EXTENDS DataBuf, SequenceTheorems, WellFoundedInduction, TLAPS

-----------------------------------------------------------------------------
(* The ring of ticks. *)

\* A residue is the only one: division by m has one quotient.
LEMMA OneResidue ==
  ASSUME NEW m \in Nat \ {0}, NEW q \in Int, NEW r \in Int, 0 <= r, r < m,
         NEW p \in Int, NEW s \in Int, 0 <= s, s < m, m * q + r = m * p + s
  PROVE  r = s
<1>1. CASE q = p
  BY <1>1, SMT
<1>2. CASE q > p
  <2>1. m * (q - p) >= m
    BY <1>2, SMTT(30)
  <2>2. m * (q - p) = s - r
    BY SMT
  <2> QED BY <2>1, <2>2, SMT
<1>3. CASE p > q
  <2>1. m * (p - q) >= m
    BY <1>3, SMTT(30)
  <2>2. m * (p - q) = r - s
    BY SMT
  <2> QED BY <2>1, <2>2, SMT
<1> QED BY <1>1, <1>2, <1>3, SMT

\* Quotient and remainder of integers, as the ring needs them.
LEMMA Division ==
  ASSUME NEW m \in Nat \ {0}, NEW x \in Int
  PROVE  /\ x \div m \in Int /\ x % m \in Int /\ 0 <= x % m /\ x % m < m
         /\ m * (x \div m) + (x % m) = x
<1>1. x \div m \in Int
  BY SMTT(30)
<1>2. x % m \in Int /\ 0 <= x % m /\ x % m < m
  BY SMTT(30)
<1>3. m * (x \div m) + (x % m) = x
  BY SMTT(30)
<1> QED BY <1>1, <1>2, <1>3

\* Whole turns of the ring do not change a residue.
LEMMA WholeTurns ==
  ASSUME NEW m \in Nat \ {0}, NEW x \in Int, 0 <= x, x < m, NEW k \in Int
  PROVE  (x + m * k) % m = x
<1> DEFINE y == x + m * k
           q == y \div m
           r == y % m
<1>1. y \in Int
  BY SMT
<1> HIDE DEF y
<1>2. q \in Int /\ r \in Int /\ 0 <= r /\ r < m /\ m * q + r = y
  BY <1>1, Division
<1> HIDE DEF q, r
<1>3. m * q + r = m * k + x
  BY <1>2, SMT DEF y
<1>4. r = x
  BY <1>2, <1>3, OneResidue, Zenon
<1> QED BY <1>4 DEF y, r

\* The distance of two signed ticks, taken in the ring, is the distance of the
\* instants they stand for whenever that is less than half a turn.
THEOREM DeltaIsDistance ==
  ASSUME NEW a \in Int, NEW b \in Int, -HalfRing <= a - b, a - b < HalfRing
  PROVE  Delta(Tick(a), Tick(b)) = a - b
<1> DEFINE M == TickModulus
           ra == (a + HalfRing) % M
           rb == (b + HalfRing) % M
           qa == (a + HalfRing) \div M
           qb == (b + HalfRing) \div M
           x == a - b + HalfRing
<1>1. HalfRing \in Nat \ {0} /\ M = 2 * HalfRing /\ M \in Nat \ {0}
  BY ClockAssumption, SMT
<1>2. /\ qa \in Int /\ ra \in Int /\ M * qa + ra = a + HalfRing
      /\ qb \in Int /\ rb \in Int /\ M * qb + rb = b + HalfRing
  <2>1. a + HalfRing \in Int /\ b + HalfRing \in Int
    BY <1>1, SMT
  <2> HIDE DEF M
  <2> QED BY <1>1, <2>1, Division, Zenon
<1>3. x \in Int /\ 0 <= x /\ x < M
  BY <1>1, SMT
<1>4. Delta(Tick(a), Tick(b)) = (((ra - HalfRing) - (rb - HalfRing) + HalfRing) % M) - HalfRing
  BY DEF Delta, Tick
<1> HIDE DEF M, ra, rb, qa, qb
<1>5. (ra - HalfRing) - (rb - HalfRing) + HalfRing = x + M * (qb - qa)
  BY <1>1, <1>2, SMT
<1>6. qb - qa \in Int
  BY <1>2, SMT
<1>7. (x + M * (qb - qa)) % M = x
  BY <1>1, <1>3, <1>6, WholeTurns
<1> QED BY <1>1, <1>4, <1>5, <1>7, SMT

-----------------------------------------------------------------------------
(* Records. *)

\* What the assumptions say of the lengths and moduli.
LEMMA ConstantsTyped ==
  /\ MaxLength \in Nat /\ HeaderSize \in Nat \ {0}
  /\ SequenceModulus \in Nat \ {0} /\ HalfRing \in Nat \ {0}
  /\ SampleHeader \in Nat /\ MaxSamples \in Nat
  /\ Kind \cap Untrusted = {} /\ None \notin Sequence /\ Instants \subseteq Int
BY WireAssumption, ClockAssumption, SMT DEF Sequence, None

\* (sequence + 1) % 256 is a sequence number again.
LEMMA SuccessorTyped == \A sequence \in Sequence : Successor(sequence) \in Sequence
<1> SUFFICES ASSUME NEW n \in Sequence PROVE Successor(n) \in Sequence
  OBVIOUS
<1>1. n + 1 \in Int /\ SequenceModulus \in Nat \ {0}
  BY ConstantsTyped, SMT DEF Sequence
<1>2. (n + 1) % SequenceModulus \in Int /\ 0 <= (n + 1) % SequenceModulus
      /\ (n + 1) % SequenceModulus < SequenceModulus
  BY <1>1, SMTT(30)
<1> QED BY <1>1, <1>2, SMT DEF Successor, Sequence

\* A record's size is one number, whatever its samples.
LEMMA SizeTyped ==
  ASSUME NEW h \in Header, h.kind \in Kind PROVE Size(h) \in Nat
<1>1. CASE h.kind \in Fixed
  BY <1>1, WireAssumption DEF Size
<1>2. CASE h.kind \notin Fixed
  <2>1. SampleWidth[h.kind] \in Nat /\ h.samples \in Nat /\ SampleHeader \in Nat
    BY <1>2, WireAssumption, SMT DEF Header, Kind
  <2> DEFINE width == SampleWidth[h.kind]
  <2> HIDE DEF width
  <2>2. h.samples * width \in Nat
    BY <2>1, SMT DEF width
  <2> QED BY <1>2, <2>1, <2>2, SMT DEF Size, width
<1> QED BY <1>1, <1>2

\* A record found at any position is an entry.
LEMMA FoundTyped ==
  ASSUME NEW kind \in Kind \cup Untrusted, NEW sequence \in Sequence \cup {None},
         NEW clock \in Int, NEW valid \in BOOLEAN, NEW last \in Nat, position \in Nat
  PROVE  Found(kind, sequence, clock, valid, last) \in Entry
<1>1. "not_available" \in {"not_available", "batch_relative", "invalid_tick"} /\ 0 \in Int
  BY SMT
<1>2. position \in Nat
  OBVIOUS
<1> QED BY <1>1, <1>2, SMT DEF Found, Entry

\* A record that has a place in time has a last one with it, the anchor.
LEMMA AnchorExists ==
  ASSUME records \in Seq(Entry), Anchorable # {}
  PROVE  Anchor \in Anchorable
<1>1. /\ Len(records) \in Nat
      /\ \A i \in Anchorable : i \in Nat /\ i <= Len(records)
  BY SMT DEF Anchorable
<1> DEFINE back == {Len(records) - i : i \in Anchorable}
<1>2. back \in SUBSET Nat /\ back # {}
  BY <1>1, SMT
<1>3. PICK n \in back : \A m \in back : n <= m
  <2>1. PICK n \in back : \A m \in back : <<m, n>> \notin OpToRel(<, Nat)
    BY <1>2, NatLessThanWellFounded, WFMin, Zenon
  <2>2. \A m \in back : ~(m < n)
    <3>1. \A m, k \in Nat : m < k => <<m, k>> \in OpToRel(<, Nat)
      BY SMT DEF OpToRel
    <3> HIDE DEF back
    <3> QED BY <1>2, <2>1, <3>1
  <2> HIDE DEF back
  <2>3. \A m \in back : n <= m
    BY <1>2, <2>2, SMT
  <2> QED BY <2>3, Zenon
<1>4. PICK i \in Anchorable : n = Len(records) - i
  BY <1>3
<1>5. \A j \in Anchorable : Len(records) - j \in back
  OBVIOUS
<1> HIDE DEF back
<1>6. \A j \in Anchorable : j <= i
  BY <1>1, <1>3, <1>4, <1>5, SMT
<1> QED BY <1>6, Zenon DEF Anchor

\* Giving an entry its time leaves it an entry.
LEMMA Placed ==
  ASSUME NEW r \in Entry, NEW d \in Int,
         NEW q \in {"not_available", "batch_relative", "invalid_tick"}
  PROVE  /\ [r EXCEPT !.quality = q, !.offset = d] \in Entry
         /\ [r EXCEPT !.quality = q] \in Entry
<1> DEFINE K == Kind \cup Untrusted
           S == Sequence \cup {None}
           Q == {"not_available", "batch_relative", "invalid_tick"}
           B == BOOLEAN
<1> HIDE DEF K, S, Q, B
<1>1. r \in [first : Nat, last : Nat, kind : K, sequence : S, clock : Int,
              valid : B, quality : Q, offset : Int] /\ q \in Q
  BY DEF Entry, K, S, Q, B
<1> DEFINE Record == [first : Nat, last : Nat, kind : K, sequence : S, clock : Int,
                      valid : B, quality : Q, offset : Int]
<1>2. [r EXCEPT !.quality = q] \in Record
  BY <1>1, ZenonT(30)
<1>3. [r EXCEPT !.offset = d] \in Record
  BY <1>1, ZenonT(30)
<1>4. [r EXCEPT !.quality = q, !.offset = d] \in Record
  BY <1>1, ZenonT(30)
<1> QED BY <1>2, <1>4 DEF Entry, K, S, Q, B

\* What _anchor_sample_times leaves of a record.
LEMMA AnchoredKeeps ==
  ASSUME records \in Seq(Entry), NEW i \in DOMAIN records
  PROVE  /\ Anchored(i) \in Entry
         /\ Anchored(i).first = records[i].first /\ Anchored(i).last = records[i].last
         /\ Anchored(i).kind = records[i].kind
         /\ Anchored(i).sequence = records[i].sequence
         /\ Anchored(i).clock = records[i].clock
<1> DEFINE delta == Delta(Tick(records[i].clock), Tick(records[Anchor].clock))
           r == records[i]
<1>1. r \in Entry
  BY SMT
<1>2. i \in Anchorable => delta \in Int
  <2> SUFFICES ASSUME i \in Anchorable PROVE delta \in Int
    OBVIOUS
  <2>1. \A m \in Nat \ {0}, x \in Int : x % m \in Int
    BY Division
  <2>2. TickModulus \in Nat \ {0} /\ HalfRing \in Int
    BY ClockAssumption, SMT
  <2>3. \A c \in Int, d \in Int : Delta(c, d) \in Int
    BY <2>1, <2>2, SMT DEF Delta
  <2>4. \A c \in Int : Tick(c) \in Int
    BY <2>1, <2>2, SMT DEF Tick
  <2>5. Anchor \in Anchorable
    BY AnchorExists
  <2>6. records[Anchor] \in Entry
    BY <2>5, SMT DEF Anchorable
  <2>7. records[Anchor].clock \in Int
    BY <2>6, SMT DEF Entry
  <2>8. r.clock \in Int
    BY <1>1, SMT DEF Entry
  <2> QED BY <2>3, <2>4, <2>7, <2>8
<1> HIDE DEF delta
<1>3. \/ Anchored(i) = r
      \/ i \in Anchorable /\ Anchored(i) = [r EXCEPT !.quality = "batch_relative", !.offset = delta]
      \/ i \in Anchorable /\ Anchored(i) = [r EXCEPT !.quality = "invalid_tick"]
  BY Zenon DEF Anchored, delta
<1> HIDE DEF r
<1>4. /\ Anchored(i) \in Entry
      /\ Anchored(i).first = r.first /\ Anchored(i).last = r.last
      /\ Anchored(i).kind = r.kind /\ Anchored(i).sequence = r.sequence
      /\ Anchored(i).clock = r.clock
  <2>1. CASE Anchored(i) = r
    BY <2>1, <1>1
  <2>2. CASE i \in Anchorable /\ Anchored(i) = [r EXCEPT !.quality = "batch_relative", !.offset = delta]
    <3>1. Anchored(i) \in Entry
      BY <2>2, <1>1, <1>2, Placed
    <3> QED BY <2>2, <3>1, <1>1, SMT DEF Entry
  <2>3. CASE i \in Anchorable /\ Anchored(i) = [r EXCEPT !.quality = "invalid_tick"]
    <3>1. Anchored(i) \in Entry
      BY <2>3, <1>1, 0 \in Int, Placed
    <3> QED BY <2>3, <3>1, <1>1, SMT DEF Entry
  <2> QED BY <1>3, <2>1, <2>2, <2>3
<1> QED BY <1>4 DEF r

-----------------------------------------------------------------------------
(* The pass keeps its shape. *)

\* A pass that ends keeps the rest of the payload in one more record.
LEMMA StopTyped ==
  ASSUME TypeOK, NEW kind \in Untrusted, NEW h,
         h.sequence \in Sequence \cup {None}, h.clock \in Int, Stop(kind, h)
  PROVE  /\ phase' = "anchor" /\ length' \in 0..MaxLength /\ position' \in 0..length'
         /\ records' \in Seq(Entry)
<1>1. FALSE \in BOOLEAN
  BY Zenon
<1>2. length \in Nat /\ position \in Nat
  BY ConstantsTyped, SMT DEF TypeOK
<1>3. Found(kind, h.sequence, h.clock, FALSE, length) \in Entry
  BY <1>1, <1>2, FoundTyped
<1>4. records' \in Seq(Entry)
  BY <1>3, AppendProperties DEF Stop, TypeOK
<1> QED BY <1>4 DEF Stop, TypeOK

\* Headers carry a sequence number, and it has a successor.
LEMMA HeaderTyped ==
  \A h \in Header : /\ h.sequence \in Sequence /\ h.clock \in Int /\ h.valid \in BOOLEAN
                    /\ Successor(h.sequence) \in Sequence
<1> SUFFICES ASSUME NEW h \in Header
             PROVE  /\ h.sequence \in Sequence /\ h.clock \in Int /\ h.valid \in BOOLEAN
                    /\ Successor(h.sequence) \in Sequence
  OBVIOUS
<1>1. h.sequence \in Sequence /\ h.clock \in Instants /\ h.valid \in BOOLEAN
  BY Zenon DEF Header
<1> QED BY <1>1, SuccessorTyped, ConstantsTyped, Zenon

\* A decoded record lies within the payload and takes the pass forward.
LEMMA DecodedTyped ==
  ASSUME TypeOK, NEW h \in Header, Decoded(h)
  PROVE  /\ position' \in 0..length' /\ records' \in Seq(Entry)
         /\ position < position'
         /\ Found(h.kind, h.sequence, h.clock, h.valid, position') \in Entry
<1>1. Size(h) \in Nat /\ HeaderSize \in Nat \ {0} /\ length \in Nat /\ position \in Nat
  BY SizeTyped, ConstantsTyped, SMT DEF Decoded, TypeOK
<1>2. position' \in Nat /\ position' \in 0..length' /\ position < position'
  BY <1>1, SMT DEF Decoded, Available, HasHeader, TypeOK
<1>3. Found(h.kind, h.sequence, h.clock, h.valid, position') \in Entry
  BY <1>1, <1>2, HeaderTyped, FoundTyped, Zenon DEF Decoded
<1>4. records' \in Seq(Entry)
  BY <1>3, AppendProperties DEF Decoded, TypeOK
<1> QED BY <1>2, <1>3, <1>4

\* Anchoring changes the entries one by one, and none but their times.
LEMMA AnchorSampleTimesTyped ==
  ASSUME TypeOK, AnchorSampleTimes
  PROVE  /\ records' \in Seq(Entry) /\ Len(records') = Len(records)
         /\ DOMAIN records' = DOMAIN records
         /\ \A i \in DOMAIN records : records'[i] = Anchored(i)
<1>1. Len(records) \in Nat /\ DOMAIN records = 1..Len(records)
  BY LenProperties DEF TypeOK
<1>2. \A i \in DOMAIN records : Anchored(i) \in Entry
  BY AnchoredKeeps DEF TypeOK
<1>3. /\ records' \in [1..Len(records) -> Entry]
      /\ \A i \in DOMAIN records : records'[i] = Anchored(i)
  BY <1>1, <1>2 DEF AnchorSampleTimes
<1>4. records' \in Seq(Entry)
  BY <1>1, <1>3, SeqDef
<1>5. Len(records') = Len(records)
  BY <1>1, <1>3, <1>4, LenProperties, SMT
<1> QED BY <1>1, <1>3, <1>4, <1>5

\* TypeOK: positions lie in the payload, and every record is one.
THEOREM TypeCorrect == Spec => []TypeOK
<1>1. Init => TypeOK
  <2>1. <<>> \in Seq(Entry) /\ MaxLength \in Nat /\ None \in {None}
    BY EmptySeq, ConstantsTyped
  <2>2. FALSE \in BOOLEAN
    BY Zenon
  <2>3. 0 \in 0..MaxLength /\ 0 \in 0..0
    BY <2>1, SMT
  <2> QED BY <2>1, <2>2, <2>3, Zenon DEF Init, TypeOK
<1>2. TypeOK /\ [Next]_vars => TypeOK'
  <2> SUFFICES ASSUME TypeOK, [Next]_vars PROVE TypeOK'
    OBVIOUS
  <2> USE DEF TypeOK
  <2>0. TRUE \in BOOLEAN /\ FALSE \in BOOLEAN
    BY Zenon
  <2>1. CASE \E size \in 0..MaxLength : Receive(size)
    <3>1. <<>> \in Seq(Entry)
      BY EmptySeq
    <3>2. PICK size \in 0..MaxLength : Receive(size)
      BY <2>1
    <3>3. 0 \in 0..size /\ None \in {None}
      BY ConstantsTyped, SMT
    <3> QED BY <3>2, <2>0, <3>1, <3>3, Zenon DEF Receive
  <2>2. CASE TruncatedHeader
    <3>1. Stop("truncated_header", [sequence |-> None, clock |-> 0])
      BY <2>2 DEF TruncatedHeader
    <3>2. /\ phase' = "anchor" /\ length' \in 0..MaxLength /\ position' \in 0..length'
          /\ records' \in Seq(Entry)
      BY <3>1, StopTyped, SMT DEF Untrusted
    <3> QED BY <2>2, <2>0, <3>2 DEF TruncatedHeader
  <2>3. ASSUME NEW h \in Header, Discontinuity(h) PROVE TypeOK'
    <3>1. /\ phase' = "anchor" /\ length' \in 0..MaxLength /\ position' \in 0..length'
          /\ records' \in Seq(Entry)
      BY <2>3, HeaderTyped, StopTyped, SMT DEF Untrusted, Discontinuity
    <3> QED BY <2>3, <2>0, <3>1 DEF Discontinuity
  <2>4. ASSUME NEW h \in Header, Unknown(h) PROVE TypeOK'
    <3>1. /\ phase' = "anchor" /\ length' \in 0..MaxLength /\ position' \in 0..length'
          /\ records' \in Seq(Entry)
      BY <2>4, HeaderTyped, StopTyped, SMT DEF Untrusted, Unknown
    <3> QED BY <2>4, <2>0, <3>1, HeaderTyped DEF Unknown
  <2>5. ASSUME NEW h \in Header, TruncatedRecord(h) PROVE TypeOK'
    <3>1. /\ phase' = "anchor" /\ length' \in 0..MaxLength /\ position' \in 0..length'
          /\ records' \in Seq(Entry)
      BY <2>5, HeaderTyped, StopTyped, SMT DEF Untrusted, TruncatedRecord
    <3> QED BY <2>5, <2>0, <3>1, HeaderTyped DEF TruncatedRecord
  <2>6. ASSUME NEW h \in Header, Decoded(h) PROVE TypeOK'
    BY <2>6, DecodedTyped, HeaderTyped DEF Decoded
  <2>7. CASE EndOfPayload
    BY <2>7 DEF EndOfPayload
  <2>8. CASE AnchorSampleTimes
    BY <2>8, AnchorSampleTimesTyped DEF AnchorSampleTimes
  <2>9. CASE UNCHANGED vars
    BY <2>9 DEF vars
  <2> QED BY <2>1, <2>2, <2>3, <2>4, <2>5, <2>6, <2>7, <2>8, <2>9 DEF Next, Read
<1> QED BY <1>1, <1>2, PTL DEF Spec

-----------------------------------------------------------------------------
(* What the records say of the payload. *)

End(s) == IF s = <<>> THEN 0 ELSE s[Len(s)].last

Tiled(s) ==
  \A i \in DOMAIN s : /\ s[i].first = IF i = 1 THEN 0 ELSE s[i - 1].last
                      /\ s[i].first < s[i].last

AllKnown(s) == \A i \in DOMAIN s : s[i].kind \in Kind

\* Only the last record may be one that ends the pass, and the sequence numbers
\* of the others run on.
Linked(s) ==
  \A i \in DOMAIN s :
    /\ i < Len(s) => s[i].kind \in Kind
    /\ s[i].kind \in Kind =>
         i = 1 \/ s[i].sequence = Successor(s[i - 1].sequence)

\* The strengthening: while the pass runs, the records cover the payload up to
\* the position, none of them ended it, and the expectation is the last one's
\* successor.
PassInv ==
  /\ Tiled(records) /\ Linked(records)
  /\ phase = "decode" =>
       /\ End(records) = position
       /\ AllKnown(records)
       /\ ~truncated /\ ~unknown_tail
       /\ expected = IF records = <<>> THEN None
                     ELSE Successor(records[Len(records)].sequence)
       /\ records # <<>> => expected # None
  /\ phase \in {"anchor", "done"} => End(records) = length
  /\ StatusHonest

\* One more record, behind all the others.
LEMMA OneMore ==
  ASSUME NEW s \in Seq(Entry), NEW e \in Entry, Tiled(s), Linked(s), AllKnown(s),
         e.first = End(s), e.first < e.last,
         \/ e.kind \notin Kind \/ s = <<>>
         \/ e.sequence = Successor(s[Len(s)].sequence)
  PROVE  /\ Tiled(Append(s, e)) /\ Linked(Append(s, e))
         /\ End(Append(s, e)) = e.last /\ Append(s, e) # <<>>
         /\ Append(s, e)[Len(Append(s, e))] = e
         /\ AllKnown(Append(s, e)) <=> e.kind \in Kind
<1> DEFINE t == Append(s, e)
           n == Len(s)
<1>1. /\ t \in Seq(Entry) /\ t # <<>> /\ Len(t) = n + 1 /\ n \in Nat
      /\ t[n + 1] = e /\ \A i \in 1..n : t[i] = s[i]
  <2>1. n \in Nat
    BY LenProperties
  <2>2. /\ t \in Seq(Entry) /\ t # <<>> /\ Len(t) = n + 1
        /\ t[n + 1] = e /\ \A i \in 1..n : t[i] = s[i]
    BY AppendProperties
  <2> QED BY <2>1, <2>2
<1>2. DOMAIN s = 1..n /\ DOMAIN t = 1..(n + 1) /\ (s = <<>> <=> n = 0)
  BY <1>1, LenProperties, EmptySeq, SMT
<1> HIDE DEF t, n
<1>3. s # <<>> => n \in 1..n /\ t[n] = s[n]
  BY <1>1, <1>2, SMT
<1>4. \A i \in 1..(n + 1) : i \in 1..n \/ i = n + 1
  BY <1>1, SMT
<1>5. \A i \in 1..n : i - 1 \in 1..n \/ i = 1
  BY <1>1, SMT
<1>6. Tiled(t)
  <2> SUFFICES ASSUME NEW i \in 1..(n + 1)
               PROVE  /\ t[i].first = IF i = 1 THEN 0 ELSE t[i - 1].last
                      /\ t[i].first < t[i].last
    BY <1>2 DEF Tiled
  <2>1. CASE i \in 1..n
    <3>1. t[i] = s[i] /\ (i = 1 \/ t[i - 1] = s[i - 1])
      BY <2>1, <1>1, <1>5
    <3>2. /\ s[i].first = IF i = 1 THEN 0 ELSE s[i - 1].last
          /\ s[i].first < s[i].last
      BY <2>1, <1>2 DEF Tiled
    <3> QED BY <3>1, <3>2
  <2>2. CASE i = n + 1
    <3>1. CASE n = 0
      BY <2>2, <3>1, <1>1, <1>2, SMT DEF End
    <3>2. CASE n # 0
      <4>1. i # 1 /\ i - 1 = n /\ t[i] = e
        BY <2>2, <3>2, <1>1, SMT
      <4>2. e.first = t[n].last
        BY <3>2, <1>2, <1>3 DEF End, n
      <4> QED BY <4>1, <4>2
    <3> QED BY <3>1, <3>2
  <2> QED BY <2>1, <2>2, <1>4
<1>7. AllKnown(t) <=> e.kind \in Kind
  <2>1. \A i \in 1..n : t[i].kind \in Kind
    BY <1>1, <1>2 DEF AllKnown
  <2>2. n + 1 \in 1..(n + 1)
    BY <1>1, SMT
  <2> QED BY <2>1, <2>2, <1>1, <1>2, <1>4, Zenon DEF AllKnown
<1>8. Linked(t)
  <2> SUFFICES ASSUME NEW i \in 1..(n + 1)
               PROVE  /\ i < n + 1 => t[i].kind \in Kind
                      /\ t[i].kind \in Kind =>
                           i = 1 \/ t[i].sequence = Successor(t[i - 1].sequence)
    BY <1>1, <1>2 DEF Linked
  <2>1. CASE i \in 1..n
    BY <2>1, <1>1, <1>2, <1>5, Zenon DEF Linked, AllKnown
  <2>2. CASE i = n + 1
    <3>1. ~(i < n + 1) /\ t[i] = e
      BY <2>2, <1>1, SMT
    <3>2. CASE n = 0
      BY <2>2, <3>1, <3>2, <1>1, SMT
    <3>3. CASE n # 0
      <4>1. i - 1 = n /\ t[n] = s[n] /\ s # <<>>
        BY <2>2, <3>3, <1>1, <1>2, <1>3, SMT
      <4> QED BY <4>1, <3>1, Zenon DEF n
    <3> QED BY <3>2, <3>3
  <2> QED BY <2>1, <2>2, <1>4
<1> QED BY <1>1, <1>6, <1>7, <1>8, Zenon DEF End, t

\* A record of other quality and offset tells the same of the payload.
LEMMA SameRecords ==
  ASSUME NEW s \in Seq(Entry), NEW t \in Seq(Entry), Len(t) = Len(s),
         \A i \in DOMAIN s : /\ t[i].first = s[i].first /\ t[i].last = s[i].last
                             /\ t[i].kind = s[i].kind /\ t[i].sequence = s[i].sequence
  PROVE  /\ Tiled(s) => Tiled(t)
         /\ Linked(s) => Linked(t)
         /\ AllKnown(s) <=> AllKnown(t)
         /\ End(t) = End(s)
         /\ t = <<>> <=> s = <<>>
         /\ s # <<>> => t[Len(t)].kind = s[Len(s)].kind
<1> DEFINE n == Len(s)
<1>1. /\ n \in Nat /\ DOMAIN s = 1..n /\ DOMAIN t = 1..n
      /\ (s = <<>> <=> n = 0) /\ (t = <<>> <=> n = 0)
  BY LenProperties, EmptySeq, SMT
<1> HIDE DEF n
<1>2. \A i \in 1..n : i = 1 \/ i - 1 \in 1..n
  BY <1>1, SMT
<1>3. n # 0 => n \in 1..n
  BY <1>1, SMT
<1>4. Tiled(s) => Tiled(t)
  BY <1>1, <1>2, Zenon DEF Tiled
<1>5. Linked(s) => Linked(t)
  BY <1>1, <1>2, Zenon DEF Linked, n
<1>6. AllKnown(s) <=> AllKnown(t)
  BY <1>1, Zenon DEF AllKnown
<1>7. End(t) = End(s) /\ (s # <<>> => t[Len(t)].kind = s[Len(s)].kind)
  BY <1>1, <1>3, Zenon DEF End, n
<1> QED BY <1>1, <1>4, <1>5, <1>6, <1>7

\* The step that ends the pass at a record it cannot decode.
LEMMA StopKeeps ==
  ASSUME TypeOK, PassInv, NEW kind \in Untrusted, NEW h,
         h.sequence \in Sequence \cup {None}, h.clock \in Int,
         Stop(kind, h), phase = "decode", position < length
  PROVE  /\ Tiled(records') /\ Linked(records') /\ End(records') = length
         /\ ~AllKnown(records') /\ records' # <<>>
         /\ records'[Len(records')].kind = kind
<1> DEFINE e == Found(kind, h.sequence, h.clock, FALSE, length)
<1>1. FALSE \in BOOLEAN
  BY Zenon
<1>2. length \in Nat /\ position \in Nat
  BY ConstantsTyped, SMT DEF TypeOK
<1>3. e \in Entry
  BY <1>1, <1>2, FoundTyped
<1>4. /\ e.first = position /\ e.last = length /\ e.kind = kind
      /\ records' = Append(records, e)
  BY DEF Found, Stop
<1>5. kind \notin Kind
  BY ConstantsTyped
<1>6. /\ records \in Seq(Entry) /\ Tiled(records) /\ Linked(records)
      /\ AllKnown(records) /\ End(records) = position
  BY DEF TypeOK, PassInv
<1> HIDE DEF e
<1> QED BY <1>3, <1>4, <1>5, <1>6, OneMore

\* And the step that goes on behind a decoded one.
LEMMA DecodedKeeps ==
  ASSUME TypeOK, PassInv, NEW h \in Header, Decoded(h)
  PROVE  /\ Tiled(records') /\ Linked(records') /\ End(records') = position'
         /\ AllKnown(records') /\ records' # <<>>
         /\ records'[Len(records')].sequence = h.sequence
<1> DEFINE e == Found(h.kind, h.sequence, h.clock, h.valid, position')
<1>1. e \in Entry /\ position < position'
  BY DecodedTyped
<1>2. /\ e.first = position /\ e.last = position' /\ e.kind = h.kind
      /\ e.sequence = h.sequence /\ records' = Append(records, e)
  BY DEF Found, Decoded
<1>3. h.kind \in Kind /\ phase = "decode" /\ (expected = None \/ expected = h.sequence)
  BY DEF Decoded, HasHeader, Continues
<1>4. /\ records \in Seq(Entry) /\ Tiled(records) /\ Linked(records)
      /\ AllKnown(records) /\ End(records) = position
      /\ expected = IF records = <<>> THEN None
                    ELSE Successor(records[Len(records)].sequence)
  BY <1>3 DEF TypeOK, PassInv
<1>5. records = <<>> \/ h.sequence = Successor(records[Len(records)].sequence)
  <2> SUFFICES ASSUME records # <<>>
               PROVE  h.sequence = Successor(records[Len(records)].sequence)
    OBVIOUS
  <2>1. expected # None
    BY <1>3 DEF PassInv
  <2> QED BY <2>1, <1>3, <1>4
<1> HIDE DEF e
<1> QED BY <1>1, <1>2, <1>3, <1>4, <1>5, OneMore

\* The list with which the pass begins.
LEMMA EmptyRecords == Tiled(<<>>) /\ Linked(<<>>) /\ AllKnown(<<>>) /\ End(<<>>) = 0
<1>1. DOMAIN <<>> = {}
  BY EmptySeq, SMT
<1> QED BY <1>1, Zenon DEF Tiled, Linked, AllKnown, End

\* No record, and no way to stop, breaks the invariant of the pass.
LEMMA PassInvKept == TypeOK /\ PassInv /\ [Next]_vars => PassInv'
<1> SUFFICES ASSUME TypeOK, PassInv, [Next]_vars PROVE PassInv'
  OBVIOUS
<1>1. CASE \E size \in 0..MaxLength : Receive(size)
  <2>1. /\ records' = <<>> /\ phase' = "decode" /\ position' = 0 /\ expected' = None
        /\ ~truncated' /\ ~unknown_tail'
    BY <1>1 DEF Receive
  <2> QED BY <2>1, EmptyRecords DEF PassInv, StatusHonest
<1>2. CASE TruncatedHeader
  <2> DEFINE h == [sequence |-> None, clock |-> 0]
  <2>1. /\ Stop("truncated_header", h) /\ h.sequence \in Sequence \cup {None}
        /\ h.clock \in Int /\ "truncated_header" \in Untrusted
        /\ phase = "decode" /\ position < length
    BY <1>2, SMT DEF TruncatedHeader, Untrusted
  <2> HIDE DEF h
  <2>2. /\ Tiled(records') /\ Linked(records') /\ End(records') = length
        /\ ~AllKnown(records') /\ records' # <<>>
        /\ records'[Len(records')].kind = "truncated_header"
    BY <2>1, StopKeeps, Zenon
  <2>3. phase' = "anchor" /\ length' = length /\ truncated' /\ ~unknown_tail'
    BY <1>2, <2>1 DEF TruncatedHeader, Stop, PassInv
  <2>4. StatusHonest'
    BY <2>2, <2>3 DEF StatusHonest, AllKnown
  <2> QED BY <2>2, <2>3, <2>4 DEF PassInv
<1>3. ASSUME NEW h \in Header, Discontinuity(h) PROVE PassInv'
  <2>1. /\ Stop("sequence_discontinuity", h) /\ h.sequence \in Sequence \cup {None}
        /\ h.clock \in Int /\ "sequence_discontinuity" \in Untrusted
        /\ phase = "decode" /\ position < length
    BY <1>3, HeaderTyped, ConstantsTyped, SMT DEF Discontinuity, HasHeader, Untrusted, TypeOK
  <2>2. /\ Tiled(records') /\ Linked(records') /\ End(records') = length
        /\ ~AllKnown(records') /\ records' # <<>>
        /\ records'[Len(records')].kind = "sequence_discontinuity"
    BY <2>1, StopKeeps, Zenon
  <2>3. phase' = "anchor" /\ length' = length /\ ~truncated' /\ unknown_tail'
    BY <1>3, <2>1 DEF Discontinuity, Stop, PassInv
  <2>4. StatusHonest'
    BY <2>2, <2>3 DEF StatusHonest, AllKnown
  <2> QED BY <2>2, <2>3, <2>4 DEF PassInv
<1>4. ASSUME NEW h \in Header, Unknown(h) PROVE PassInv'
  <2>1. /\ Stop("unknown", h) /\ h.sequence \in Sequence \cup {None}
        /\ h.clock \in Int /\ "unknown" \in Untrusted
        /\ phase = "decode" /\ position < length
    BY <1>4, HeaderTyped, ConstantsTyped, SMT DEF Unknown, HasHeader, Untrusted, TypeOK
  <2>2. /\ Tiled(records') /\ Linked(records') /\ End(records') = length
        /\ ~AllKnown(records')
    BY <2>1, StopKeeps, Zenon
  <2>3. /\ phase' = "anchor" /\ length' = length /\ ~truncated' /\ unknown_tail'
        /\ expected' # None
    BY <1>4, <2>1, HeaderTyped, ConstantsTyped DEF Unknown, Stop, PassInv
  <2>4. StatusHonest'
    BY <2>2, <2>3 DEF StatusHonest, AllKnown
  <2> QED BY <2>2, <2>3, <2>4 DEF PassInv
<1>5. ASSUME NEW h \in Header, TruncatedRecord(h) PROVE PassInv'
  <2>1. /\ Stop("truncated_record", h) /\ h.sequence \in Sequence \cup {None}
        /\ h.clock \in Int /\ "truncated_record" \in Untrusted
        /\ phase = "decode" /\ position < length
    BY <1>5, HeaderTyped, ConstantsTyped, SMT
       DEF TruncatedRecord, HasHeader, Untrusted, TypeOK
  <2>2. /\ Tiled(records') /\ Linked(records') /\ End(records') = length
        /\ ~AllKnown(records')
    BY <2>1, StopKeeps, Zenon
  <2>3. /\ phase' = "anchor" /\ length' = length /\ truncated' /\ ~unknown_tail'
        /\ expected' # None
    BY <1>5, <2>1, HeaderTyped, ConstantsTyped DEF TruncatedRecord, Stop, PassInv
  <2>4. StatusHonest'
    BY <2>2, <2>3 DEF StatusHonest, AllKnown
  <2> QED BY <2>2, <2>3, <2>4 DEF PassInv
<1>6. ASSUME NEW h \in Header, Decoded(h) PROVE PassInv'
  <2>1. /\ Tiled(records') /\ Linked(records') /\ End(records') = position'
        /\ AllKnown(records') /\ records' # <<>>
        /\ records'[Len(records')].sequence = h.sequence
    BY <1>6, DecodedKeeps
  <2>2. /\ phase' = "decode" /\ ~truncated' /\ ~unknown_tail'
        /\ expected' = Successor(h.sequence) /\ expected' # None
    BY <1>6, HeaderTyped, ConstantsTyped DEF Decoded, HasHeader, PassInv
  <2> QED BY <2>1, <2>2 DEF PassInv, StatusHonest
<1>7. CASE EndOfPayload
  <2>1. /\ phase = "decode" /\ phase' = "anchor" /\ position = length
        /\ UNCHANGED <<length, position, records, expected, truncated, unknown_tail>>
    BY <1>7 DEF EndOfPayload
  <2> QED BY <2>1 DEF PassInv, StatusHonest, AllKnown
<1>8. CASE AnchorSampleTimes
  <2>1. /\ phase = "anchor" /\ phase' = "done"
        /\ UNCHANGED <<length, position, expected, truncated, unknown_tail>>
    BY <1>8 DEF AnchorSampleTimes
  <2>2. /\ records' \in Seq(Entry) /\ records \in Seq(Entry) /\ Len(records') = Len(records)
        /\ \A i \in DOMAIN records : records'[i] = Anchored(i)
    BY <1>8, AnchorSampleTimesTyped DEF TypeOK
  <2>3. \A i \in DOMAIN records :
          /\ records'[i].first = records[i].first /\ records'[i].last = records[i].last
          /\ records'[i].kind = records[i].kind
          /\ records'[i].sequence = records[i].sequence
    BY <2>2, AnchoredKeeps
  <2>4. /\ Tiled(records) => Tiled(records')
        /\ Linked(records) => Linked(records')
        /\ AllKnown(records) <=> AllKnown(records')
        /\ End(records') = End(records)
        /\ records' = <<>> <=> records = <<>>
        /\ records # <<>> => records'[Len(records')].kind = records[Len(records)].kind
    BY <2>2, <2>3, SameRecords
  <2>5. StatusHonest'
    BY <2>1, <2>4, Zenon DEF PassInv, StatusHonest, AllKnown
  <2> QED BY <2>1, <2>4, <2>5 DEF PassInv
<1>9. CASE UNCHANGED vars
  BY <1>9 DEF vars, PassInv, StatusHonest
<1> QED BY <1>1, <1>2, <1>3, <1>4, <1>5, <1>6, <1>7, <1>8, <1>9 DEF Next, Read

\* Throughout decode_data_buf the records found so far tile the payload up to
\* the position, follow in sequence, and are all of known types.
THEOREM PassInvariant == Spec => []PassInv
<1>1. Init => PassInv
  BY EmptyRecords DEF Init, PassInv, StatusHonest
<1> QED BY <1>1, TypeCorrect, PassInvKept, PTL DEF Spec

\* StatusHonest: decode_status says "complete" only of a batch that was.
THEOREM StatusIsHonest == Spec => []StatusHonest
<1>1. PassInv => StatusHonest
  BY DEF PassInv
<1> QED BY <1>1, PassInvariant, PTL

\* Lossless: no byte of a response is dropped or kept twice.
THEOREM NoByteLost == Spec => []Lossless
<1>1. PassInv => Lossless
  BY DEF PassInv, Lossless, Tiled, Covered, End
<1> QED BY <1>1, PassInvariant, PTL

\* ProjectedFromUnbroken: nothing is announced as a measurement from behind a
\* gap, an unknown record or a cut.
THEOREM OnlyUnbrokenProjected == Spec => []ProjectedFromUnbroken
<1>1. TypeOK /\ PassInv => ProjectedFromUnbroken
  <2> SUFFICES ASSUME TypeOK, PassInv, NEW i \in DOMAIN records, Projected(records[i])
               PROVE  /\ \A j \in 1..i : records[j].kind \in Kind
                      /\ \A j \in 2..i : records[j].sequence = Successor(records[j - 1].sequence)
    BY DEF ProjectedFromUnbroken
  <2>1. Len(records) \in Nat /\ DOMAIN records = 1..Len(records) /\ records[i] \in Entry
    BY LenProperties, ElementOfSeq DEF TypeOK
  <2>2. records[i].kind \in Kind
    <3>1. records[i].kind \in Kind \cup Untrusted
      BY <2>1, Zenon DEF Entry
    <3>2. records[i].kind \notin Untrusted
      BY SMT DEF Projected, Untrusted
    <3> QED BY <3>1, <3>2
  <2>3. /\ \A j \in 1..i : j \in DOMAIN records /\ (j = i \/ j < Len(records))
        /\ \A j \in 2..i : j \in 1..i /\ j # 1
    BY <2>1, SMT
  <2>4. \A j \in 1..i : records[j].kind \in Kind
    BY <2>2, <2>3, Zenon DEF PassInv, Linked
  <2> QED BY <2>3, <2>4, Zenon DEF PassInv, Linked
<1> QED BY <1>1, TypeCorrect, PassInvariant, PTL

-----------------------------------------------------------------------------
(* Times. *)

\* The records that have a place in time, and the last of them, are the same
\* when every record has its place.
LEMMA SameAnchor ==
  ASSUME TypeOK, AnchorSampleTimes
  PROVE  Anchorable' = Anchorable /\ Anchor' = Anchor
<1>1. /\ DOMAIN records' = DOMAIN records
      /\ \A i \in DOMAIN records : records'[i].kind = records[i].kind
  BY AnchorSampleTimesTyped, AnchoredKeeps DEF TypeOK
<1>2. Anchorable' = Anchorable
  BY <1>1, Zenon DEF Anchorable
<1> QED BY <1>2, Zenon DEF Anchor

\* TimesTrue: two samples of a batch are as far apart as on the device's clock.
THEOREM TimesAreTrue == Spec => []TimesTrue
<1>1. Init => TimesTrue
  BY DEF Init, TimesTrue
<1>2. TypeOK /\ TimesTrue /\ [Next]_vars => TimesTrue'
  <2> SUFFICES ASSUME TypeOK, TimesTrue, [Next]_vars PROVE TimesTrue'
    OBVIOUS
  <2>1. CASE AnchorSampleTimes
    <3> SUFFICES ASSUME NEW i \in Anchorable', Near(i)'
                 PROVE  LET distance == records'[i].clock - records'[Anchor'].clock
                        IN  IF InWindow(distance)
                            THEN /\ records'[i].quality = "batch_relative"
                                 /\ records'[i].offset = distance
                            ELSE records'[i].quality = "invalid_tick"
      BY Zenon DEF TimesTrue
    <3> DEFINE a == records[i].clock
               b == records[Anchor].clock
               r == records[i]
    <3>1. /\ i \in Anchorable /\ Anchor \in Anchorable /\ Anchor' = Anchor
          /\ i \in DOMAIN records /\ Anchor \in DOMAIN records
      BY <2>1, SameAnchor, AnchorExists DEF TypeOK, Anchorable
    <3>2. /\ records'[i] = Anchored(i)
          /\ records'[i].clock = a /\ records'[Anchor'].clock = b
      BY <2>1, <3>1, AnchorSampleTimesTyped, AnchoredKeeps DEF TypeOK
    <3>3. r \in Entry /\ a \in Int /\ b \in Int
      <4>1. \A j \in DOMAIN records : records[j] \in Entry
        BY LenProperties, ElementOfSeq DEF TypeOK
      <4>2. \A e \in Entry : e.clock \in Int
        BY SMT DEF Entry
      <4> QED BY <3>1, <4>1, <4>2, Zenon
    <3>4. -HalfRing <= a - b /\ a - b < HalfRing
      BY <3>2 DEF Near
    <3>5. Delta(Tick(a), Tick(b)) = a - b
      BY <3>3, <3>4, DeltaIsDistance
    <3>6. records'[i] = IF InWindow(a - b)
                        THEN [r EXCEPT !.quality = "batch_relative", !.offset = a - b]
                        ELSE [r EXCEPT !.quality = "invalid_tick"]
      BY <3>1, <3>2, <3>5, Zenon DEF Anchored
    <3> HIDE DEF a, b, r
    <3>7. \A d \in Int :
            /\ [r EXCEPT !.quality = "batch_relative", !.offset = d].quality = "batch_relative"
            /\ [r EXCEPT !.quality = "batch_relative", !.offset = d].offset = d
            /\ [r EXCEPT !.quality = "invalid_tick"].quality = "invalid_tick"
      BY <3>3, SMT DEF Entry
    <3>8. a - b \in Int
      BY <3>3
    <3> QED BY <3>2, <3>6, <3>7, <3>8, Zenon
  <2>2. ASSUME ~AnchorSampleTimes PROVE TimesTrue'
    <3>1. phase' # "done" \/ UNCHANGED vars
      BY <2>2 DEF Next, Read, Receive, TruncatedHeader, Discontinuity, Unknown,
         TruncatedRecord, Decoded, Stop, HasHeader, EndOfPayload
    <3> QED BY <3>1 DEF TimesTrue, Near, Anchor, Anchorable, vars
  <2> QED BY <2>1, <2>2
<1> QED BY <1>1, <1>2, TypeCorrect, PTL DEF Spec
=============================================================================
