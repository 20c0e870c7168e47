-------------------------- MODULE SpectrumRollupProofs --------------------------
(***************************************************************************)
(* Proofs about SpectrumRollup, for every value of its constants.          *)
(*                                                                         *)
(* Segments and sums are recursive functions: what they are for every      *)
(* finite set is proved by induction over its subsets, stated for a set of *)
(* subsets (SubsetInduction) rather than a predicate.                      *)
(***************************************************************************)
EXTENDS SpectrumRollup, FiniteSetTheorems, SequenceTheorems, TLAPS

-----------------------------------------------------------------------------
(* Buckets. *)

\* A resolution has a positive length.
LEMMA LengthPositive == \A res \in Resolutions : Length(res) \in Nat \ {0}
BY LengthsAssumption DEF Resolutions, Length

\* _bucket and _resolution_floor: the start of a bucket lies less than its
\* length before every time in it.
LEMMA FloorBounds ==
  ASSUME NEW time \in Int, NEW res \in Resolutions
  PROVE  /\ Floor(time, res) \in Int
         /\ Floor(time, res) <= time
         /\ time < Floor(time, res) + Length(res)
<1> DEFINE length == Length(res)
<1>1. length \in Nat \ {0}
  BY LengthPositive
<1> HIDE DEF length
<1>2. /\ (time \div length) * length \in Int
      /\ (time \div length) * length <= time
      /\ time < (time \div length) * length + length
  BY <1>1, SMTT(60)
<1> QED
  BY <1>2 DEF Floor, length

\* A time that is the start of a bucket separates whole buckets.
LEMMA BorderSeparatesBuckets ==
  ASSUME NEW time \in Int, NEW res \in Resolutions, NEW k \in Int
  PROVE  k * Length(res) <= time <=> k * Length(res) <= Floor(time, res)
<1> DEFINE length == Length(res)
           q == time \div length
<1>1. length \in Nat \ {0}
  BY LengthPositive
<1> HIDE DEF length
<1>2. /\ q \in Int
      /\ q * length <= time
      /\ time < (q + 1) * length
  BY <1>1, SMTT(60)
<1> HIDE DEF q
<1>3. CASE k <= q
  <2>1. k * length <= q * length
    BY <1>1, <1>2, <1>3, SMTT(60)
  <2>2. k * length \in Int /\ q * length \in Int
    BY <1>1, <1>2
  <2>3. k * length <= time
    BY <2>1, <2>2, <1>2
  <2> QED
    BY <2>1, <2>3 DEF Floor, length, q
<1>4. CASE ~(k <= q)
  <2>1. k >= q + 1
    BY <1>2, <1>4
  <2>2. k * length >= (q + 1) * length
    BY <1>1, <1>2, <2>1, SMTT(60)
  <2>3. (q + 1) * length > q * length
    BY <1>1, <1>2, SMTT(60)
  <2>4. k * length \in Int /\ q * length \in Int /\ (q + 1) * length \in Int
    BY <1>1, <1>2
  <2>5. ~(k * length <= time) /\ ~(k * length <= q * length)
    BY <1>2, <2>2, <2>3, <2>4
  <2> QED
    BY <2>5 DEF Floor, length, q
<1> QED
  BY <1>3, <1>4

\* _resolution_ceil is a border, not before the time and less than a length after.
LEMMA CeilBounds ==
  ASSUME NEW time \in Int, NEW res \in Resolutions
  PROVE  /\ Ceil(time, res) \in Int
         /\ time <= Ceil(time, res)
         /\ \E k \in Int : Ceil(time, res) = k * Length(res)
<1> DEFINE length == Length(res)
           q == time \div length
<1>1. length \in Nat \ {0}
  BY LengthPositive
<1>2. /\ Floor(time, res) \in Int
      /\ Floor(time, res) <= time
      /\ time < Floor(time, res) + length
  BY FloorBounds
<1>3. Floor(time, res) = q * length
  BY DEF Floor
<1> HIDE DEF length
<1>4. q \in Int
  BY <1>1, SMTT(60)
<1> HIDE DEF q
<1>5. q * length + length = (q + 1) * length
  BY <1>1, <1>4, SMTT(60)
<1>6. CASE time = Floor(time, res)
  BY <1>3, <1>4, <1>6 DEF Ceil, length
<1>7. CASE time # Floor(time, res)
  <2>1. Ceil(time, res) = Floor(time, res) + length
    BY <1>7 DEF Ceil, length
  <2>2. Ceil(time, res) = (q + 1) * length
    BY <2>1, <1>3, <1>5
  <2>3. q + 1 \in Int
    BY <1>4
  <2>4. Ceil(time, res) \in Int /\ time <= Ceil(time, res)
    BY <2>1, <1>1, <1>2
  <2> QED
    BY <2>2, <2>3, <2>4 DEF length
<1> QED
  BY <1>6, <1>7

-----------------------------------------------------------------------------
(* The ranges of a request. *)

\* What the ranges of a request are built from.
Borders(start, end, res) ==
  /\ Ceil(start, res) \in Int
  /\ RollupEnd(start, end, res) \in Int
  /\ start <= Ceil(start, res)
  /\ Ceil(start, res) <= RollupEnd(start, end, res)
  /\ RollupEnd(start, end, res) <= end \/ RollupEnd(start, end, res) = Ceil(start, res)

\* The rollups of a request lie inside it, or there are none.
LEMMA RequestBorders ==
  ASSUME NEW start \in Int, NEW end \in Int, NEW res \in Resolutions
  PROVE  Borders(start, end, res)
<1>1. Ceil(start, res) \in Int /\ start <= Ceil(start, res)
  BY CeilBounds
<1>2. Floor(end, res) \in Int /\ Floor(end, res) <= end
  BY FloorBounds
<1>3. Length(res) \in Nat \ {0}
  BY LengthPositive
<1> QED
  BY <1>1, <1>2, <1>3 DEF Borders, RollupEnd, Larger

\* No rollup is used and one raw range is the request, or the raw ranges are what
\* is left of the request before and after the rollups' range.
RangesShape(start, end, res) ==
  LET c == Ceil(start, res)
      b == RollupEnd(start, end, res)
  IN /\ RollupRange(start, end, res) = [from |-> c, to |-> b]
     /\ \/ /\ b = c
           /\ RawRanges(start, end, res) = {[from |-> start, to |-> end]}
        \/ /\ c < end /\ b <= end
           /\ RawRanges(start, end, res)
                = {r \in {[from |-> start, to |-> c], [from |-> b, to |-> end]} :
                     r.from < r.to}

\* add_raw_range: joining two ranges that touch leaves one of the two shapes.
LEMMA RequestShape ==
  ASSUME NEW start \in Int, NEW end \in Int, start < end, NEW res \in Resolutions
  PROVE  RangesShape(start, end, res)
<1> DEFINE c == Ceil(start, res)
           b == RollupEnd(start, end, res)
<1>1. /\ c \in Int /\ b \in Int /\ start <= c /\ c <= b
      /\ b <= end \/ b = c
  BY RequestBorders DEF Borders
<1>2. /\ RollupRange(start, end, res) = [from |-> c, to |-> b]
      /\ HeadRange(start, end, res) = [from |-> start, to |-> Smaller(c, end)]
      /\ TailRange(start, end, res) = [from |-> Larger(b, start), to |-> end]
  BY DEF RollupRange, HeadRange, TailRange
<1>3. SUFFICES
        \/ b = c /\ RawRanges(start, end, res) = {[from |-> start, to |-> end]}
        \/ /\ c < end /\ b <= end
           /\ RawRanges(start, end, res)
                = {r \in {[from |-> start, to |-> c], [from |-> b, to |-> end]} :
                     r.from < r.to}
  BY <1>2 DEF RangesShape
<1> HIDE DEF c, b
<1>4. Larger(b, start) = b
  BY <1>1 DEF Larger
<1>5. CASE end <= c
  <2> DEFINE head == HeadRange(start, end, res)
             tail == TailRange(start, end, res)
  <2>1. b = c /\ Smaller(c, end) = end
    BY <1>1, <1>5 DEF Smaller
  <2>2. head = [from |-> start, to |-> end] /\ tail = [from |-> b, to |-> end]
    BY <1>2, <1>4, <2>1
  <2>3. head.from < head.to /\ ~(tail.from < tail.to)
    BY <1>1, <1>5, <2>1, <2>2
  <2>4. RawRanges(start, end, res) = {r \in {head, tail} : r.from < r.to}
    BY <2>3 DEF RawRanges
  <2> HIDE DEF head, tail
  <2>5. {r \in {head, tail} : r.from < r.to} = {head}
    BY <2>3
  <2> QED
    BY <2>1, <2>2, <2>4, <2>5
<1>6. CASE c < end
  <2>1. b <= end
    BY <1>1, <1>6
  <2>2. Smaller(c, end) = c
    BY <1>1, <1>6 DEF Smaller
  <2>3. CASE b <= c /\ start < c
    <3>1. RawRanges(start, end, res) = {[from |-> start, to |-> end]}
      BY <1>1, <1>2, <1>4, <1>6, <2>1, <2>2, <2>3 DEF RawRanges, Larger
    <3>2. b = c
      BY <1>1, <2>3
    <3> QED
      BY <3>1, <3>2
  <2>4. CASE ~(b <= c /\ start < c)
    <3>1. RawRanges(start, end, res)
            = {r \in {[from |-> start, to |-> c], [from |-> b, to |-> end]} :
                 r.from < r.to}
      BY <1>1, <1>2, <1>4, <1>6, <2>1, <2>2, <2>4 DEF RawRanges
    <3> QED
      BY <1>6, <2>1, <3>1
  <2> QED
    BY <2>3, <2>4
<1> QED
  BY <1>1, <1>5, <1>6

\* spectra(): a time belongs to the request exactly if the rollups' range or a
\* raw range holds it, so no part of the request is left out or added.
THEOREM RequestCovered ==
  ASSUME NEW start \in Int, NEW end \in Int, start < end,
         NEW time \in Int, NEW res \in Resolutions
  PROVE  Within(time, [from |-> start, to |-> end])
           <=> \/ Within(time, RollupRange(start, end, res))
               \/ \E r \in RawRanges(start, end, res) : Within(time, r)
<1> DEFINE c == Ceil(start, res)
           b == RollupEnd(start, end, res)
           all == [from |-> start, to |-> end]
           head == [from |-> start, to |-> c]
           tail == [from |-> b, to |-> end]
<1>1. c \in Int /\ b \in Int /\ start <= c /\ c <= b
  BY RequestBorders DEF Borders
<1>2. /\ RollupRange(start, end, res) = [from |-> c, to |-> b]
      /\ \/ b = c /\ RawRanges(start, end, res) = {all}
         \/ /\ c < end /\ b <= end
            /\ RawRanges(start, end, res) = {r \in {head, tail} : r.from < r.to}
  BY RequestShape DEF RangesShape
<1> HIDE DEF c, b
<1>3. /\ Within(time, RollupRange(start, end, res)) <=> c <= time /\ time < b
      /\ Within(time, all) <=> start <= time /\ time < end
      /\ Within(time, head) <=> start <= time /\ time < c
      /\ Within(time, tail) <=> b <= time /\ time < end
  BY <1>2 DEF Within
<1>4. /\ Within(time, head) => head.from < head.to
      /\ Within(time, tail) => tail.from < tail.to
  BY <1>1 DEF Within
<1> HIDE DEF all, head, tail
<1>5. CASE b = c /\ RawRanges(start, end, res) = {all}
  <2>1. ~Within(time, RollupRange(start, end, res))
    BY <1>1, <1>3, <1>5
  <2> QED
    BY <1>5, <2>1 DEF all
<1>6. CASE /\ c < end /\ b <= end
           /\ RawRanges(start, end, res) = {r \in {head, tail} : r.from < r.to}
  <2>1. (\E r \in RawRanges(start, end, res) : Within(time, r))
          <=> Within(time, head) \/ Within(time, tail)
    BY <1>4, <1>6, Zenon
  <2>2. Within(time, all)
          <=> \/ Within(time, RollupRange(start, end, res))
              \/ Within(time, head) \/ Within(time, tail)
    BY <1>1, <1>3, <1>6
  <2> QED
    BY <2>1, <2>2 DEF all
<1> QED
  BY <1>2, <1>5, <1>6

\* spectra(): no time is read twice, neither from the rollups and a raw range nor
\* from two raw ranges, so no frame is counted twice.
THEOREM RequestReadOnce ==
  ASSUME NEW start \in Int, NEW end \in Int, start < end,
         NEW time \in Int, NEW res \in Resolutions,
         NEW r \in RawRanges(start, end, res), Within(time, r)
  PROVE  /\ ~Within(time, RollupRange(start, end, res))
         /\ \A other \in RawRanges(start, end, res) :
              Within(time, other) => other = r
<1> DEFINE c == Ceil(start, res)
           b == RollupEnd(start, end, res)
           all == [from |-> start, to |-> end]
           head == [from |-> start, to |-> c]
           tail == [from |-> b, to |-> end]
<1>1. c \in Int /\ b \in Int /\ start <= c /\ c <= b
  BY RequestBorders DEF Borders
<1>2. /\ RollupRange(start, end, res) = [from |-> c, to |-> b]
      /\ \/ b = c /\ RawRanges(start, end, res) = {all}
         \/ /\ c < end /\ b <= end
            /\ RawRanges(start, end, res) = {q \in {head, tail} : q.from < q.to}
  BY RequestShape DEF RangesShape
<1> HIDE DEF c, b
<1>3. /\ Within(time, RollupRange(start, end, res)) <=> c <= time /\ time < b
      /\ Within(time, head) <=> start <= time /\ time < c
      /\ Within(time, tail) <=> b <= time /\ time < end
  BY <1>2 DEF Within
<1> HIDE DEF all, head, tail
<1>4. CASE b = c /\ RawRanges(start, end, res) = {all}
  <2>1. ~Within(time, RollupRange(start, end, res))
    BY <1>1, <1>3, <1>4
  <2> QED
    BY <1>4, <2>1
<1>5. CASE RawRanges(start, end, res) = {q \in {head, tail} : q.from < q.to}
  <2>1. ~(Within(time, head) /\ Within(time, tail))
    BY <1>1, <1>3
  <2>2. /\ Within(time, head) => ~Within(time, RollupRange(start, end, res))
        /\ Within(time, tail) => ~Within(time, RollupRange(start, end, res))
    BY <1>1, <1>3
  <2>3. \A other \in RawRanges(start, end, res) : other = head \/ other = tail
    BY <1>5
  <2>4. r = head \/ r = tail
    BY <2>3
  <2> QED
    BY <2>1, <2>2, <2>3, <2>4, Zenon
<1> QED
  BY <1>2, <1>4, <1>5

-----------------------------------------------------------------------------
(* Induction, and folds over finite sets. *)

\* Induction over the subsets of a finite set, for a set of them.
LEMMA SubsetInduction ==
  ASSUME NEW S, IsFiniteSet(S), NEW Good \in SUBSET SUBSET S,
         \A U \in SUBSET S : (\A V \in SUBSET U : V # U => V \in Good) => U \in Good
  PROVE  Good = SUBSET S
<1>1. SUFFICES ASSUME (SUBSET S) \ Good # {} PROVE FALSE
  OBVIOUS
<1> DEFINE bad == (SUBSET S) \ Good
<1>2. bad \subseteq FiniteSubsetsOf(S) /\ bad # {}
  BY <1>1, FS_FiniteSubsetsOfFinite
<1>3. IsWellFoundedOn(StrictSubsetOrdering(S), FiniteSubsetsOf(S))
  BY FS_StrictSubsetOrderingWellFounded
<1>4. \E U \in bad : \A V \in bad : <<V, U>> \notin StrictSubsetOrdering(S)
  <2> HIDE DEF bad
  <2> QED BY <1>2, <1>3, WFMin, SMT
<1>5. PICK U \in bad : \A V \in bad : <<V, U>> \notin StrictSubsetOrdering(S)
  BY <1>4
<1>6. \A V \in SUBSET U : V # U => V \in Good
  BY <1>5 DEF StrictSubsetOrdering
<1> QED BY <1>5, <1>6

\* Induction over the natural numbers, for a set of them.
LEMMA NumberInduction ==
  ASSUME NEW Good \in SUBSET Nat, 0 \in Good, \A n \in Good : n + 1 \in Good
  PROVE  Good = Nat
<1>1. SUFFICES ASSUME Nat \ Good # {} PROVE FALSE
  OBVIOUS
<1> DEFINE bad == Nat \ Good
<1>a. bad \in SUBSET Nat /\ bad # {}
  BY <1>1
<1>b. \E n \in bad : \A m \in bad : <<m, n>> \notin OpToRel(<, Nat)
  <2> HIDE DEF bad
  <2> QED BY <1>a, NatLessThanWellFounded, WFMin, Zenon
<1>2. PICK n \in bad : \A m \in bad : <<m, n>> \notin OpToRel(<, Nat)
  BY <1>b
<1>c. n \in Nat /\ n \notin Good /\ n # 0
  OBVIOUS
<1>3. n - 1 \in Nat /\ n - 1 < n /\ (n - 1) + 1 = n
  BY <1>c, SMT
<1>4. <<n - 1, n>> \in OpToRel(<, Nat)
  BY <1>2, <1>3 DEF OpToRel
<1>5. n - 1 \in Good
  BY <1>2, <1>3, <1>4
<1> QED BY <1>2, <1>3, <1>5

\* g folds step over the subsets of S, taking away what pick names.
IsFold(g, S, base, pick, step) ==
  \A s \in SUBSET S :
    g[s] = IF s = {} THEN base ELSE step[<<g[s \ {pick[s]}], pick[s]>>]

\* A fold over a finite set exists.
LEMMA FoldExists ==
  ASSUME NEW S, IsFiniteSet(S), NEW V, NEW base \in V,
         NEW pick, \A s \in SUBSET S : s # {} => pick[s] \in s,
         NEW step, \A v \in V, x \in S : step[<<v, x>>] \in V
  PROVE  \E g \in [SUBSET S -> V] : IsFold(g, S, base, pick, step)
<1> DEFINE D(n) == {s \in SUBSET S : Cardinality(s) <= n}
           Folds(g, n) == \A s \in D(n) :
             g[s] = IF s = {} THEN base ELSE step[<<g[s \ {pick[s]}], pick[s]>>]
           Good == {n \in Nat : \E g \in [D(n) -> V] : Folds(g, n)}
<1>f. \A s \in SUBSET S : IsFiniteSet(s) /\ Cardinality(s) \in Nat
  BY FS_Subset, FS_CardinalityType
<1>1. 0 \in Good
  <2> DEFINE g == [s \in D(0) |-> base]
  <2>1. \A s \in D(0) : s = {}
    BY <1>f, FS_EmptySet
  <2>2. g \in [D(0) -> V] /\ Folds(g, 0)
    BY <2>1
  <2> QED BY <2>2
<1>2. ASSUME NEW n \in Good PROVE n + 1 \in Good
  <2>1. PICK g \in [D(n) -> V] : Folds(g, n)
    BY <1>2
  <2> DEFINE h == [s \in D(n + 1) |->
                    IF s = {} THEN base ELSE step[<<g[s \ {pick[s]}], pick[s]>>]]
  <2>2. ASSUME NEW s \in D(n + 1), s # {}
        PROVE  s \ {pick[s]} \in D(n) /\ pick[s] \in S
    <3>1. pick[s] \in s
      BY <2>2
    <3>2. Cardinality(s \ {pick[s]}) = Cardinality(s) - 1
      BY <3>1, <1>f, FS_RemoveElement
    <3>3. Cardinality(s) <= n + 1 /\ Cardinality(s) \in Nat /\ n \in Nat
      BY <1>f
    <3>4. Cardinality(s \ {pick[s]}) <= n
      BY <3>2, <3>3
    <3>5. s \ {pick[s]} \in SUBSET S
      OBVIOUS
    <3> QED BY <3>1, <3>4, <3>5
  <2>3. D(n) \subseteq D(n + 1)
    BY <1>f
  <2>4. \A s \in D(n) : h[s] = g[s]
    BY <2>1, <2>3
  <2>5. h \in [D(n + 1) -> V]
    BY <2>2
  <2>6. Folds(h, n + 1)
    BY <2>2, <2>3, <2>4
  <2>7. n + 1 \in Nat
    OBVIOUS
  <2> HIDE DEF h, D, Folds
  <2> QED BY <2>5, <2>6, <2>7
<1>3. Good = Nat
  <2> HIDE DEF Good
  <2>1. Good \in SUBSET Nat
    BY DEF Good
  <2> QED BY <1>1, <1>2, <2>1, NumberInduction, Zenon
<1>4. Cardinality(S) \in Good /\ D(Cardinality(S)) = SUBSET S
  <2>1. \A s \in SUBSET S : Cardinality(s) <= Cardinality(S)
    BY FS_Subset
  <2> QED BY <1>3, <2>1, FS_CardinalityType
<1>5. PICK g \in [D(Cardinality(S)) -> V] : Folds(g, Cardinality(S))
  BY <1>4
<1>6. g \in [SUBSET S -> V]
  BY <1>4, <1>5
<1>7. IsFold(g, S, base, pick, step)
  BY <1>4, <1>5 DEF IsFold
<1> QED BY <1>6, <1>7

-----------------------------------------------------------------------------
(* Sums. *)

Sum(w, S) == MapThenSumSet(LAMBDA x : w[x], S)

\* TotalOf, for any table of frames.
Counted(rows, ids) == MapThenSumSet(LAMBDA f : rows[f].counts, ids)

\* A total is the sum of the counts as a function.
LEMMA CountedIsSum ==
  ASSUME NEW rows, NEW ids
  PROVE  Counted(rows, ids) = Sum([f \in ids |-> rows[f].counts], ids)
<1> DEFINE w == [f \in ids |-> rows[f].counts]
           F(h) == [s \in SUBSET ids |->
                     IF s = {} THEN 0
                     ELSE rows[CHOOSE x \in s : TRUE].counts
                            + h[s \ {CHOOSE x \in s : TRUE}]]
           G(h) == [s \in SUBSET ids |->
                     IF s = {} THEN 0
                     ELSE w[CHOOSE x \in s : TRUE]
                            + h[s \ {CHOOSE x \in s : TRUE}]]
<1>1. ASSUME NEW h PROVE F(h) = G(h)
  OBVIOUS
<1>2. Counted(rows, ids) = (CHOOSE h : h = F(h))[ids]
  BY DEF Counted, MapThenSumSet, MapThenFoldSet
<1>3. Sum(w, ids) = (CHOOSE h : h = G(h))[ids]
  BY DEF Sum, MapThenSumSet, MapThenFoldSet
<1> HIDE DEF F, G, w
<1>4. (CHOOSE h : h = F(h)) = (CHOOSE h : h = G(h))
  BY <1>1
<1> QED BY <1>2, <1>3, <1>4 DEF w

\* One element is taken away after the other.
Adds(g, w, S) ==
  \A s \in SUBSET S :
    g[s] = IF s = {} THEN 0
           ELSE w[CHOOSE x \in s : TRUE] + g[s \ {CHOOSE x \in s : TRUE}]

\* A sum over a finite set adds one element after the other.
LEMMA SumRecursion ==
  ASSUME NEW ids, IsFiniteSet(ids), NEW w, \A x \in ids : w[x] \in Nat
  PROVE  \E g \in [SUBSET ids -> Nat] : Sum(w, ids) = g[ids] /\ Adds(g, w, ids)
<1> DEFINE taken == [s \in SUBSET ids |-> CHOOSE x \in s : TRUE]
           plus == [p \in Nat \X ids |-> w[p[2]] + p[1]]
           F(h) == [s \in SUBSET ids |->
                     IF s = {} THEN 0
                     ELSE w[CHOOSE x \in s : TRUE] + h[s \ {CHOOSE x \in s : TRUE}]]
           iter == CHOOSE h : h = F(h)
<1>1. \A s \in SUBSET ids : s # {} => taken[s] \in s
  OBVIOUS
<1>2. \A v \in Nat, x \in ids : plus[<<v, x>>] = w[x] + v /\ plus[<<v, x>>] \in Nat
  OBVIOUS
<1>3. PICK g \in [SUBSET ids -> Nat] : IsFold(g, ids, 0, taken, plus)
  <2>1. \A v \in Nat, x \in ids : plus[<<v, x>>] \in Nat
    BY <1>2
  <2>2. 0 \in Nat
    OBVIOUS
  <2> HIDE DEF taken, plus, F, iter
  <2> QED BY <1>1, <2>1, <2>2, FoldExists, Zenon
<1>4. \A s \in SUBSET ids : s # {} =>
        plus[<<g[s \ {taken[s]}], taken[s]>>]
          = w[CHOOSE x \in s : TRUE] + g[s \ {CHOOSE x \in s : TRUE}]
  <2> SUFFICES ASSUME NEW s \in SUBSET ids, s # {}
               PROVE  plus[<<g[s \ {taken[s]}], taken[s]>>] = w[taken[s]] + g[s \ {taken[s]}]
    OBVIOUS
  <2>1. taken[s] \in ids /\ s \ {taken[s]} \in SUBSET ids
    BY <1>1
  <2>2. g[s \ {taken[s]}] \in Nat
    BY <1>3, <2>1
  <2> QED BY <1>2, <2>1, <2>2
<1>5. g = F(g)
  BY <1>3, <1>4 DEF IsFold
<1>6. iter = F(iter)
  <2> HIDE DEF F
  <2> QED BY <1>5
<1>7. Sum(w, ids) = iter[ids]
  BY DEF Sum, MapThenSumSet, MapThenFoldSet
<1> HIDE DEF iter
<1>8. \A s \in SUBSET ids : g[s] = iter[s]
  <2> DEFINE Good == {s \in SUBSET ids : g[s] = iter[s]}
  <2>1. ASSUME NEW U \in SUBSET ids, \A V \in SUBSET U : V # U => V \in Good
        PROVE  U \in Good
    <3>1. CASE U = {}
      BY <1>5, <1>6, <3>1
    <3>2. CASE U # {}
      <4> DEFINE x == CHOOSE x \in U : TRUE
      <4>1. x \in U
        BY <3>2
      <4>2. U \ {x} \in Good
        BY <2>1, <4>1
      <4>3. g[U] = w[x] + g[U \ {x}] /\ iter[U] = w[x] + iter[U \ {x}]
        BY <1>5, <1>6, <3>2
      <4> QED BY <4>2, <4>3
    <3> QED BY <3>1, <3>2
  <2>2. Good \in SUBSET SUBSET ids
    OBVIOUS
  <2>3. Good = SUBSET ids
    <3> HIDE DEF Good
    <3> QED BY <2>1, <2>2, SubsetInduction
  <2> QED BY <2>3
<1>9. Sum(w, ids) = g[ids]
  BY <1>7, <1>8
<1>10. Adds(g, w, ids)
  BY <1>5 DEF Adds
<1> QED BY <1>9, <1>10

\* A segment of one frame holds that frame's counts.
LEMMA TotalOfOne ==
  ASSUME NEW f, frames[f].counts \in Nat
  PROVE  TotalOf({f}) = frames[f].counts
<1> DEFINE w == [x \in {f} |-> frames[x].counts]
<1>1. IsFiniteSet({f}) /\ w \in [{f} -> Nat]
  BY FS_Singleton
<1>2. PICK g \in [SUBSET {f} -> Nat] : Sum(w, {f}) = g[{f}] /\ Adds(g, w, {f})
  <2> HIDE DEF w
  <2> QED BY <1>1, SumRecursion
<1>3. (CHOOSE x \in {f} : TRUE) = f /\ {f} \ {f} = {}
  OBVIOUS
<1>4. g[{}] = 0 /\ g[{f}] = w[f] + g[{}]
  BY <1>2, <1>3 DEF Adds
<1>5. Sum(w, {f}) = frames[f].counts
  BY <1>2, <1>4
<1> QED BY <1>5, CountedIsSum DEF TotalOf, Counted

\* Frames stored later change no total.
LEMMA TotalKept ==
  ASSUME NEW ids, \A f \in ids : frames'[f] = frames[f]
  PROVE  TotalOf(ids)' = TotalOf(ids)
<1>1. [f \in ids |-> frames'[f].counts] = [f \in ids |-> frames[f].counts]
  OBVIOUS
<1>2. TotalOf(ids)' = Counted(frames', ids)
  BY DEF TotalOf, Counted, MapThenSumSet, MapThenFoldSet
<1>4. TotalOf(ids) = Counted(frames, ids)
  BY DEF TotalOf, Counted
<1>3. /\ Counted(frames', ids) = Sum([f \in ids |-> frames'[f].counts], ids)
      /\ Counted(frames, ids) = Sum([f \in ids |-> frames[f].counts], ids)
  BY CountedIsSum
<1> QED BY <1>1, <1>2, <1>3, <1>4

\* The sizes of disjoint sets add up to the size of their union.
LEMMA SumOfParts ==
  ASSUME NEW S, IsFiniteSet(S), NEW A, IsFiniteSet(A), NEW part \in [S -> SUBSET A],
         \A x, y \in S : x # y => part[x] \cap part[y] = {}
  PROVE  Sum([x \in S |-> Cardinality(part[x])], S) = Cardinality(UNION {part[x] : x \in S})
<1> DEFINE w == [x \in S |-> Cardinality(part[x])]
           U(s) == UNION {part[x] : x \in s}
<1>f. \A B \in SUBSET A : IsFiniteSet(B) /\ Cardinality(B) \in Nat
  BY FS_Subset, FS_CardinalityType
<1>1. w \in [S -> Nat]
  BY <1>f
<1>2. PICK g \in [SUBSET S -> Nat] : Sum(w, S) = g[S] /\ Adds(g, w, S)
  <2> HIDE DEF w, U
  <2> QED BY <1>1, SumRecursion
<1> DEFINE Good == {s \in SUBSET S : g[s] = Cardinality(U(s))}
<1>3. ASSUME NEW s \in SUBSET S, \A t \in SUBSET s : t # s => t \in Good
      PROVE  s \in Good
  <2>1. CASE s = {}
    <3>1. U(s) = {} /\ Cardinality({}) = 0
      BY <2>1, FS_EmptySet
    <3> QED BY <1>2, <2>1, <3>1 DEF Adds
  <2>2. CASE s # {}
    <3> DEFINE x == CHOOSE x \in s : TRUE
               t == s \ {x}
    <3>1. x \in s
      BY <2>2
    <3>2. t \in Good /\ t \in SUBSET s
      BY <1>3, <3>1
    <3>3. g[s] = w[x] + g[t]
      BY <1>2, <2>2 DEF Adds
    <3> HIDE DEF x
    <3>4. U(s) = part[x] \cup U(t) /\ part[x] \cap U(t) = {}
      BY <3>1
    <3>5. part[x] \in SUBSET A /\ U(t) \in SUBSET A
      BY <3>1
    <3>6. Cardinality(U(s)) = Cardinality(part[x]) + Cardinality(U(t)) - Cardinality({})
      <4> HIDE DEF U, t
      <4>1. IsFiniteSet(part[x]) /\ IsFiniteSet(U(t))
        BY <3>5, <1>f
      <4> QED BY <3>4, <4>1, FS_Union
    <3>7. Cardinality({}) = 0
      BY FS_EmptySet
    <3>8. Cardinality(part[x]) \in Nat /\ Cardinality(U(t)) \in Nat
      <4> HIDE DEF U, t
      <4> QED BY <3>5, <1>f
    <3>9. w[x] = Cardinality(part[x]) /\ g[t] = Cardinality(U(t))
      BY <3>1, <3>2
    <3> HIDE DEF w, U, t
    <3>10. g[s] = Cardinality(U(s))
      BY <3>3, <3>6, <3>7, <3>8, <3>9
    <3> QED BY <3>10
  <2> QED BY <2>1, <2>2
<1>4. Good = SUBSET S
  <2>1. Good \in SUBSET SUBSET S
    OBVIOUS
  <2> HIDE DEF Good
  <2> QED BY <1>3, <2>1, SubsetInduction
<1> QED BY <1>2, <1>4

-----------------------------------------------------------------------------
(* Segments. *)

\* The order of the cursor, within an epoch.
Before(f, g) ==
  \/ frames[f].ended < frames[g].ended
  \/ frames[f].ended = frames[g].ended /\ f < g

\* What the type of the table of frames says.
LEMMA FrameFacts ==
  ASSUME frames \in Seq(Frame)
  PROVE  /\ Len(frames) \in Nat /\ Ids = 1..Len(frames) /\ IsFiniteSet(Ids)
         /\ \A f \in Ids : f \in Nat /\ frames[f] \in Frame
         /\ \A f \in Ids : frames[f].ended \in Nat /\ frames[f].ended <= MaxTime
         /\ \A f \in Ids : frames[f].counts \in Nat /\ frames[f].counts <= UINT32_MAX
         /\ \A f \in Ids : frames[f].epoch \in Epochs
         /\ \A ids \in SUBSET Ids : IsFiniteSet(ids) /\ Cardinality(ids) \in Nat
<1>1. Len(frames) \in Nat /\ Ids = 1..Len(frames) /\ \A f \in Ids : frames[f] \in Frame
  BY DEF Ids
<1>2. IsFiniteSet(Ids)
  BY <1>1, FS_Interval
<1>3. \A f \in Ids : f \in Nat
  BY <1>1
<1>4. \A f \in Ids : /\ frames[f].ended \in 0..MaxTime /\ frames[f].counts \in Counts
                     /\ frames[f].epoch \in Epochs
  BY <1>1 DEF Frame, Time
<1>5. MaxTime \in Nat /\ Counts \subseteq 0..UINT32_MAX /\ UINT32_MAX \in Nat
  BY BoundsAssumption, CountsAssumption
<1>6. \A ids \in SUBSET Ids : IsFiniteSet(ids) /\ Cardinality(ids) \in Nat
  BY <1>2, FS_Subset, FS_CardinalityType
<1>7. \A f \in Ids : /\ frames[f].ended \in Nat /\ frames[f].ended <= MaxTime
                     /\ frames[f].counts \in Nat /\ frames[f].counts <= UINT32_MAX
  BY <1>4, <1>5
<1> QED BY <1>1, <1>2, <1>3, <1>4, <1>6, <1>7

\* The cursor's order is transitive and total.
LEMMA OrderSteps ==
  ASSUME NEW a \in Int, NEW b \in Int, NEW c \in Int,
         NEW i \in Int, NEW j \in Int, NEW k \in Int,
         a < b \/ (a = b /\ i <= j), ~(c < b \/ (c = b /\ k <= j))
  PROVE  a < c \/ (a = c /\ i <= k)
OBVIOUS

\* Every set of frames has a last one.
LEMMA LatestIsLast ==
  ASSUME frames \in Seq(Frame), NEW ids \in SUBSET Ids, ids # {}
  PROVE  /\ Latest(ids) \in ids
         /\ \A g \in ids : g # Latest(ids) => Before(g, Latest(ids))
<1> DEFINE Ends(f, s) == \A g \in s : \/ frames[g].ended < frames[f].ended
                                      \/ frames[g].ended = frames[f].ended /\ g <= f
           Good == {s \in SUBSET ids : s # {} => \E f \in s : Ends(f, s)}
<1>f. \A f \in ids : f \in Nat /\ frames[f].ended \in Nat
  BY FrameFacts
<1>1. ASSUME NEW s \in SUBSET ids, \A t \in SUBSET s : t # s => t \in Good
      PROVE  s \in Good
  <2>1. SUFFICES ASSUME s # {} PROVE \E f \in s : Ends(f, s)
    OBVIOUS
  <2>2. PICK x \in s : TRUE
    BY <2>1
  <2> DEFINE t == s \ {x}
  <2>3. t \in Good
    BY <1>1, <2>2
  <2>4. CASE t = {}
    <3>1. \A g \in s : g = x
      BY <2>4
    <3>2. Ends(x, s)
      BY <3>1, <1>f
    <3> QED BY <3>2
  <2>5. CASE t # {}
    <3>1. PICK f \in t : Ends(f, t)
      BY <2>3, <2>5
    <3>2. f \in s /\ x \in ids /\ f \in ids
      BY <2>2
    <3>3. \A g \in s : g = x \/ g \in t
      OBVIOUS
    <3>4. CASE frames[x].ended < frames[f].ended \/ (frames[x].ended = frames[f].ended /\ x <= f)
      <4>1. Ends(f, s)
        BY <3>1, <3>3, <3>4
      <4> QED BY <4>1, <3>2
    <3>5. CASE ~(frames[x].ended < frames[f].ended \/ (frames[x].ended = frames[f].ended /\ x <= f))
      <4>1. ASSUME NEW g \in s
            PROVE  \/ frames[g].ended < frames[x].ended
                   \/ frames[g].ended = frames[x].ended /\ g <= x
        <5>1. CASE g = x
          BY <5>1, <1>f
        <5>2. CASE g \in t
          <6>1. /\ g \in Nat /\ f \in Nat /\ x \in Nat
                /\ frames[g].ended \in Nat /\ frames[f].ended \in Nat /\ frames[x].ended \in Nat
            BY <1>f, <3>2
          <6>2. \/ frames[g].ended < frames[f].ended
                \/ frames[g].ended = frames[f].ended /\ g <= f
            BY <3>1, <5>2
          <6> QED BY <6>1, <6>2, <3>5, OrderSteps
        <5> QED BY <3>3, <5>1, <5>2
      <4>2. Ends(x, s)
        BY <4>1
      <4> QED BY <4>2, <2>2
    <3> QED BY <3>4, <3>5
  <2> QED BY <2>4, <2>5
<1>2. Good = SUBSET ids
  <2>1. Good \in SUBSET SUBSET ids
    OBVIOUS
  <2>2. IsFiniteSet(ids)
    BY FrameFacts
  <2> HIDE DEF Good
  <2> QED BY <1>1, <2>1, <2>2, SubsetInduction
<1>3. \E f \in ids : Ends(f, ids)
  BY <1>2
<1>4. Latest(ids) = CHOOSE f \in ids : Ends(f, ids)
  BY DEF Latest
<1>5. Latest(ids) \in ids /\ Ends(Latest(ids), ids)
  <2> HIDE DEF Ends
  <2> QED BY <1>3, <1>4
<1>6. \A g \in ids : g # Latest(ids) => Before(g, Latest(ids))
  <2> SUFFICES ASSUME NEW g \in ids, g # Latest(ids) PROVE Before(g, Latest(ids))
    OBVIOUS
  <2>1. g \in Nat /\ Latest(ids) \in Nat
    BY <1>5, <1>f
  <2> QED BY <1>5, <2>1 DEF Before
<1> QED BY <1>5, <1>6

\* Segments of these frames: all of them, in the order of the cursor, none too large.
WellCut(segments, ids) ==
  /\ segments \in Seq(SUBSET ids) /\ segments # <<>>
  /\ ids = {} => segments = <<{}>>
  /\ ids # {} => /\ \A i \in DOMAIN segments : /\ segments[i] # {}
                                               /\ TotalOf(segments[i]) <= UINT32_MAX
                 /\ Len(segments) <= Cardinality(ids)
  /\ \A f \in ids : \E i \in DOMAIN segments : f \in segments[i]
  /\ \A i, j \in DOMAIN segments : i < j =>
       \A f \in segments[i], g \in segments[j] : Before(f, g)

\* Adding the next frame of the cursor leaves segments well cut.
LEMMA AddKeeps ==
  ASSUME frames \in Seq(Frame), NEW ids \in SUBSET Ids, NEW f \in Ids, f \notin ids,
         \A g \in ids : Before(g, f),
         NEW segments, WellCut(segments, ids)
  PROVE  WellCut(Add(segments, f), ids \cup {f})
<1> DEFINE n == Len(segments)
           last == segments[n]
           all == ids \cup {f}
           new == Add(segments, f)
<1>1. /\ segments \in Seq(SUBSET ids) /\ n \in Nat /\ n >= 1 /\ DOMAIN segments = 1..n
      /\ segments \in [1..n -> SUBSET ids] /\ segments \in Seq(SUBSET all)
      /\ n \in 1..n
  <2>1. segments \in Seq(SUBSET ids) /\ segments # <<>>
    BY DEF WellCut
  <2>2. n \in Nat /\ DOMAIN segments = 1..n /\ segments \in [1..n -> SUBSET ids]
    BY <2>1, LenProperties
  <2>3. n # 0
    BY <2>1, EmptySeq
  <2>4. segments \in [1..n -> SUBSET all]
    BY <2>2
  <2>5. segments \in Seq(SUBSET all)
    BY <2>2, <2>4, SeqDef
  <2> QED BY <2>1, <2>2, <2>3, <2>5
<1>2. /\ Cardinality(all) = Cardinality(ids) + 1 /\ Cardinality(ids) \in Nat
      /\ all # {} /\ f \in all
  BY FrameFacts, FS_AddElement
<1>3. TotalOf({f}) <= UINT32_MAX
  BY FrameFacts, TotalOfOne
<1>e. n <= Cardinality(all)
  <2>1. CASE ids = {}
    <3>1. segments = <<{}>>
      BY <2>1 DEF WellCut
    <3>2. n = 1 /\ Cardinality(ids) = 0
      BY <2>1, <3>1, FS_EmptySet
    <3> QED BY <3>2, <1>2
  <2>2. CASE ids # {}
    <3>1. n <= Cardinality(ids)
      BY <2>2 DEF WellCut
    <3> QED BY <3>1, <1>1, <1>2
  <2> QED BY <2>1, <2>2
<1>4. CASE last = {} \/ TotalOf(last \cup {f}) <= UINT32_MAX
  <2>1. new = [segments EXCEPT ![n] = last \cup {f}]
    BY <1>4 DEF Add, Joined
  <2>2. new \in Seq(SUBSET all) /\ Len(new) = n /\ DOMAIN new = 1..n
    <3>1. last \cup {f} \in SUBSET all
      BY <1>1
    <3> HIDE DEF last, n, all, new
    <3> QED BY <1>1, <2>1, <3>1, ExceptSeq
  <2>3. /\ new[n] = last \cup {f}
        /\ \A i \in 1..n : i # n => new[i] = segments[i]
    BY <1>1, <2>1
  <2>4. ASSUME NEW i \in 1..n
        PROVE  new[i] # {} /\ TotalOf(new[i]) <= UINT32_MAX
    <3>1. CASE i = n /\ last = {}
      <4>1. new[i] = {f}
        BY <2>3, <3>1
      <4> QED BY <4>1, <1>3
    <3>2. CASE i = n /\ last # {}
      BY <2>3, <3>2, <1>4
    <3>3. CASE i # n
      <4>1. ids # {}
        <5> SUFFICES ASSUME ids = {} PROVE FALSE
          OBVIOUS
        <5>1. segments = <<{}>>
          BY DEF WellCut
        <5>2. n = 1
          BY <5>1
        <5> QED BY <5>2, <3>3
      <4>2. segments[i] # {} /\ TotalOf(segments[i]) <= UINT32_MAX
        BY <4>1, <1>1 DEF WellCut
      <4>3. new[i] = segments[i]
        BY <2>3, <3>3
      <4> QED BY <4>2, <4>3
    <3> QED BY <3>1, <3>2, <3>3
  <2>5. ASSUME NEW g \in all PROVE \E i \in 1..n : g \in new[i]
    <3>1. CASE g = f
      BY <3>1, <2>3, <1>1
    <3>2. CASE g \in ids
      <4>1. PICK i \in 1..n : g \in segments[i]
        BY <3>2, <1>1 DEF WellCut
      <4>2. g \in new[i]
        BY <4>1, <2>3
      <4> QED BY <4>2
    <3> QED BY <3>1, <3>2
  <2>6. ASSUME NEW i \in 1..n, NEW j \in 1..n, i < j, NEW a \in new[i], NEW b \in new[j]
        PROVE  Before(a, b)
    <3>1. i # n /\ a \in segments[i] /\ a \in ids
      <4>1. i # n
        <5> HIDE DEF n
        <5> QED BY <2>6, <1>1
      <4>2. new[i] = segments[i] /\ segments[i] \in SUBSET ids
        <5> HIDE DEF new, n, last, all
        <5> QED BY <4>1, <2>3, <1>1
      <4> HIDE DEF new, n
      <4> QED BY <4>1, <4>2
    <3>2. CASE b \in segments[j]
      BY <1>1, <2>6, <3>1, <3>2 DEF WellCut
    <3>3. CASE b \notin segments[j]
      <4>1. b = f
        BY <3>3, <2>3
      <4> QED BY <4>1, <3>1
    <3> QED BY <3>2, <3>3
  <2>7. new # <<>>
    BY <2>2, <1>1, EmptySeq
  <2> HIDE DEF new, n, last, all
  <2>8. WellCut(new, all)
    BY <2>2, <2>4, <2>5, <2>6, <2>7, <1>2, <1>e DEF WellCut
  <2> QED BY <2>8 DEF new, all
<1>5. CASE ~(last = {} \/ TotalOf(last \cup {f}) <= UINT32_MAX)
  <2>1. new = Append(segments, {f})
    BY <1>5 DEF Add
  <2>2. new \in Seq(SUBSET all) /\ Len(new) = n + 1 /\ DOMAIN new = 1..(n + 1)
    <3>1. {f} \in SUBSET all
      OBVIOUS
    <3> HIDE DEF last, n, all, new
    <3>2. new \in Seq(SUBSET all) /\ Len(new) = Len(segments) + 1
      BY <1>1, <2>1, <3>1, AppendProperties
    <3> QED BY <3>2, LenProperties DEF n
  <2>3. /\ new[n + 1] = {f}
        /\ \A i \in 1..n : new[i] = segments[i]
    BY <1>1, <2>1, AppendProperties
  <2>n. \A i \in 1..(n + 1) : i = n + 1 \/ i \in 1..n
    BY <1>1
  <2>i. ids # {}
    <3> SUFFICES ASSUME ids = {} PROVE FALSE
      OBVIOUS
    <3>1. segments = <<{}>>
      BY DEF WellCut
    <3> QED BY <3>1, <1>5
  <2>4. ASSUME NEW i \in 1..(n + 1)
        PROVE  new[i] # {} /\ TotalOf(new[i]) <= UINT32_MAX
    <3>1. CASE i = n + 1
      BY <2>3, <3>1, <1>3
    <3>2. CASE i \in 1..n
      <4>1. segments[i] # {} /\ TotalOf(segments[i]) <= UINT32_MAX
        BY <2>i, <3>2, <1>1 DEF WellCut
      <4>2. new[i] = segments[i]
        BY <2>3, <3>2
      <4> QED BY <4>1, <4>2
    <3> QED BY <3>1, <3>2, <2>n
  <2>5. ASSUME NEW g \in all PROVE \E i \in 1..(n + 1) : g \in new[i]
    <3>1. CASE g = f
      <4>1. n + 1 \in 1..(n + 1) /\ f \in new[n + 1]
        BY <2>3, <1>1
      <4> QED BY <3>1, <4>1
    <3>2. CASE g \in ids
      <4>1. PICK i \in 1..n : g \in segments[i]
        BY <3>2, <1>1 DEF WellCut
      <4>2. g \in new[i] /\ i \in 1..(n + 1)
        BY <4>1, <2>3, <1>1
      <4> QED BY <4>2
    <3> QED BY <3>1, <3>2
  <2>6. ASSUME NEW i \in 1..(n + 1), NEW j \in 1..(n + 1), i < j,
               NEW a \in new[i], NEW b \in new[j]
        PROVE  Before(a, b)
    <3>1. i \in 1..n /\ a \in segments[i] /\ a \in ids
      <4>1. i \in 1..n
        BY <2>6, <1>1
      <4> QED BY <4>1, <2>3, <1>1
    <3>2. CASE j \in 1..n
      <4>1. b \in segments[j]
        BY <2>3, <3>2
      <4> QED BY <4>1, <1>1, <2>6, <3>1, <3>2 DEF WellCut
    <3>3. CASE j = n + 1
      <4>1. b = f
        BY <3>3, <2>3
      <4> QED BY <4>1, <3>1
    <3> QED BY <3>2, <3>3, <2>n
  <2>7. new # <<>>
    BY <2>2, <1>1, EmptySeq
  <2>8. n + 1 <= Cardinality(all)
    <3>1. n <= Cardinality(ids)
      BY <2>i DEF WellCut
    <3> QED BY <3>1, <1>1, <1>2
  <2> HIDE DEF new, n, last, all
  <2>9. WellCut(new, all)
    BY <2>2, <2>4, <2>5, <2>6, <2>7, <2>8, <1>2 DEF WellCut
  <2> QED BY <2>9 DEF new, all
<1> QED BY <1>4, <1>5

\* Adding a frame to segments makes segments again.
LEMMA AddType ==
  ASSUME NEW ids, NEW segments \in Seq(SUBSET ids), segments # <<>>, NEW f \in ids
  PROVE  Add(segments, f) \in Seq(SUBSET ids) /\ Add(segments, f) # <<>>
<1> DEFINE n == Len(segments)
<1>1. n \in Nat /\ n # 0 /\ segments \in [1..n -> SUBSET ids] /\ n \in 1..n
  <2>1. n \in Nat /\ segments \in [1..n -> SUBSET ids]
    BY LenProperties
  <2>2. n # 0
    BY EmptySeq
  <2> QED BY <2>1, <2>2
<1>2. segments[n] \cup {f} \in SUBSET ids /\ {f} \in SUBSET ids
  BY <1>1
<1>3. CASE Add(segments, f) = Append(segments, {f})
  BY <1>2, <1>3, AppendProperties
<1>4. CASE Add(segments, f) = [segments EXCEPT ![n] = segments[n] \cup {f}]
  <2>1. Add(segments, f) \in Seq(SUBSET ids) /\ Len(Add(segments, f)) = n
    <3> HIDE DEF n
    <3>1. n \in 1..Len(segments)
      BY <1>1 DEF n
    <3> QED BY <1>2, <1>4, <3>1, ExceptSeq DEF n
  <2> QED BY <2>1, <1>1, EmptySeq
<1> QED BY <1>3, <1>4 DEF Add, Joined

\* _segment_frames: the segments of a group of frames are well cut.
LEMMA SegmentsWellCut ==
  ASSUME frames \in Seq(Frame), NEW ids \in SUBSET Ids
  PROVE  WellCut(Segments(ids), ids)
<1> DEFINE latest == [s \in SUBSET ids |-> Latest(s)]
           V == {v \in Seq(SUBSET ids) : v # <<>>}
           add == [p \in V \X ids |-> Add(p[1], p[2])]
           F(h) == [s \in SUBSET ids |->
                     IF s = {} THEN <<{}>> ELSE Add(h[s \ {Latest(s)}], Latest(s))]
           upTo == CHOOSE h : h = F(h)
<1>f. IsFiniteSet(ids)
  BY FrameFacts
<1>1. \A s \in SUBSET ids : s # {} => Latest(s) \in s /\ latest[s] = Latest(s)
  BY LatestIsLast
<1>2. \A v \in V, x \in ids : add[<<v, x>>] = Add(v, x) /\ add[<<v, x>>] \in V
  BY AddType
<1>3. <<{}>> \in V
  OBVIOUS
<1>4. PICK g \in [SUBSET ids -> V] : IsFold(g, ids, <<{}>>, latest, add)
  <2>1. \A v \in V, x \in ids : add[<<v, x>>] \in V
    BY <1>2
  <2>2. \A s \in SUBSET ids : s # {} => latest[s] \in s
    BY <1>1
  <2> HIDE DEF latest, V, add, F, upTo
  <2> QED BY <1>f, <1>3, <2>1, <2>2, FoldExists, Zenon
<1>5. \A s \in SUBSET ids : s # {} =>
        add[<<g[s \ {latest[s]}], latest[s]>>] = Add(g[s \ {Latest(s)}], Latest(s))
  <2> SUFFICES ASSUME NEW s \in SUBSET ids, s # {}
               PROVE  add[<<g[s \ {latest[s]}], latest[s]>>]
                        = Add(g[s \ {Latest(s)}], Latest(s))
    OBVIOUS
  <2>1. latest[s] = Latest(s) /\ Latest(s) \in ids /\ s \ {Latest(s)} \in SUBSET ids
    BY <1>1
  <2>2. g[s \ {Latest(s)}] \in V
    BY <1>4, <2>1
  <2> HIDE DEF latest, V, add
  <2> QED BY <1>2, <2>1, <2>2
<1>6. g = F(g)
  <2> HIDE DEF latest, add
  <2> QED BY <1>4, <1>5 DEF IsFold
<1>7. upTo = F(upTo)
  <2> HIDE DEF F
  <2> QED BY <1>6
<1>8. Segments(ids) = upTo[ids]
  BY DEF Segments
<1> HIDE DEF upTo
<1> DEFINE Good == {s \in SUBSET ids : WellCut(upTo[s], s)}
<1>9. ASSUME NEW s \in SUBSET ids, \A t \in SUBSET s : t # s => t \in Good
      PROVE  s \in Good
  <2>1. CASE s = {}
    <3>1. upTo[s] = <<{}>>
      BY <1>7, <2>1
    <3>2. WellCut(<<{}>>, {})
      BY DEF WellCut
    <3> QED BY <2>1, <3>1, <3>2
  <2>2. CASE s # {}
    <3> DEFINE f == Latest(s)
               t == s \ {f}
    <3>1. f \in s /\ \A h \in s : h # f => Before(h, f)
      BY <2>2, LatestIsLast
    <3>2. upTo[s] = Add(upTo[t], f)
      BY <1>7, <2>2
    <3>3. t \in Good /\ t \cup {f} = s /\ f \notin t /\ f \in Ids /\ t \in SUBSET Ids
      BY <1>9, <3>1
    <3>4. \A h \in t : Before(h, f)
      BY <3>1
    <3>5. WellCut(upTo[t], t)
      BY <3>3
    <3> HIDE DEF f, t
    <3>6. WellCut(Add(upTo[t], f), t \cup {f})
      BY <3>3, <3>4, <3>5, AddKeeps
    <3> QED BY <3>2, <3>3, <3>6
  <2> QED BY <2>1, <2>2
<1>10. Good = SUBSET ids
  <2>1. Good \in SUBSET SUBSET ids
    OBVIOUS
  <2> HIDE DEF Good
  <2> QED BY <1>f, <1>9, <2>1, SubsetInduction
<1> QED BY <1>8, <1>10

\* A bucket of a time is a time.
LEMMA BucketInTime ==
  ASSUME NEW time \in Nat, time <= MaxTime, NEW res \in Resolutions
  PROVE  Floor(time, res) \in Time
<1> DEFINE length == Length(res)
<1>1. length \in Nat \ {0}
  BY LengthsAssumption DEF Length
<1> HIDE DEF length
<1>2. /\ (time \div length) * length \in Nat
      /\ (time \div length) * length <= time
  BY <1>1, SMTT(60)
<1>3. MaxTime \in Nat
  BY BoundsAssumption
<1> QED BY <1>2, <1>3 DEF Floor, length, Time

-----------------------------------------------------------------------------
(* The table. *)

RowsOf(res, epoch, bucket, segments) ==
  {[resolution |-> res, epoch |-> epoch, bucket |-> bucket,
    segment |-> i - 1, sources |-> segments[i]] : i \in DOMAIN segments}

GroupIn(rows, res, epoch, bucket) ==
  {r \in rows : r.resolution = res /\ r.epoch = epoch /\ r.bucket = bucket}

\* Segments of some frames of a group.
CutOf(segments, ids, res, epoch, bucket) ==
  /\ ids # {}
  /\ \A f \in ids : InGroup(f, res, epoch, bucket)
  /\ WellCut(segments, ids)

\* A group has no rows, or those of some of its frames.
CutGroup(rows, res, epoch, bucket) ==
  \/ GroupIn(rows, res, epoch, bucket) = {}
  \/ \E ids \in SUBSET Ids : \E segments \in Seq(SUBSET ids) :
       /\ CutOf(segments, ids, res, epoch, bucket)
       /\ GroupIn(rows, res, epoch, bucket) = RowsOf(res, epoch, bucket, segments)

Table(rows) ==
  /\ rows \subseteq Rollup
  /\ \A res \in Resolutions, epoch \in Epochs, bucket \in Time :
       CutGroup(rows, res, epoch, bucket)

Stored == frames \in Seq(Frame) /\ Len(frames) <= MaxFrames

\* The empty table.
LEMMA NoRows == Table({})
BY DEF Table, CutGroup, GroupIn

\* What a row of a table says.
LEMMA RowFacts ==
  ASSUME Stored, NEW rows, Table(rows), NEW r \in rows
  PROVE  /\ r.resolution \in Resolutions /\ r.epoch \in Epochs /\ r.bucket \in Time
         /\ \E ids \in SUBSET Ids : \E segments \in Seq(SUBSET ids) :
              /\ CutOf(segments, ids, r.resolution, r.epoch, r.bucket)
              /\ GroupIn(rows, r.resolution, r.epoch, r.bucket)
                   = RowsOf(r.resolution, r.epoch, r.bucket, segments)
              /\ \E i \in DOMAIN segments : r.segment = i - 1 /\ r.sources = segments[i]
              /\ r.sources \subseteq ids
<1>1. r.resolution \in Resolutions /\ r.epoch \in Epochs /\ r.bucket \in Time
  BY DEF Table, Rollup
<1>2. r \in GroupIn(rows, r.resolution, r.epoch, r.bucket)
  BY DEF GroupIn
<1>3. PICK ids \in SUBSET Ids : \E segments \in Seq(SUBSET ids) :
        /\ CutOf(segments, ids, r.resolution, r.epoch, r.bucket)
        /\ GroupIn(rows, r.resolution, r.epoch, r.bucket)
             = RowsOf(r.resolution, r.epoch, r.bucket, segments)
  BY <1>1, <1>2 DEF Table, CutGroup
<1>4. PICK segments \in Seq(SUBSET ids) :
        /\ CutOf(segments, ids, r.resolution, r.epoch, r.bucket)
        /\ GroupIn(rows, r.resolution, r.epoch, r.bucket)
             = RowsOf(r.resolution, r.epoch, r.bucket, segments)
  BY <1>3
<1>5. PICK i \in DOMAIN segments : r.segment = i - 1 /\ r.sources = segments[i]
  BY <1>2, <1>4 DEF RowsOf
<1>6. r.sources \subseteq ids
  <2>1. segments[i] \in SUBSET ids
    BY <1>5
  <2> QED BY <1>5, <2>1
<1> QED BY <1>1, <1>4, <1>5, <1>6

\* The rows made of a group's frames.
RowsCut(res, epoch, bucket, ids) ==
  LET rows == SegmentRows(res, epoch, bucket, ids)
  IN /\ rows \subseteq Rollup
     /\ \A r \in rows : r.resolution = res /\ r.epoch = epoch /\ r.bucket = bucket
     /\ \A f \in ids : \E r \in rows : f \in r.sources
     /\ \A r \in rows : r.sources \subseteq ids
     /\ Segments(ids) \in Seq(SUBSET ids)
     /\ CutOf(Segments(ids), ids, res, epoch, bucket)
     /\ rows = RowsOf(res, epoch, bucket, Segments(ids))

\* _upsert_spectrum_rollups writes a group as its segments.
LEMMA SegmentRowsCut ==
  ASSUME Stored, NEW res \in Resolutions, NEW epoch \in Epochs, NEW bucket \in Time,
         NEW ids \in SUBSET Ids, ids # {}, \A f \in ids : InGroup(f, res, epoch, bucket)
  PROVE  RowsCut(res, epoch, bucket, ids)
<1> DEFINE segments == Segments(ids)
           n == Len(segments)
<1>1. frames \in Seq(Frame) /\ Len(frames) <= MaxFrames
  BY DEF Stored
<1>2. WellCut(segments, ids)
  BY <1>1, SegmentsWellCut
<1>3. segments \in Seq(SUBSET ids) /\ n <= Cardinality(ids)
  BY <1>2 DEF WellCut
<1>4. n \in Nat /\ DOMAIN segments = 1..n /\ segments \in [1..n -> SUBSET ids]
  BY <1>3, LenProperties
<1>5. SegmentRows(res, epoch, bucket, ids) = RowsOf(res, epoch, bucket, segments)
  BY DEF SegmentRows, RowsOf
<1>6. ids \in SUBSET (1..MaxFrames) /\ Cardinality(ids) <= MaxFrames
  <2>1. Ids = 1..Len(frames) /\ Len(frames) \in Nat
    BY <1>1, FrameFacts
  <2>2. ids \in SUBSET (1..MaxFrames) /\ MaxFrames \in Nat
    BY <1>1, <2>1, BoundsAssumption
  <2>3. IsFiniteSet(1..MaxFrames) /\ Cardinality(1..MaxFrames) = MaxFrames
    BY <2>2, FS_Interval
  <2>4. Cardinality(ids) <= Cardinality(1..MaxFrames)
    BY <2>2, <2>3, FS_Subset
  <2> QED BY <2>2, <2>3, <2>4
<1>7. Cardinality(ids) \in Nat
  BY <1>1, FrameFacts
<1> HIDE DEF segments, n
<1>8. ASSUME NEW i \in 1..n
      PROVE  i - 1 \in 0..(MaxFrames - 1) /\ segments[i] \in SUBSET (1..MaxFrames)
  <2>1. MaxFrames \in Nat
    BY BoundsAssumption
  <2>2. i \in Nat /\ i >= 1 /\ i <= MaxFrames
    <3>1. n <= MaxFrames
      BY <1>3, <1>4, <1>6, <1>7, <2>1
    <3> QED BY <3>1, <1>4, <2>1
  <2>3. segments[i] \in SUBSET ids
    BY <1>4
  <2>4. i - 1 \in 0..(MaxFrames - 1)
    BY <2>1, <2>2
  <2>5. segments[i] \in SUBSET (1..MaxFrames)
    BY <1>6, <2>3
  <2> QED BY <2>4, <2>5
<1>9. RowsOf(res, epoch, bucket, segments) \subseteq Rollup
  BY <1>4, <1>8 DEF RowsOf, Rollup
<1>10. \A f \in ids : \E r \in RowsOf(res, epoch, bucket, segments) : f \in r.sources
  <2> SUFFICES ASSUME NEW f \in ids
               PROVE  \E r \in RowsOf(res, epoch, bucket, segments) : f \in r.sources
    OBVIOUS
  <2>1. PICK i \in DOMAIN segments : f \in segments[i]
    BY <1>2 DEF WellCut
  <2> DEFINE r == [resolution |-> res, epoch |-> epoch, bucket |-> bucket,
                   segment |-> i - 1, sources |-> segments[i]]
  <2>2. r \in RowsOf(res, epoch, bucket, segments)
    BY DEF RowsOf
  <2>3. f \in r.sources
    BY <2>1
  <2> QED BY <2>2, <2>3
<1>11. \A r \in RowsOf(res, epoch, bucket, segments) :
         /\ r.resolution = res /\ r.epoch = epoch /\ r.bucket = bucket
         /\ r.sources \subseteq ids
  BY <1>4 DEF RowsOf
<1>12. CutOf(segments, ids, res, epoch, bucket)
  BY <1>2 DEF CutOf
<1> QED BY <1>3, <1>5, <1>9, <1>10, <1>11, <1>12 DEF segments, RowsCut

\* The group of frames that an upsert replaces.
LEMMA GroupFacts ==
  ASSUME Stored, NEW res \in Resolutions, NEW ids \in SUBSET Ids, NEW g \in Groups(res, ids)
  PROVE  /\ g[1] \in Epochs /\ g[2] \in Time /\ g = <<g[1], g[2]>>
         /\ {f \in ids : InGroup(f, res, g[1], g[2])} # {}
<1>1. PICK f \in ids : g = <<frames[f].epoch, BucketOf(f, res)>>
  BY DEF Groups
<1>2. g[1] = frames[f].epoch /\ g[2] = BucketOf(f, res) /\ g = <<g[1], g[2]>>
  BY <1>1
<1>3. frames[f].epoch \in Epochs /\ frames[f].ended \in Nat /\ frames[f].ended <= MaxTime
  BY FrameFacts DEF Stored
<1>4. BucketOf(f, res) \in Time
  BY <1>3, BucketInTime DEF BucketOf
<1>5. f \in {h \in ids : InGroup(h, res, g[1], g[2])}
  BY <1>2 DEF InGroup
<1> QED BY <1>2, <1>3, <1>4, <1>5

\* RolledUp, for any table.
Covered(rows, f, res) == \E r \in rows : r.resolution = res /\ f \in r.sources

GroupFrames(ids, res, g) == {f \in ids : InGroup(f, res, g[1], g[2])}

\* A row of the table after an upsert is an untouched one or a written one.
LEMMA UpsertRow ==
  ASSUME NEW rows, NEW res, NEW ids, NEW r
  PROVE  r \in Upsert(rows, res, ids) <=>
           \/ r \in rows /\ (r.resolution # res \/ <<r.epoch, r.bucket>> \notin Groups(res, ids))
           \/ \E g \in Groups(res, ids) :
                r \in SegmentRows(res, g[1], g[2], GroupFrames(ids, res, g))
BY DEF Upsert, GroupFrames

\* What an upsert writes for a group.
LEMMA GroupRowsCut ==
  ASSUME Stored, NEW res \in Resolutions, NEW ids \in SUBSET Ids, NEW g \in Groups(res, ids)
  PROVE  /\ g[1] \in Epochs /\ g[2] \in Time /\ g = <<g[1], g[2]>>
         /\ GroupFrames(ids, res, g) \in SUBSET ids
         /\ RowsCut(res, g[1], g[2], GroupFrames(ids, res, g))
<1> DEFINE new == GroupFrames(ids, res, g)
<1>1. g[1] \in Epochs /\ g[2] \in Time /\ g = <<g[1], g[2]>> /\ new # {}
  BY GroupFacts DEF GroupFrames
<1>2. new \in SUBSET Ids /\ new \in SUBSET ids /\ \A f \in new : InGroup(f, res, g[1], g[2])
  BY DEF GroupFrames
<1> HIDE DEF new
<1>3. RowsCut(res, g[1], g[2], new)
  BY <1>1, <1>2, SegmentRowsCut
<1> QED BY <1>1, <1>2, <1>3 DEF new

\* Which rows those are.
LEMMA WrittenRow ==
  ASSUME Stored, NEW res \in Resolutions, NEW ids \in SUBSET Ids, NEW g \in Groups(res, ids),
         NEW r \in SegmentRows(res, g[1], g[2], GroupFrames(ids, res, g))
  PROVE  /\ g = <<r.epoch, r.bucket>> /\ r.resolution = res
         /\ r \in Rollup /\ r.sources \subseteq ids
<1>1. /\ g = <<g[1], g[2]>>
      /\ GroupFrames(ids, res, g) \in SUBSET ids
      /\ RowsCut(res, g[1], g[2], GroupFrames(ids, res, g))
  BY GroupRowsCut
<1>2. /\ r \in Rollup /\ r.resolution = res /\ r.epoch = g[1] /\ r.bucket = g[2]
      /\ r.sources \subseteq GroupFrames(ids, res, g)
  BY <1>1 DEF RowsCut
<1> QED BY <1>1, <1>2

\* _upsert_spectrum_rollups replaces whole groups.
LEMMA UpsertTable ==
  ASSUME Stored, NEW rows, Table(rows), NEW res \in Resolutions, NEW ids \in SUBSET Ids
  PROVE  Table(Upsert(rows, res, ids))
<1> DEFINE new == Upsert(rows, res, ids)
<1>1. ASSUME NEW r \in new PROVE r \in Rollup
  <2>1. CASE r \in rows
    BY <2>1 DEF Table
  <2>2. CASE \E g \in Groups(res, ids) :
               r \in SegmentRows(res, g[1], g[2], GroupFrames(ids, res, g))
    BY <2>2, WrittenRow
  <2> HIDE DEF new
  <2> QED BY <2>1, <2>2, UpsertRow DEF new
<1>2. ASSUME NEW other \in Resolutions, NEW epoch \in Epochs, NEW bucket \in Time
      PROVE  CutGroup(new, other, epoch, bucket)
  <2>1. CASE other = res /\ <<epoch, bucket>> \in Groups(res, ids)
    <3> DEFINE g == <<epoch, bucket>>
               source == GroupFrames(ids, res, g)
               written == SegmentRows(res, epoch, bucket, source)
    <3>1. g \in Groups(res, ids) /\ g[1] = epoch /\ g[2] = bucket
      BY <2>1
    <3>2. /\ \A r \in written : r.resolution = res /\ r.epoch = epoch /\ r.bucket = bucket
          /\ source \in SUBSET Ids
          /\ Segments(source) \in Seq(SUBSET source)
          /\ CutOf(Segments(source), source, res, epoch, bucket)
          /\ written = RowsOf(res, epoch, bucket, Segments(source))
      <4>1. source \in SUBSET ids /\ RowsCut(res, epoch, bucket, source)
        BY <3>1, GroupRowsCut
      <4> QED BY <4>1 DEF RowsCut
    <3>3. GroupIn(new, res, epoch, bucket) = written
      <4>1. ASSUME NEW r \in GroupIn(new, res, epoch, bucket) PROVE r \in written
        <5>1. r \in new /\ r.resolution = res /\ r.epoch = epoch /\ r.bucket = bucket
          BY DEF GroupIn
        <5>2. PICK h \in Groups(res, ids) :
                r \in SegmentRows(res, h[1], h[2], GroupFrames(ids, res, h))
          BY <2>1, <5>1, UpsertRow
        <5>3. h = <<r.epoch, r.bucket>>
          BY <5>2, WrittenRow
        <5>4. h = g
          BY <5>1, <5>3
        <5> QED BY <3>1, <5>2, <5>4
      <4>2. ASSUME NEW r \in written PROVE r \in GroupIn(new, res, epoch, bucket)
        <5>1. r \in new
          BY <3>1, UpsertRow
        <5> QED BY <3>2, <5>1 DEF GroupIn
      <4> QED BY <4>1, <4>2
    <3> HIDE DEF source, written, new
    <3> QED BY <2>1, <3>2, <3>3 DEF CutGroup
  <2>2. CASE ~(other = res /\ <<epoch, bucket>> \in Groups(res, ids))
    <3>1. ASSUME NEW r \in GroupIn(new, other, epoch, bucket)
          PROVE  r \in GroupIn(rows, other, epoch, bucket)
      <4>1. r \in new /\ r.resolution = other /\ r.epoch = epoch /\ r.bucket = bucket
        BY DEF GroupIn
      <4>2. ASSUME NEW h \in Groups(res, ids),
                   r \in SegmentRows(res, h[1], h[2], GroupFrames(ids, res, h))
            PROVE  FALSE
        <5>1. r.resolution = res /\ h = <<r.epoch, r.bucket>>
          BY <4>2, WrittenRow
        <5> QED BY <2>2, <4>1, <5>1
      <4>3. r \in rows
        BY <4>1, <4>2, UpsertRow
      <4> QED BY <4>1, <4>3 DEF GroupIn
    <3>2. ASSUME NEW r \in GroupIn(rows, other, epoch, bucket)
          PROVE  r \in GroupIn(new, other, epoch, bucket)
      <4>1. r \in rows /\ r.resolution = other /\ r.epoch = epoch /\ r.bucket = bucket
        BY DEF GroupIn
      <4>2. r \in new
        BY <2>2, <4>1, UpsertRow
      <4> QED BY <4>1, <4>2 DEF GroupIn
    <3>3. GroupIn(new, other, epoch, bucket) = GroupIn(rows, other, epoch, bucket)
      BY <3>1, <3>2
    <3>4. CutGroup(rows, other, epoch, bucket)
      BY DEF Table
    <3> HIDE DEF new
    <3> QED BY <3>3, <3>4 DEF CutGroup
  <2> QED BY <2>1, <2>2
<1> HIDE DEF new
<1>3. Table(new)
  BY <1>1, <1>2 DEF Table
<1> QED BY <1>3 DEF new

\* What is read is rolled up.
LEMMA UpsertCovers ==
  ASSUME Stored, NEW rows, NEW res \in Resolutions, NEW ids \in SUBSET Ids, NEW f \in ids
  PROVE  Covered(Upsert(rows, res, ids), f, res)
<1> DEFINE g == <<frames[f].epoch, BucketOf(f, res)>>
<1>1. g \in Groups(res, ids) /\ f \in GroupFrames(ids, res, g)
  BY DEF Groups, GroupFrames, InGroup
<1> HIDE DEF g
<1>2. PICK r \in SegmentRows(res, g[1], g[2], GroupFrames(ids, res, g)) : f \in r.sources
  <2>1. RowsCut(res, g[1], g[2], GroupFrames(ids, res, g))
    BY <1>1, GroupRowsCut
  <2> QED BY <1>1, <2>1 DEF RowsCut
<1>3. r \in Upsert(rows, res, ids) /\ r.resolution = res
  BY <1>1, <1>2, UpsertRow, WrittenRow
<1> QED BY <1>2, <1>3 DEF Covered

\* Whatever had a row of another resolution keeps it; and what had a row of this
\* one, if all that had one in a bucket is read again with anything else of it.
LEMMA UpsertKeeps ==
  ASSUME Stored, NEW rows, Table(rows), NEW res \in Resolutions, NEW ids \in SUBSET Ids,
         NEW f \in Ids, NEW other \in Resolutions, Covered(rows, f, other),
         other = res => \A h \in ids : BucketOf(h, res) = BucketOf(f, res) => f \in ids
  PROVE  Covered(Upsert(rows, res, ids), f, other)
<1>1. PICK r \in rows : r.resolution = other /\ f \in r.sources
  BY DEF Covered
<1>2. CASE other # res
  <2>1. r \in Upsert(rows, res, ids)
    BY <1>1, <1>2, UpsertRow
  <2> QED BY <1>1, <2>1 DEF Covered
<1>3. CASE other = res /\ f \in ids
  BY <1>3, UpsertCovers
<1>4. CASE other = res /\ f \notin ids
  <2>1. InGroup(f, res, r.epoch, r.bucket)
    <3>1. PICK ids2 \in SUBSET Ids : \E segments \in Seq(SUBSET ids2) :
            /\ CutOf(segments, ids2, r.resolution, r.epoch, r.bucket)
            /\ r.sources \subseteq ids2
      BY <1>1, RowFacts
    <3> QED BY <1>1, <1>4, <3>1 DEF CutOf
  <2>2. <<r.epoch, r.bucket>> \notin Groups(res, ids)
    <3> SUFFICES ASSUME NEW h \in ids, <<r.epoch, r.bucket>> = <<frames[h].epoch, BucketOf(h, res)>>
                 PROVE  FALSE
      BY DEF Groups
    <3>1. BucketOf(h, res) = BucketOf(f, res)
      BY <2>1 DEF InGroup
    <3> QED BY <1>4, <3>1
  <2>3. r \in Upsert(rows, res, ids)
    BY <1>1, <2>2, UpsertRow
  <2> QED BY <1>1, <2>3 DEF Covered
<1> QED BY <1>2, <1>3, <1>4

\* A row is made of what is read, or is an old one.
LEMMA UpsertSources ==
  ASSUME Stored, NEW rows, NEW res \in Resolutions, NEW ids \in SUBSET Ids,
         NEW r \in Upsert(rows, res, ids)
  PROVE  r \in rows \/ r.sources \subseteq ids
<1>1. CASE r \in rows
  BY <1>1
<1>2. CASE \E g \in Groups(res, ids) :
             r \in SegmentRows(res, g[1], g[2], GroupFrames(ids, res, g))
  BY <1>2, WrittenRow
<1> QED BY <1>1, <1>2, UpsertRow

\* Frames stored later change no row.
LEMMA TableKept ==
  ASSUME Stored, NEW rows, Table(rows),
         Ids \subseteq Ids', \A f \in Ids : frames'[f] = frames[f]
  PROVE  Table(rows)'
<1>1. ASSUME NEW res \in Resolutions, NEW epoch \in Epochs, NEW bucket \in Time
      PROVE  CutGroup(rows, res, epoch, bucket)'
  <2>1. CutGroup(rows, res, epoch, bucket)
    BY DEF Table
  <2>2. CASE GroupIn(rows, res, epoch, bucket) = {}
    BY <2>2 DEF CutGroup, GroupIn
  <2>3. ASSUME NEW ids \in SUBSET Ids, NEW segments \in Seq(SUBSET ids),
               CutOf(segments, ids, res, epoch, bucket),
               GroupIn(rows, res, epoch, bucket) = RowsOf(res, epoch, bucket, segments)
        PROVE  CutGroup(rows, res, epoch, bucket)'
    <3>1. ids \in SUBSET Ids' /\ \A f \in ids : frames'[f] = frames[f]
      OBVIOUS
    <3>2. \A i \in DOMAIN segments : segments[i] \in SUBSET ids
      OBVIOUS
    <3>3. \A i \in DOMAIN segments : TotalOf(segments[i])' = TotalOf(segments[i])
      <4> SUFFICES ASSUME NEW i \in DOMAIN segments
                   PROVE  TotalOf(segments[i])' = TotalOf(segments[i])
        OBVIOUS
      <4>1. \A f \in segments[i] : frames'[f] = frames[f]
        BY <3>1, <3>2
      <4> QED BY <4>1, TotalKept
    <3>4. \A f, g \in ids : Before(f, g) => Before(f, g)'
      BY <3>1 DEF Before
    <3>5. WellCut(segments, ids)
      BY <2>3 DEF CutOf
    <3>6. WellCut(segments, ids)'
      BY <3>2, <3>3, <3>4, <3>5 DEF WellCut
    <3>7. \A f \in ids : InGroup(f, res, epoch, bucket)'
      BY <2>3, <3>1 DEF CutOf, InGroup, BucketOf
    <3>8. CutOf(segments, ids, res, epoch, bucket)'
      BY <2>3, <3>6, <3>7 DEF CutOf
    <3>9. (GroupIn(rows, res, epoch, bucket) = RowsOf(res, epoch, bucket, segments))'
      BY <2>3 DEF GroupIn, RowsOf
    <3> QED BY <3>1, <3>8, <3>9 DEF CutGroup
  <2> QED BY <2>1, <2>2, <2>3 DEF CutGroup
<1>2. rows \subseteq Rollup
  BY DEF Table
<1> QED BY <1>1, <1>2 DEF Table

-----------------------------------------------------------------------------
(* The invariant. *)

\* Watermarks are borders, and a whole bucket before a time.
MarksAt(marks, time) ==
  \A res \in DOMAIN marks :
    /\ \E k \in Int : marks[res] = k * Length(res)
    /\ marks[res] + Length(res) <= time

\* Rows are made of frames that ended before a time.
RolledBefore(rows, time) ==
  \A r \in rows : \A f \in r.sources : frames[f].ended < time

\* Only late frames are missed.
MissedLate(rows, marks) ==
  \A res \in DOMAIN marks, f \in Ids :
    frames[f].ended < marks[res] /\ ~Covered(rows, f, res) => res \in frames[f].late

\* The run's table has what the committed one has.
DraftCovers ==
  pc # "idle" =>
    \A res \in Resolutions, f \in Ids : Covered(rollups, f, res) => Covered(draft, f, res)

RollInv ==
  /\ TypeOK
  /\ jobNow <= now
  /\ Table(rollups) /\ Table(draft)
  /\ MarksAt(watermarks, now) /\ MarksAt(draftMarks, jobNow)
  /\ RolledBefore(rollups, now) /\ RolledBefore(draft, jobNow)
  /\ MissedLate(rollups, watermarks) /\ MissedLate(draft, draftMarks)
  /\ DraftCovers

\* The invariant holds at the start.
LEMMA InvInit == Init => RollInv
<1> SUFFICES ASSUME Init PROVE RollInv
  OBVIOUS
<1>1. Table({})
  BY NoRows
<1>2. MaxTime \in Nat /\ MaxTime >= 1 /\ MaxFrames \in Nat
  BY BoundsAssumption
<1>3. frames \in Seq(Frame) /\ Len(frames) = 0
  BY DEF Init
<1>4. DOMAIN watermarks = {} /\ DOMAIN draftMarks = {}
  BY DEF Init
<1>5. now \in Time /\ observed \in Time /\ accumulated \in Time /\ jobNow \in Time /\ jobNow <= now
  BY <1>2 DEF Init, Time
<1>6. TypeOK
  BY <1>2, <1>3, <1>4, <1>5 DEF Init, TypeOK, Resolutions
<1>7. rollups = {} /\ draft = {} /\ pc = "idle"
  BY DEF Init
<1> QED BY <1>1, <1>4, <1>5, <1>6, <1>7
     DEF RollInv, MarksAt, RolledBefore, MissedLate, DraftCovers

\* Frames that are there already do not change.
FramesKept ==
  /\ Ids \subseteq Ids'
  /\ \A f \in Ids : frames'[f] = frames[f]

\* TableKept, for every table.
LEMMA RowsKept ==
  ASSUME Stored, FramesKept
  PROVE  \A rows : Table(rows) => Table(rows)'
<1> TAKE rows
<1> HAVE Table(rows)
<1> QED BY TableKept DEF FramesKept

\* The frames of a row belong to its group.
LEMMA RowSources ==
  ASSUME Stored, NEW rows, Table(rows), NEW r \in rows
  PROVE  r.sources \subseteq Ids /\ \A f \in r.sources : InGroup(f, r.resolution, r.epoch, r.bucket)
<1>1. PICK ids \in SUBSET Ids : \E segments \in Seq(SUBSET ids) :
        /\ CutOf(segments, ids, r.resolution, r.epoch, r.bucket)
        /\ r.sources \subseteq ids
  BY RowFacts
<1> QED BY <1>1 DEF CutOf

\* A committed frame ended before; it is late if its bucket was closed.
NewFrames ==
  \A f \in Ids' \ Ids : \A res \in Resolutions :
    /\ frames'[f].ended \in Time
    /\ res \in frames'[f].late <=> now - frames'[f].ended > Length(res)

\* A commit of the collector only adds frames.
LEMMA CommitFrames ==
  ASSUME TypeOK, CommitSpectrum
  PROVE  /\ frames' \in Seq(Frame) /\ Len(frames') <= MaxFrames
         /\ FramesKept /\ NewFrames
         /\ accumulated' \in Time /\ observed' \in Time
<1>1. /\ frames \in Seq(Frame) /\ Len(frames) <= MaxFrames
      /\ accumulated \in Time /\ observed \in Time /\ now \in Time /\ 0 \in Time
  BY BoundsAssumption DEF TypeOK, Time
<1>2. accumulated' \in Time /\ observed' \in Time
  BY <1>1 DEF CommitSpectrum
<1>3. CASE UNCHANGED frames
  BY <1>1, <1>2, <1>3 DEF FramesKept, NewFrames, Ids
<1>4. ASSUME NEW ended \in Time, Store(ended)
      PROVE  /\ frames' \in Seq(Frame) /\ Len(frames') <= MaxFrames
             /\ FramesKept /\ NewFrames
  <2> DEFINE late == {res \in Resolutions : now - ended > Length(res)}
  <2>1. PICK e \in Epochs, c \in Counts :
          frames' = Append(frames, [ended |-> ended, epoch |-> e, counts |-> c, late |-> late])
    BY <1>4 DEF Store
  <2> DEFINE new == [ended |-> ended, epoch |-> e, counts |-> c, late |-> late]
             n == Len(frames)
  <2>2. new \in Frame
    BY DEF Frame
  <2>3. n < MaxFrames /\ n \in Nat /\ MaxFrames \in Nat
    BY <1>1, <1>4, BoundsAssumption, LenProperties DEF Store
  <2> HIDE DEF new
  <2>4. /\ frames' \in Seq(Frame) /\ Len(frames') = n + 1
        /\ \A i \in 1..n : frames'[i] = frames[i]
        /\ frames'[n + 1] = new
    BY <1>1, <2>1, <2>2, AppendProperties DEF new
  <2>5. Ids = 1..n /\ Ids' = 1..(n + 1)
    <3>1. DOMAIN frames = 1..n
      BY <1>1, LenProperties
    <3>2. DOMAIN frames' = 1..Len(frames')
      BY <2>4, LenProperties
    <3> QED BY <2>4, <3>1, <3>2 DEF Ids
  <2>6. FramesKept
    BY <2>3, <2>4, <2>5 DEF FramesKept
  <2>7. NewFrames
    <3>1. Ids' \ Ids = {n + 1}
      BY <2>3, <2>5
    <3>2. new.ended = ended /\ new.late = late
      BY DEF new
    <3> QED BY <2>4, <3>1, <3>2 DEF NewFrames
  <2>8. Len(frames') <= MaxFrames
    BY <2>3, <2>4
  <2> QED BY <2>4, <2>6, <2>7, <2>8
<1> QED BY <1>1, <1>2, <1>3, <1>4 DEF CommitSpectrum

\* The source's own steps.
LEMMA InvSource ==
  ASSUME RollInv, ReadSpectrum \/ CommitSpectrum \/ Tick
  PROVE  RollInv'
<1>1. TypeOK /\ Stored
  BY DEF RollInv, TypeOK, Stored
<1>2. UNCHANGED <<rollups, watermarks, pc, resolution, jobNow, draft, draftMarks>>
  BY DEF ReadSpectrum, CommitSpectrum, Tick, jobVars
<1>3. /\ frames' \in Seq(Frame) /\ Len(frames') <= MaxFrames
      /\ FramesKept /\ NewFrames
      /\ accumulated' \in Time /\ observed' \in Time
      /\ now' \in Time /\ now <= now'
  <2>1. /\ frames \in Seq(Frame) /\ Len(frames) <= MaxFrames
        /\ accumulated \in Time /\ observed \in Time /\ now \in Time /\ MaxTime \in Nat
    BY <1>1, BoundsAssumption DEF TypeOK
  <2>2. CASE ReadSpectrum
    BY <2>1, <2>2 DEF ReadSpectrum, FramesKept, NewFrames, Ids, Time
  <2>3. CASE Tick
    BY <2>1, <2>3 DEF Tick, FramesKept, NewFrames, Ids, Time
  <2>4. CASE CommitSpectrum
    <3>1. now' = now
      BY <2>4 DEF CommitSpectrum
    <3> QED BY <1>1, <2>1, <2>4, <3>1, CommitFrames DEF Time
  <2> QED BY <2>2, <2>3, <2>4
<1>4. TypeOK'
  BY <1>1, <1>2, <1>3 DEF TypeOK
<1>5. jobNow' <= now' /\ jobNow <= now /\ now \in Int /\ now' \in Int /\ jobNow \in Int
  BY <1>1, <1>2, <1>3 DEF RollInv, TypeOK, Time
<1>6. Table(rollups)' /\ Table(draft)'
  BY <1>1, <1>2, <1>3, RowsKept DEF RollInv
<1>l. \A res \in Resolutions : Length(res) \in Nat
  BY LengthsAssumption DEF Length
<1>7. MarksAt(watermarks, now)' /\ MarksAt(draftMarks, jobNow)'
  <2>1. ASSUME NEW res \in DOMAIN watermarks PROVE watermarks[res] + Length(res) <= now'
    BY <1>1, <1>l, <1>3, <1>5 DEF RollInv, MarksAt, TypeOK
  <2> QED BY <1>2, <2>1 DEF RollInv, MarksAt
<1>8. RolledBefore(rollups, now)' /\ RolledBefore(draft, jobNow)'
  <2>1. ASSUME NEW rows, Table(rows), NEW time, RolledBefore(rows, time),
               NEW r \in rows, NEW f \in r.sources
        PROVE  frames'[f] = frames[f] /\ frames[f].ended < time /\ frames[f].ended \in Int
    <3>1. f \in Ids
      BY <1>1, <2>1, RowSources
    <3> QED BY <1>1, <1>3, <2>1, <3>1, FrameFacts DEF FramesKept, RolledBefore, Stored
  <2>2. \A r \in rollups : \A f \in r.sources :
          frames'[f] = frames[f] /\ frames[f].ended < now /\ frames[f].ended \in Int
    BY <2>1 DEF RollInv
  <2>3. \A r \in draft : \A f \in r.sources : frames'[f] = frames[f] /\ frames[f].ended < jobNow
    BY <2>1 DEF RollInv
  <2>4. \A r \in rollups : \A f \in r.sources : frames'[f].ended < now'
    BY <2>2, <1>3, <1>5
  <2> QED BY <1>2, <2>3, <2>4 DEF RolledBefore
<1>9. MissedLate(rollups, watermarks)' /\ MissedLate(draft, draftMarks)'
  <2>1. ASSUME NEW rows, NEW marks, NEW time \in Int, time <= now,
               MarksAt(marks, time), MissedLate(rows, marks),
               NEW res \in DOMAIN marks, res \in Resolutions, marks[res] \in Int,
               NEW f \in Ids', frames'[f].ended < marks[res], ~Covered(rows, f, res)
        PROVE  res \in frames'[f].late
    <3>1. CASE f \in Ids
      <4>1. frames'[f] = frames[f]
        BY <1>3, <3>1 DEF FramesKept
      <4> QED BY <2>1, <3>1, <4>1 DEF MissedLate
    <3>2. CASE f \notin Ids
      <4>1. frames'[f].ended \in Int
        BY <1>3, <2>1, <3>2 DEF NewFrames, Time
      <4>2. marks[res] + Length(res) <= time /\ Length(res) \in Nat
        BY <2>1, <1>l DEF MarksAt
      <4>3. now - frames'[f].ended > Length(res)
        BY <4>1, <4>2, <2>1, <1>5
      <4> QED BY <1>3, <2>1, <3>2, <4>3 DEF NewFrames
    <3> QED BY <3>1, <3>2
  <2>2. \A res \in DOMAIN watermarks : res \in Resolutions /\ watermarks[res] \in Int
    BY <1>1 DEF TypeOK
  <2>3. \A res \in DOMAIN draftMarks : res \in Resolutions /\ draftMarks[res] \in Int
    BY <1>1 DEF TypeOK
  <2>4. \A res \in DOMAIN watermarks, f \in Ids' :
          frames'[f].ended < watermarks[res] /\ ~Covered(rollups, f, res)
            => res \in frames'[f].late
    BY <1>5, <2>1, <2>2 DEF RollInv
  <2>5. \A res \in DOMAIN draftMarks, f \in Ids' :
          frames'[f].ended < draftMarks[res] /\ ~Covered(draft, f, res)
            => res \in frames'[f].late
    BY <1>5, <2>1, <2>3 DEF RollInv
  <2> QED BY <1>2, <2>4, <2>5 DEF MissedLate, Covered
<1>10. DraftCovers'
  <2> SUFFICES ASSUME pc # "idle", NEW res \in Resolutions, NEW f \in Ids', Covered(rollups, f, res)
               PROVE  Covered(draft, f, res)
    BY <1>2 DEF DraftCovers, Covered
  <2>1. f \in Ids
    BY <1>1, RowSources DEF Covered, RollInv
  <2> QED BY <2>1 DEF RollInv, DraftCovers
<1> QED BY <1>4, <1>5, <1>6, <1>7, <1>8, <1>9, <1>10 DEF RollInv

\* Frames of one bucket lie on the same side of a border.
LEMMA SameSide ==
  ASSUME Stored, NEW res \in Resolutions, NEW border, NEW k \in Int, border = k * Length(res),
         NEW f \in Ids, NEW h \in Ids, BucketOf(f, res) = BucketOf(h, res)
  PROVE  /\ frames[f].ended < border <=> frames[h].ended < border
         /\ frames[f].ended >= border <=> frames[h].ended >= border
<1>1. frames[f].ended \in Nat /\ frames[h].ended \in Nat
  BY FrameFacts DEF Stored
<1>2. Floor(frames[f].ended, res) = Floor(frames[h].ended, res)
  BY DEF BucketOf
<1>3. /\ border <= frames[f].ended <=> border <= Floor(frames[f].ended, res)
      /\ border <= frames[h].ended <=> border <= Floor(frames[h].ended, res)
  BY <1>1, BorderSeparatesBuckets
<1>4. border \in Int
  BY LengthPositive
<1> QED BY <1>1, <1>2, <1>3, <1>4

\* The boundary of a run is a border, not after the run.
LEMMA BoundaryFacts ==
  ASSUME TypeOK
  PROVE  /\ resolution \in Resolutions /\ Length(resolution) \in Nat
         /\ jobNow \in Int /\ now \in Int
         /\ Boundary \in Int /\ Boundary <= jobNow
         /\ \E k \in Int : Boundary = k * Length(resolution)
         /\ \E k \in Int : Watermark = k * Length(resolution)
         /\ Watermark \in Int /\ Watermark + Length(resolution) = Boundary
<1> DEFINE length == Length(resolution)
           k == jobNow \div length
<1>1. resolution \in Resolutions /\ jobNow \in Int /\ now \in Int
  BY DEF TypeOK, Time
<1>2. length \in Nat \ {0}
  BY <1>1, LengthPositive
<1>3. Boundary \in Int /\ Boundary <= jobNow /\ Boundary = k * length
  BY <1>1, FloorBounds DEF Boundary, Floor
<1>4. Watermark = Boundary - length
  BY DEF Watermark
<1> HIDE DEF length
<1>5. k \in Int
  BY <1>1, <1>2, SMTT(60)
<1> HIDE DEF k
<1>6. k * length - length = (k - 1) * length /\ k - 1 \in Int
  BY <1>2, <1>5, SMTT(60)
<1>7. Watermark \in Int /\ Watermark + length = Boundary /\ Watermark = (k - 1) * length
  BY <1>2, <1>3, <1>4, <1>6
<1> QED BY <1>1, <1>2, <1>3, <1>5, <1>6, <1>7 DEF length

\* Rolling up frames that ended before the run, with all earlier ones of their buckets.
LEMMA UpsertInv ==
  ASSUME RollInv, NEW ids \in SUBSET Ids,
         \A f \in ids : frames[f].ended < jobNow,
         \A h \in ids, f \in Ids :
           /\ BucketOf(h, resolution) = BucketOf(f, resolution)
           /\ frames[f].ended < jobNow
           => f \in ids
  PROVE  /\ Table(Upsert(draft, resolution, ids))
         /\ RolledBefore(Upsert(draft, resolution, ids), jobNow)
         /\ \A res \in Resolutions, f \in Ids :
              Covered(draft, f, res) => Covered(Upsert(draft, resolution, ids), f, res)
<1>1. Stored /\ Table(draft) /\ resolution \in Resolutions /\ RolledBefore(draft, jobNow)
  BY DEF RollInv, TypeOK, Stored
<1>2. Table(Upsert(draft, resolution, ids))
  BY <1>1, UpsertTable
<1>3. RolledBefore(Upsert(draft, resolution, ids), jobNow)
  <2> SUFFICES ASSUME NEW r \in Upsert(draft, resolution, ids), NEW f \in r.sources
               PROVE  frames[f].ended < jobNow
    BY DEF RolledBefore
  <2>1. r \in draft \/ r.sources \subseteq ids
    BY <1>1, UpsertSources
  <2> QED BY <1>1, <2>1 DEF RolledBefore
<1>4. ASSUME NEW res \in Resolutions, NEW f \in Ids, Covered(draft, f, res)
      PROVE  Covered(Upsert(draft, resolution, ids), f, res)
  <2>1. frames[f].ended < jobNow
    BY <1>1, <1>4 DEF Covered, RolledBefore
  <2>2. \A h \in ids : BucketOf(h, resolution) = BucketOf(f, resolution) => f \in ids
    BY <2>1
  <2> QED BY <1>1, <1>4, <2>2, UpsertKeeps
<1> QED BY <1>2, <1>3, <1>4

\* A run's step replaces its table and its watermarks by others that are as good.
LEMMA InvDraft ==
  ASSUME RollInv, pc # "idle",
         UNCHANGED <<sourceVars, rollups, watermarks, jobNow>>,
         pc' \in {"closed", "open", "commit"}, resolution' \in Resolutions,
         NEW rows, draft' = rows,
         Table(rows), RolledBefore(rows, jobNow),
         \A res \in Resolutions, f \in Ids : Covered(draft, f, res) => Covered(rows, f, res),
         NEW marks, draftMarks' = marks,
         DOMAIN marks \subseteq Resolutions, \A res \in DOMAIN marks : marks[res] \in Int,
         MarksAt(marks, jobNow), MissedLate(rows, marks)
  PROVE  RollInv'
<1>1. TypeOK /\ Stored
  BY DEF RollInv, TypeOK, Stored
<1>2. UNCHANGED <<now, observed, accumulated, frames, rollups, watermarks, jobNow>>
  BY DEF sourceVars
<1>3. FramesKept
  BY <1>2 DEF FramesKept, Ids
<1>4. TypeOK'
  <2>1. rows \subseteq Rollup
    BY DEF Table
  <2> QED BY <1>1, <1>2, <2>1 DEF TypeOK
<1>5. Table(rollups)' /\ Table(draft)'
  BY <1>1, <1>2, <1>3, RowsKept DEF RollInv
<1>6. MarksAt(watermarks, now)' /\ MarksAt(draftMarks, jobNow)'
  BY <1>2 DEF RollInv, MarksAt
<1>7. RolledBefore(rollups, now)' /\ RolledBefore(draft, jobNow)'
  BY <1>2 DEF RollInv, RolledBefore
<1>8. MissedLate(rollups, watermarks)' /\ MissedLate(draft, draftMarks)'
  <2>1. Ids' = Ids
    BY <1>2 DEF Ids
  <2> QED BY <1>2, <2>1 DEF RollInv, MissedLate, Covered
<1>9. DraftCovers'
  <2> SUFFICES ASSUME NEW res \in Resolutions, NEW f \in Ids, Covered(rollups, f, res)
               PROVE  Covered(rows, f, res)
    BY <1>2 DEF DraftCovers, Covered, Ids
  <2> QED BY DEF RollInv, DraftCovers
<1>10. (jobNow <= now)'
  BY <1>2 DEF RollInv
<1> QED BY <1>4, <1>5, <1>6, <1>7, <1>8, <1>9, <1>10 DEF RollInv

\* The step over the open bucket keeps the invariant.
LEMMA InvRollOpen ==
  ASSUME RollInv, RollOpen
  PROVE  RollInv'
<1> DEFINE ids == {f \in Ids : frames[f].ended \in Boundary..(jobNow - 1)}
<1>1. TypeOK /\ Stored /\ pc = "open"
  BY DEF RollInv, TypeOK, Stored, RollOpen
<1>2. /\ resolution \in Resolutions /\ jobNow \in Int /\ Boundary \in Int
      /\ \E k \in Int : Boundary = k * Length(resolution)
  BY <1>1, BoundaryFacts
<1>3. \A f \in Ids : frames[f].ended \in Int
  BY <1>1, FrameFacts DEF Stored
<1>4. ids \in SUBSET Ids /\ \A f \in ids : frames[f].ended < jobNow
  BY <1>2
<1>5. ASSUME NEW h \in ids, NEW f \in Ids,
             BucketOf(h, resolution) = BucketOf(f, resolution), frames[f].ended < jobNow
      PROVE  f \in ids
  <2>1. frames[h].ended >= Boundary
    BY <1>2, <1>3
  <2>2. frames[f].ended >= Boundary
    BY <1>1, <1>2, <1>5, <2>1, SameSide
  <2> QED BY <1>2, <1>3, <1>5, <2>2
<1>6. draft' = Upsert(draft, resolution, ids)
  BY DEF RollOpen
<1>7. /\ UNCHANGED <<sourceVars, rollups, watermarks, jobNow, draftMarks>>
      /\ pc' \in {"closed", "open", "commit"} /\ resolution' \in Resolutions
  BY <1>2 DEF RollOpen, Resolutions
<1> HIDE DEF ids
<1>8. PICK rows : rows = Upsert(draft, resolution, ids)
  OBVIOUS
<1>9. /\ Table(rows) /\ RolledBefore(rows, jobNow)
      /\ \A res \in Resolutions, f \in Ids : Covered(draft, f, res) => Covered(rows, f, res)
  BY <1>4, <1>5, <1>8, UpsertInv
<1>10. PICK marks : marks = draftMarks
  OBVIOUS
<1>11. /\ DOMAIN marks \subseteq Resolutions /\ \A res \in DOMAIN marks : marks[res] \in Int
       /\ MarksAt(marks, jobNow)
  BY <1>1, <1>10 DEF TypeOK, RollInv
<1>12. MissedLate(rows, marks)
  <2>1. MissedLate(draft, marks)
    BY <1>10 DEF RollInv
  <2> QED BY <1>9, <1>11, <2>1 DEF MissedLate
<1>13. draft' = rows /\ draftMarks' = marks
  BY <1>6, <1>7, <1>8, <1>10
<1>14. UNCHANGED <<sourceVars, rollups, watermarks, jobNow>> /\ pc # "idle"
  BY <1>1, <1>7
<1> QED BY <1>7, <1>9, <1>11, <1>12, <1>13, <1>14, InvDraft

\* The step over the closed buckets keeps the invariant.
LEMMA InvRollClosed ==
  ASSUME RollInv, RollClosed
  PROVE  RollInv'
<1> DEFINE skipped == resolution \in DOMAIN draftMarks /\ draftMarks[resolution] >= Boundary
           new == IF skipped THEN draft ELSE Upsert(draft, resolution, Closed)
           newMarks == [res \in DOMAIN draftMarks \cup {resolution} |->
                          IF res = resolution THEN Watermark ELSE draftMarks[res]]
<1>1. TypeOK /\ Stored /\ pc = "closed"
  BY DEF RollInv, TypeOK, Stored, RollClosed
<1>2. /\ resolution \in Resolutions /\ jobNow \in Int /\ Boundary \in Int /\ Boundary <= jobNow
      /\ \E k \in Int : Boundary = k * Length(resolution)
      /\ \E k \in Int : Watermark = k * Length(resolution)
      /\ Length(resolution) \in Nat
      /\ Watermark \in Int /\ Watermark + Length(resolution) = Boundary
  BY <1>1, BoundaryFacts
<1>3. \A f \in Ids : frames[f].ended \in Int
  BY <1>1, FrameFacts DEF Stored
<1>m. /\ DOMAIN draftMarks \subseteq Resolutions
      /\ \A res \in DOMAIN draftMarks : draftMarks[res] \in Int
      /\ MarksAt(draftMarks, jobNow) /\ MissedLate(draft, draftMarks)
      /\ Table(draft) /\ RolledBefore(draft, jobNow)
  BY <1>1 DEF TypeOK, RollInv
<1>4. Closed \in SUBSET Ids /\ \A f \in Closed : frames[f].ended < jobNow
  BY <1>2, <1>3 DEF Closed
<1>5. ASSUME NEW h \in Closed, NEW f \in Ids,
             BucketOf(h, resolution) = BucketOf(f, resolution)
      PROVE  f \in Closed
  <2>1. h \in Ids /\ frames[h].ended < Boundary
    BY DEF Closed
  <2>2. frames[f].ended < Boundary
    BY <1>1, <1>2, <1>5, <2>1, SameSide
  <2>3. CASE resolution \in DOMAIN draftMarks
    <3>1. frames[h].ended >= draftMarks[resolution]
      BY <2>3 DEF Closed
    <3>2. \E k \in Int : draftMarks[resolution] = k * Length(resolution)
      BY <1>m, <2>3 DEF MarksAt
    <3>3. frames[f].ended >= draftMarks[resolution]
      BY <1>1, <1>2, <1>5, <2>1, <3>1, <3>2, SameSide
    <3> QED BY <2>2, <3>3 DEF Closed
  <2>4. CASE resolution \notin DOMAIN draftMarks
    BY <2>2, <2>4 DEF Closed
  <2> QED BY <2>3, <2>4
<1>6. PICK rows : rows = new
  OBVIOUS
<1>7. /\ Table(rows) /\ RolledBefore(rows, jobNow)
      /\ \A res \in Resolutions, f \in Ids : Covered(draft, f, res) => Covered(rows, f, res)
  <2>1. CASE skipped
    BY <1>6, <1>m, <2>1
  <2>2. CASE ~skipped
    <3>1. rows = Upsert(draft, resolution, Closed)
      BY <1>6, <2>2
    <3> HIDE DEF skipped, new
    <3> QED BY <1>4, <1>5, <3>1, UpsertInv
  <2> QED BY <2>1, <2>2
<1>8. PICK marks : marks = newMarks
  OBVIOUS
<1>9. /\ DOMAIN marks \subseteq Resolutions
      /\ \A res \in DOMAIN marks :
           IF res = resolution THEN marks[res] = Watermark
           ELSE res \in DOMAIN draftMarks /\ marks[res] = draftMarks[res]
  BY <1>2, <1>8, <1>m
<1>10. \A res \in DOMAIN marks : marks[res] \in Int
  BY <1>2, <1>9, <1>m
<1>11. MarksAt(marks, jobNow)
  BY <1>2, <1>9, <1>m DEF MarksAt
<1>12. MissedLate(rows, marks)
  <2> SUFFICES ASSUME NEW res \in DOMAIN marks, NEW f \in Ids,
                      frames[f].ended < marks[res], ~Covered(rows, f, res)
               PROVE  res \in frames[f].late
    BY DEF MissedLate
  <2>1. ~Covered(draft, f, res)
    BY <1>7, <1>9
  <2>2. CASE res # resolution
    BY <1>9, <1>m, <2>1, <2>2 DEF MissedLate
  <2>3. CASE res = resolution
    <3>1. frames[f].ended < Boundary
      BY <1>2, <1>3, <1>9, <2>3
    <3>2. ASSUME resolution \in DOMAIN draftMarks, frames[f].ended < draftMarks[resolution]
          PROVE  res \in frames[f].late
      BY <1>m, <2>1, <2>3, <3>2 DEF MissedLate
    <3>3. ASSUME resolution \notin DOMAIN draftMarks \/ ~(frames[f].ended < draftMarks[resolution])
          PROVE  FALSE
      <4>1. resolution \in DOMAIN draftMarks => draftMarks[resolution] \in Int /\ frames[f].ended \in Int
        BY <1>3, <1>m
      <4>2. f \in Closed
        BY <3>1, <3>3, <4>1 DEF Closed
      <4>3. ~skipped
        BY <1>2, <1>3, <3>1, <3>3, <4>1
      <4>4. rows = Upsert(draft, resolution, Closed)
        BY <1>6, <4>3
      <4>5. Covered(rows, f, resolution)
        BY <1>1, <1>2, <1>4, <4>2, <4>4, UpsertCovers
      <4> QED BY <2>3, <4>5
    <3> QED BY <3>2, <3>3
  <2> QED BY <2>2, <2>3
<1>13. draft' = rows /\ draftMarks' = marks
  BY <1>6, <1>8 DEF RollClosed
<1>14. /\ UNCHANGED <<sourceVars, rollups, watermarks, jobNow>> /\ pc # "idle"
       /\ pc' \in {"closed", "open", "commit"} /\ resolution' \in Resolutions
  BY <1>1, <1>2 DEF RollClosed
<1> HIDE DEF skipped, new, newMarks
<1> QED BY <1>7, <1>9, <1>10, <1>11, <1>12, <1>13, <1>14, InvDraft

\* The start of a run keeps the invariant.
LEMMA InvStartRun ==
  ASSUME RollInv, StartRun
  PROVE  RollInv'
<1>1. TypeOK /\ Stored
  BY DEF RollInv, TypeOK, Stored
<1>2. /\ UNCHANGED <<now, observed, accumulated, frames, rollups, watermarks>>
      /\ pc' = "closed" /\ resolution' = "hour" /\ jobNow' = now
      /\ draft' = rollups /\ draftMarks' = watermarks
  BY DEF StartRun, sourceVars
<1>3. FramesKept /\ Ids' = Ids
  BY <1>2 DEF FramesKept, Ids
<1>4. TypeOK'
  BY <1>1, <1>2 DEF TypeOK, Resolutions
<1>5. Table(rollups)' /\ Table(draft)'
  BY <1>1, <1>2, <1>3, RowsKept DEF RollInv
<1>6. MarksAt(watermarks, now)' /\ MarksAt(draftMarks, jobNow)'
  BY <1>2 DEF RollInv, MarksAt
<1>7. RolledBefore(rollups, now)' /\ RolledBefore(draft, jobNow)'
  BY <1>2 DEF RollInv, RolledBefore
<1>8. MissedLate(rollups, watermarks)' /\ MissedLate(draft, draftMarks)'
  BY <1>2, <1>3 DEF RollInv, MissedLate, Covered
<1>9. DraftCovers'
  BY <1>2 DEF DraftCovers, Covered
<1>10. (jobNow <= now)'
  BY <1>1, <1>2 DEF TypeOK, Time
<1> QED BY <1>4, <1>5, <1>6, <1>7, <1>8, <1>9, <1>10 DEF RollInv

\* The end of a run keeps the invariant.
LEMMA InvEndRun ==
  ASSUME RollInv, CommitRun \/ AbortRun
  PROVE  RollInv'
<1>1. TypeOK /\ Stored
  BY DEF RollInv, TypeOK, Stored
<1>2. /\ UNCHANGED <<now, observed, accumulated, frames>>
      /\ pc' = "idle" /\ resolution' = "hour" /\ jobNow' = 0
      /\ draft' = {} /\ draftMarks' = <<>>
      /\ \/ rollups' = draft /\ watermarks' = draftMarks
         \/ rollups' = rollups /\ watermarks' = watermarks
  BY DEF CommitRun, AbortRun, EndRun, sourceVars
<1>3. FramesKept /\ Ids' = Ids
  BY <1>2 DEF FramesKept, Ids
<1>4. TypeOK'
  BY <1>1, <1>2, BoundsAssumption DEF TypeOK, Resolutions, Time
<1>5. Table(rollups)' /\ Table(draft)'
  BY <1>1, <1>2, <1>3, RowsKept, NoRows DEF RollInv
<1>t. now \in Int /\ jobNow \in Int /\ jobNow <= now /\ 0 <= now
      /\ \A f \in Ids : frames[f].ended \in Int
  BY <1>1, FrameFacts DEF RollInv, TypeOK, Time, Stored
<1>6. MarksAt(watermarks, now)' /\ MarksAt(draftMarks, jobNow)'
  <2>1. ASSUME NEW res \in DOMAIN draftMarks PROVE draftMarks[res] + Length(res) <= now
    <3>1. draftMarks[res] + Length(res) <= jobNow /\ draftMarks[res] \in Int /\ Length(res) \in Int
      BY <1>1, LengthPositive DEF RollInv, MarksAt, TypeOK
    <3> QED BY <1>t, <3>1
  <2> QED BY <1>2, <2>1 DEF RollInv, MarksAt
<1>7. RolledBefore(rollups, now)' /\ RolledBefore(draft, jobNow)'
  <2>1. ASSUME NEW r \in draft, NEW f \in r.sources PROVE frames[f].ended < now
    <3>1. f \in Ids
      BY <1>1, RowSources DEF RollInv
    <3>2. frames[f].ended < jobNow
      BY DEF RollInv, RolledBefore
    <3> QED BY <1>t, <3>1, <3>2
  <2> QED BY <1>2, <2>1 DEF RollInv, RolledBefore
<1>8. MissedLate(rollups, watermarks)' /\ MissedLate(draft, draftMarks)'
  BY <1>2, <1>3 DEF RollInv, MissedLate, Covered
<1>9. DraftCovers' /\ (jobNow <= now)'
  BY <1>2, <1>t DEF DraftCovers
<1> QED BY <1>4, <1>5, <1>6, <1>7, <1>8, <1>9 DEF RollInv

\* A step of something else keeps the invariant.
LEMMA InvStutter ==
  ASSUME RollInv, UNCHANGED vars
  PROVE  RollInv'
<1>2. UNCHANGED <<now, observed, accumulated, frames, rollups, watermarks, pc, resolution,
                  jobNow, draft, draftMarks>>
  BY DEF vars, sourceVars, jobVars
<1>3. FramesKept /\ Ids' = Ids /\ Stored
  BY <1>2 DEF FramesKept, Ids, RollInv, TypeOK, Stored
<1>5. Table(rollups)' /\ Table(draft)'
  BY <1>2, <1>3, RowsKept DEF RollInv
<1> QED BY <1>2, <1>3, <1>5
     DEF RollInv, TypeOK, MarksAt, RolledBefore, MissedLate, DraftCovers, Covered

\* Every step keeps the invariant.
LEMMA InvNext == RollInv /\ [Next]_vars => RollInv'
<1> SUFFICES ASSUME RollInv, [Next]_vars PROVE RollInv'
  OBVIOUS
<1>1. CASE ReadSpectrum \/ CommitSpectrum \/ Tick
  BY <1>1, InvSource
<1>2. CASE StartRun
  BY <1>2, InvStartRun
<1>3. CASE RollClosed
  BY <1>3, InvRollClosed
<1>4. CASE RollOpen
  BY <1>4, InvRollOpen
<1>5. CASE CommitRun \/ AbortRun
  BY <1>5, InvEndRun
<1>6. CASE UNCHANGED vars
  BY <1>6, InvStutter
<1> QED BY <1>1, <1>2, <1>3, <1>4, <1>5, <1>6 DEF Next

\* The invariant always holds.
LEMMA RollInvHolds == Spec => []RollInv
BY InvInit, InvNext, PTL DEF Spec

-----------------------------------------------------------------------------
(* The properties. *)

\* The variables keep their types, whatever is stored while a run is open.
THEOREM TypesKept == Spec => []TypeOK
<1>1. RollInv => TypeOK
  BY DEF RollInv
<1> QED BY <1>1, RollInvHolds, PTL

\* _segment_frames: no committed rollup overflows the encoding.
THEOREM RollupsFit == Spec => []SegmentsFit
<1>1. RollInv => SegmentsFit
  <2> SUFFICES ASSUME RollInv, NEW r \in rollups PROVE TotalOf(r.sources) <= UINT32_MAX
    BY DEF SegmentsFit
  <2>1. Stored /\ Table(rollups)
    BY DEF RollInv, TypeOK, Stored
  <2>2. PICK ids \in SUBSET Ids : \E segments \in Seq(SUBSET ids) :
          /\ CutOf(segments, ids, r.resolution, r.epoch, r.bucket)
          /\ GroupIn(rollups, r.resolution, r.epoch, r.bucket)
               = RowsOf(r.resolution, r.epoch, r.bucket, segments)
          /\ \E i \in DOMAIN segments : r.segment = i - 1 /\ r.sources = segments[i]
          /\ r.sources \subseteq ids
    BY <2>1, RowFacts
  <2>3. PICK segments \in Seq(SUBSET ids) :
          /\ CutOf(segments, ids, r.resolution, r.epoch, r.bucket)
          /\ \E i \in DOMAIN segments : r.sources = segments[i]
    BY <2>2
  <2> QED BY <2>3 DEF CutOf, WellCut
<1> QED BY <1>1, RollInvHolds, PTL

\* The rows of a group are numbered and distinct.
LEMMA RowsNumbered ==
  ASSUME NEW res, NEW epoch, NEW bucket, NEW S, NEW segments \in Seq(S)
  PROVE  /\ IsFiniteSet(RowsOf(res, epoch, bucket, segments))
         /\ Cardinality(RowsOf(res, epoch, bucket, segments)) = Len(segments)
<1> DEFINE n == Len(segments)
           row(i) == [resolution |-> res, epoch |-> epoch, bucket |-> bucket,
                      segment |-> i - 1, sources |-> segments[i]]
           rows == RowsOf(res, epoch, bucket, segments)
           f == [i \in 1..n |-> row(i)]
<1>1. n \in Nat /\ DOMAIN segments = 1..n
  BY LenProperties
<1>2. \A i \in 1..n : f[i] = row(i) /\ f[i].segment = i - 1
  OBVIOUS
<1>3. \A i, j \in 1..n : f[i] = f[j] => i = j
  <2> SUFFICES ASSUME NEW i \in 1..n, NEW j \in 1..n, f[i] = f[j] PROVE i = j
    OBVIOUS
  <2>1. i - 1 = j - 1
    BY <1>2
  <2>2. i \in Int /\ j \in Int
    BY <1>1
  <2> HIDE DEF f, row
  <2> QED BY <2>1, <2>2
<1>4. f \in Bijection(1..n, rows)
  <2>1. f \in [1..n -> rows]
    BY <1>1 DEF RowsOf
  <2>2. \A r \in rows : \E i \in 1..n : f[i] = r
    BY <1>1 DEF RowsOf
  <2> HIDE DEF f, rows
  <2> QED BY <1>3, <2>1, <2>2 DEF Bijection, Injection, Surjection, IsInjective
<1>5. IsFiniteSet(1..n) /\ Cardinality(1..n) = n
  BY <1>1, FS_Interval
<1> HIDE DEF f, rows
<1>6. ExistsBijection(1..n, rows)
  BY <1>4 DEF ExistsBijection
<1>7. IsFiniteSet(rows) /\ Cardinality(rows) = n
  BY <1>5, <1>6, FS_Bijection
<1> QED BY <1>7 DEF rows

\* _segment_frames: a bucket's segments are numbered without a gap, in the order of time.
THEOREM RollupsInOrder == Spec => []SegmentsInOrder
<1>1. RollInv => SegmentsInOrder
  <2> SUFFICES ASSUME RollInv, NEW r \in rollups
               PROVE  LET group == GroupIn(rollups, r.resolution, r.epoch, r.bucket)
                      IN /\ r.segment < Cardinality(group)
                         /\ \A q \in group : r.segment < q.segment =>
                              \A f \in r.sources, g \in q.sources :
                                frames[f].ended <= frames[g].ended
    BY DEF SegmentsInOrder, GroupIn
  <2> DEFINE group == GroupIn(rollups, r.resolution, r.epoch, r.bucket)
  <2>1. Stored /\ Table(rollups)
    BY DEF RollInv, TypeOK, Stored
  <2>2. PICK ids \in SUBSET Ids : \E segments \in Seq(SUBSET ids) :
          /\ CutOf(segments, ids, r.resolution, r.epoch, r.bucket)
          /\ group = RowsOf(r.resolution, r.epoch, r.bucket, segments)
          /\ \E i \in DOMAIN segments : r.segment = i - 1 /\ r.sources = segments[i]
    BY <2>1, RowFacts
  <2>3. PICK segments \in Seq(SUBSET ids) :
          /\ CutOf(segments, ids, r.resolution, r.epoch, r.bucket)
          /\ group = RowsOf(r.resolution, r.epoch, r.bucket, segments)
          /\ \E i \in DOMAIN segments : r.segment = i - 1 /\ r.sources = segments[i]
    BY <2>2
  <2>4. PICK i \in DOMAIN segments : r.segment = i - 1 /\ r.sources = segments[i]
    BY <2>3
  <2>5. Cardinality(group) = Len(segments)
    BY <2>3, RowsNumbered
  <2>6. Len(segments) \in Nat /\ DOMAIN segments = 1..Len(segments)
        /\ segments \in [1..Len(segments) -> SUBSET ids]
    BY LenProperties
  <2>7. r.segment < Cardinality(group)
    BY <2>4, <2>5, <2>6
  <2>8. ASSUME NEW q \in group, r.segment < q.segment,
               NEW f \in r.sources, NEW g \in q.sources
        PROVE  frames[f].ended <= frames[g].ended
    <3>1. PICK j \in DOMAIN segments : q.segment = j - 1 /\ q.sources = segments[j]
      BY <2>3 DEF RowsOf
    <3>2. i < j
      BY <2>4, <2>6, <2>8, <3>1
    <3>3. Before(f, g)
      BY <2>3, <2>4, <2>8, <3>1, <3>2 DEF CutOf, WellCut
    <3>4. f \in Ids /\ g \in Ids
      <4>1. segments[i] \in SUBSET ids /\ segments[j] \in SUBSET ids
        BY <2>6, <3>1
      <4> QED BY <2>4, <2>8, <3>1, <4>1
    <3>5. frames[f].ended \in Nat /\ frames[g].ended \in Nat
      BY <2>1, <3>4, FrameFacts DEF Stored
    <3> QED BY <3>3, <3>5 DEF Before
  <2> QED BY <2>7, <2>8
<1> QED BY <1>1, RollInvHolds, PTL

\* _stream_spectrum_rollups: what no later run reads is rolled up, unless it was late.
THEOREM OnlyLateMissed == Spec => []MissedOnlyIfLate
<1>1. RollInv => MissedOnlyIfLate
  BY DEF RollInv, MissedLate, MissedOnlyIfLate, Covered, RolledUp
<1> QED BY <1>1, RollInvHolds, PTL

\* _roll_up_spectra: a frame that is in a rollup stays in one.
THEOREM RolledUpStays == Spec => NothingUnrolled
<1>1. RollInv /\ [Next]_vars =>
        [\A res \in Resolutions, f \in Ids : RolledUp(f, res) => RolledUp(f, res)']_vars
  <2> SUFFICES ASSUME RollInv, Next, NEW res \in Resolutions, NEW f \in Ids, RolledUp(f, res)
               PROVE  RolledUp(f, res)'
    OBVIOUS
  <2>1. CASE UNCHANGED rollups
    BY <2>1 DEF RolledUp
  <2>2. CASE CommitRun
    <3>1. pc # "idle" /\ rollups' = draft
      BY <2>2 DEF CommitRun
    <3>2. Covered(draft, f, res)
      BY <3>1 DEF RollInv, DraftCovers, RolledUp, Covered
    <3> QED BY <3>1, <3>2 DEF RolledUp, Covered
  <2> QED BY <2>1, <2>2
       DEF Next, ReadSpectrum, CommitSpectrum, Tick, StartRun, RollClosed, RollOpen, AbortRun
<1> QED BY <1>1, RollInvHolds, PTL DEF Spec, NothingUnrolled

-----------------------------------------------------------------------------
(* A request. *)

\* source_frame_count of some rows, added up.
Sizes(rows) == MapThenSumSet(LAMBDA r : Cardinality(r.sources), rows)

\* Sizes is the sum of the sizes as a function.
LEMMA SizesIsSum ==
  ASSUME NEW rows
  PROVE  Sizes(rows) = Sum([r \in rows |-> Cardinality(r.sources)], rows)
<1> DEFINE w == [r \in rows |-> Cardinality(r.sources)]
           F(h) == [s \in SUBSET rows |->
                     IF s = {} THEN 0
                     ELSE Cardinality((CHOOSE x \in s : TRUE).sources)
                            + h[s \ {CHOOSE x \in s : TRUE}]]
           G(h) == [s \in SUBSET rows |->
                     IF s = {} THEN 0
                     ELSE w[CHOOSE x \in s : TRUE]
                            + h[s \ {CHOOSE x \in s : TRUE}]]
<1>1. ASSUME NEW h PROVE F(h) = G(h)
  OBVIOUS
<1>2. Sizes(rows) = (CHOOSE h : h = F(h))[rows]
  BY DEF Sizes, MapThenSumSet, MapThenFoldSet
<1>3. Sum(w, rows) = (CHOOSE h : h = G(h))[rows]
  BY DEF Sum, MapThenSumSet, MapThenFoldSet
<1> HIDE DEF F, G, w
<1>4. (CHOOSE h : h = F(h)) = (CHOOSE h : h = G(h))
  BY <1>1
<1> QED BY <1>2, <1>3, <1>4 DEF w

\* Exactly one of the rows holds the frame.
OnceIn(f, rows) == \E r \in rows : {q \in rows : f \in q.sources} = {r}

\* The segments of frames hold as many as there are, each in one.
LEMMA SizesOfCut ==
  ASSUME Stored, NEW res, NEW epoch, NEW bucket, NEW ids \in SUBSET Ids,
         NEW segments \in Seq(SUBSET ids), WellCut(segments, ids)
  PROVE  /\ Sizes(RowsOf(res, epoch, bucket, segments)) = Cardinality(ids)
         /\ \A f \in ids : OnceIn(f, RowsOf(res, epoch, bucket, segments))
<1> DEFINE rows == RowsOf(res, epoch, bucket, segments)
           part == [r \in rows |-> r.sources]
<1>1. IsFiniteSet(rows)
  BY RowsNumbered
<1>2. /\ DOMAIN segments = 1..Len(segments) /\ Len(segments) \in Nat
      /\ segments \in [1..Len(segments) -> SUBSET ids]
  BY LenProperties
<1>3. IsFiniteSet(ids) /\ \A f \in ids : f \in Nat /\ frames[f].ended \in Nat
  BY FrameFacts DEF Stored
<1>4. part \in [rows -> SUBSET ids]
  BY <1>2 DEF RowsOf
<1>5. \A f \in ids : ~Before(f, f)
  BY <1>3 DEF Before
<1>6. ASSUME NEW x \in rows, NEW y \in rows, NEW f \in x.sources, f \in y.sources
      PROVE  x = y
  <2>1. PICK i \in DOMAIN segments :
          x = [resolution |-> res, epoch |-> epoch, bucket |-> bucket,
               segment |-> i - 1, sources |-> segments[i]]
    BY DEF RowsOf
  <2>2. PICK j \in DOMAIN segments :
          y = [resolution |-> res, epoch |-> epoch, bucket |-> bucket,
               segment |-> j - 1, sources |-> segments[j]]
    BY DEF RowsOf
  <2>3. f \in segments[i] /\ f \in segments[j] /\ f \in ids
    BY <1>2, <1>6, <2>1, <2>2
  <2>4. ~(i < j) /\ ~(j < i)
    BY <1>5, <2>3 DEF WellCut
  <2>5. i = j
    BY <1>2, <2>4
  <2> QED BY <2>1, <2>2, <2>5
<1>7. \A x, y \in rows : x # y => part[x] \cap part[y] = {}
  BY <1>6
<1>8. UNION {part[x] : x \in rows} = ids
  <2>1. ASSUME NEW f \in ids PROVE \E r \in rows : f \in part[r]
    <3>1. PICK i \in DOMAIN segments : f \in segments[i]
      BY DEF WellCut
    <3> DEFINE r == [resolution |-> res, epoch |-> epoch, bucket |-> bucket,
                     segment |-> i - 1, sources |-> segments[i]]
    <3>2. r \in rows /\ part[r] = segments[i]
      BY DEF RowsOf
    <3> QED BY <3>1, <3>2
  <2> HIDE DEF rows, part
  <2> QED BY <1>4, <2>1
<1>9. Sum([r \in rows |-> Cardinality(part[r])], rows) = Cardinality(ids)
  <2> HIDE DEF rows, part
  <2> QED BY <1>1, <1>3, <1>4, <1>7, <1>8, SumOfParts
<1>10. [r \in rows |-> Cardinality(part[r])] = [r \in rows |-> Cardinality(r.sources)]
  OBVIOUS
<1>11. ASSUME NEW f \in ids
       PROVE  OnceIn(f, rows)
  <2>1. PICK r \in rows : f \in r.sources
    BY <1>8
  <2> HIDE DEF rows
  <2> QED BY <1>6, <2>1 DEF OnceIn
<1> HIDE DEF rows, part
<1>12. Sizes(rows) = Cardinality(ids)
  BY <1>9, <1>10, SizesIsSum
<1> QED BY <1>11, <1>12 DEF rows

\* complete_groups: a complete group has each of its frames in one row, and rows
\* have no frame of another group.
LEMMA CompleteGroups ==
  ASSUME RollInv, NEW res \in Resolutions, NEW f \in Ids,
         <<frames[f].epoch, BucketOf(f, res)>> \in Complete(res)
  PROVE  OnceIn(f, GroupRows(res, frames[f].epoch, BucketOf(f, res)))
<1> DEFINE epoch == frames[f].epoch
           bucket == BucketOf(f, res)
           all == {h \in Ids : InGroup(h, res, epoch, bucket)}
           rows == GroupRows(res, epoch, bucket)
<1>1. Stored /\ Table(rollups)
  BY DEF RollInv, TypeOK, Stored
<1>2. epoch \in Epochs /\ bucket \in Time
  <2>1. frames[f].epoch \in Epochs /\ frames[f].ended \in Nat /\ frames[f].ended <= MaxTime
    BY <1>1, FrameFacts DEF Stored
  <2> QED BY <2>1, BucketInTime DEF BucketOf
<1>3. Sizes(rows) = Cardinality(all)
  BY DEF Complete, Sizes
<1>4. rows = GroupIn(rollups, res, epoch, bucket)
  BY DEF GroupRows, GroupIn
<1>5. f \in all /\ IsFiniteSet(all) /\ Cardinality(all) \in Nat /\ all \in SUBSET Ids
  BY <1>1, FrameFacts DEF InGroup, Stored
<1> HIDE DEF epoch, bucket, rows
<1>6. CutGroup(rollups, res, epoch, bucket)
  BY <1>1, <1>2 DEF Table
<1>7. ASSUME rows = {} PROVE FALSE
  <2>1. Sizes({}) = 0
    <3>1. Sizes({}) = Sum([r \in {} |-> Cardinality(r.sources)], {})
      BY SizesIsSum
    <3> DEFINE w == [r \in {} |-> Cardinality(r.sources)]
    <3>2. IsFiniteSet({}) /\ \A x \in {} : w[x] \in Nat
      BY FS_EmptySet
    <3> HIDE DEF w
    <3>3. PICK g \in [SUBSET {} -> Nat] : Sum(w, {}) = g[{}] /\ Adds(g, w, {})
      BY <3>2, SumRecursion
    <3>4. g[{}] = 0
      BY <3>3 DEF Adds
    <3> QED BY <3>1, <3>3, <3>4 DEF w
  <2>2. Cardinality(all) # 0
    BY <1>5, FS_EmptySet
  <2> QED BY <1>3, <1>7, <2>1, <2>2
<1>8. ASSUME NEW ids \in SUBSET Ids, NEW segments \in Seq(SUBSET ids),
             CutOf(segments, ids, res, epoch, bucket),
             rows = RowsOf(res, epoch, bucket, segments)
      PROVE  OnceIn(f, rows)
  <2>1. WellCut(segments, ids) /\ ids \subseteq all
    BY <1>8 DEF CutOf
  <2>2. /\ Sizes(rows) = Cardinality(ids)
        /\ \A h \in ids : OnceIn(h, rows)
    BY <1>1, <1>8, <2>1, SizesOfCut
  <2>3. ids = all
    <3> HIDE DEF all
    <3> QED BY <1>3, <1>5, <2>1, <2>2, FS_Subset
  <2> QED BY <1>5, <2>2, <2>3
<1>9. OnceIn(f, rows)
  <2>1. CASE \E ids \in SUBSET Ids : \E segments \in Seq(SUBSET ids) :
               /\ CutOf(segments, ids, res, epoch, bucket)
               /\ rows = RowsOf(res, epoch, bucket, segments)
    <3>1. PICK ids \in SUBSET Ids : \E segments \in Seq(SUBSET ids) :
               /\ CutOf(segments, ids, res, epoch, bucket)
               /\ rows = RowsOf(res, epoch, bucket, segments)
      BY <2>1
    <3>2. PICK segments \in Seq(SUBSET ids) :
               /\ CutOf(segments, ids, res, epoch, bucket)
               /\ rows = RowsOf(res, epoch, bucket, segments)
      BY <3>1
    <3> QED BY <3>2, <1>8
  <2>2. \/ GroupIn(rollups, res, epoch, bucket) = {}
        \/ \E ids \in SUBSET Ids : \E segments \in Seq(SUBSET ids) :
             /\ CutOf(segments, ids, res, epoch, bucket)
             /\ GroupIn(rollups, res, epoch, bucket) = RowsOf(res, epoch, bucket, segments)
    BY <1>6 DEF CutGroup
  <2>3. \/ rows = {}
        \/ \E ids \in SUBSET Ids : \E segments \in Seq(SUBSET ids) :
             /\ CutOf(segments, ids, res, epoch, bucket)
             /\ rows = RowsOf(res, epoch, bucket, segments)
    BY <1>4, <2>2
  <2> QED BY <1>7, <2>1, <2>3
<1> QED BY <1>9 DEF rows, epoch, bucket

\* RollupEnd is a border.
LEMMA EndIsBorder ==
  ASSUME NEW start \in Int, NEW end \in Int, NEW res \in Resolutions
  PROVE  \E k \in Int : RollupEnd(start, end, res) = k * Length(res)
<1> DEFINE length == Length(res)
           k == end \div length
<1>1. length \in Nat \ {0}
  BY LengthPositive
<1>2. \E j \in Int : Ceil(start, res) = j * length
  BY CeilBounds
<1>3. Floor(end, res) - length = k * length - length
  BY DEF Floor
<1>4. RollupEnd(start, end, res) = Ceil(start, res)
        \/ RollupEnd(start, end, res) = Floor(end, res) - length
  BY DEF RollupEnd, Larger
<1> HIDE DEF length
<1>5. k \in Int
  BY <1>1, SMTT(60)
<1> HIDE DEF k
<1>6. k * length - length = (k - 1) * length /\ k - 1 \in Int
  BY <1>1, <1>5, SMTT(60)
<1>7. \E j \in Int : RollupEnd(start, end, res) = j * length
  BY <1>2, <1>3, <1>4, <1>6
<1> QED BY <1>7 DEF length

\* A bucket lies in the rollups' range of a request exactly if its times do.
LEMMA BucketInRange ==
  ASSUME Stored, NEW start \in Int, NEW end \in Int, NEW res \in Resolutions, NEW f \in Ids
  PROVE  Within(BucketOf(f, res), RollupRange(start, end, res))
           <=> Within(frames[f].ended, RollupRange(start, end, res))
<1> DEFINE c == Ceil(start, res)
           b == RollupEnd(start, end, res)
           time == frames[f].ended
<1>1. time \in Int /\ BucketOf(f, res) = Floor(time, res) /\ Floor(time, res) \in Int
  BY FrameFacts, FloorBounds DEF Stored, BucketOf
<1>2. c \in Int /\ \E k \in Int : c = k * Length(res)
  BY CeilBounds
<1>3. b \in Int /\ \E k \in Int : b = k * Length(res)
  BY RequestBorders, EndIsBorder DEF Borders
<1>4. RollupRange(start, end, res) = [from |-> c, to |-> b]
  BY DEF RollupRange
<1> HIDE DEF c, b, time
<1>5. c <= time <=> c <= Floor(time, res)
  BY <1>1, <1>2, BorderSeparatesBuckets
<1>6. b <= time <=> b <= Floor(time, res)
  BY <1>1, <1>3, BorderSeparatesBuckets
<1>7. /\ Within(time, [from |-> c, to |-> b]) <=> c <= time /\ time < b
      /\ Within(Floor(time, res), [from |-> c, to |-> b])
           <=> c <= Floor(time, res) /\ Floor(time, res) < b
  BY DEF Within
<1>8. Within(Floor(time, res), [from |-> c, to |-> b]) <=> Within(time, [from |-> c, to |-> b])
  BY <1>1, <1>2, <1>3, <1>5, <1>6, <1>7
<1> QED BY <1>1, <1>4, <1>8 DEF time

\* The rollups of a request that show a frame.
Rolled(f, res, start, end) ==
  {r \in SelectedRollups(res, Complete(res), RollupRange(start, end, res)) : f \in r.sources}

\* The rollups show a frame once if its group is complete and in range, or not at all.
LEMMA RolledOnce ==
  ASSUME RollInv, NEW start \in Int, NEW end \in Int, NEW res \in Resolutions, NEW f \in Ids
  PROVE  Cardinality(Rolled(f, res, start, end))
           = IF /\ <<frames[f].epoch, BucketOf(f, res)>> \in Complete(res)
                /\ Within(frames[f].ended, RollupRange(start, end, res))
             THEN 1 ELSE 0
<1> DEFINE g == <<frames[f].epoch, BucketOf(f, res)>>
           range == RollupRange(start, end, res)
           rows == GroupRows(res, frames[f].epoch, BucketOf(f, res))
           rolled == Rolled(f, res, start, end)
<1>1. Stored /\ Table(rollups)
  BY DEF RollInv, TypeOK, Stored
<1>2. Within(BucketOf(f, res), range) <=> Within(frames[f].ended, range)
  BY <1>1, BucketInRange
<1>3. ASSUME NEW r \in rollups, r.resolution = res, f \in r.sources
      PROVE  r.epoch = frames[f].epoch /\ r.bucket = BucketOf(f, res)
  BY <1>1, <1>3, RowSources DEF InGroup
<1>4. \A r : r \in rolled <=>
        /\ r \in rollups /\ r.resolution = res /\ f \in r.sources
        /\ Within(r.bucket, range) /\ <<r.epoch, r.bucket>> \in Complete(res)
  BY DEF Rolled, SelectedRollups
<1>5. \A r : r \in rows <=>
        /\ r \in rollups /\ r.resolution = res
        /\ r.epoch = frames[f].epoch /\ r.bucket = BucketOf(f, res)
  BY DEF GroupRows
<1> HIDE DEF range, rows, rolled
<1>6. CASE g \in Complete(res) /\ Within(frames[f].ended, range)
  <2>1. rolled = {q \in rows : f \in q.sources}
    <3>1. ASSUME NEW r \in rolled PROVE r \in rows /\ f \in r.sources
      BY <1>3, <1>4, <1>5
    <3>2. ASSUME NEW r \in rows, f \in r.sources PROVE r \in rolled
      <4>1. /\ r \in rollups /\ r.resolution = res
            /\ r.epoch = frames[f].epoch /\ r.bucket = BucketOf(f, res)
        BY <1>5
      <4> QED BY <1>2, <1>4, <1>6, <3>2, <4>1
    <3> QED BY <3>1, <3>2
  <2>2. OnceIn(f, rows)
    BY <1>6, CompleteGroups DEF rows
  <2>3. \E r : rolled = {r}
    BY <2>1, <2>2 DEF OnceIn
  <2>4. Cardinality(rolled) = 1
    BY <2>3, FS_Singleton
  <2> QED BY <1>6, <2>4 DEF range, rolled
<1>7. CASE ~(g \in Complete(res) /\ Within(frames[f].ended, range))
  <2>1. ASSUME NEW r \in rolled PROVE FALSE
    <3>1. /\ r \in rollups /\ r.resolution = res /\ f \in r.sources
          /\ Within(r.bucket, range) /\ <<r.epoch, r.bucket>> \in Complete(res)
      BY <1>4
    <3>2. r.epoch = frames[f].epoch /\ r.bucket = BucketOf(f, res)
      BY <1>3, <3>1
    <3> QED BY <1>2, <1>7, <3>1, <3>2
  <2>2. rolled = {}
    BY <2>1
  <2>3. Cardinality(rolled) = 0
    BY <2>2, FS_EmptySet
  <2> QED BY <1>7, <2>3 DEF range, rolled
<1> QED BY <1>6, <1>7

\* The raw ranges of a request that hold a frame.
Read(f, res, start, end) ==
  {r \in RawRanges(start, end, res) : Within(frames[f].ended, r)}

\* The raw ranges show a frame once if no rollup of the request could, or not at all.
LEMMA ReadAtMostOnce ==
  ASSUME Stored, NEW start \in Int, NEW end \in Int, start < end,
         NEW res \in Resolutions, NEW f \in Ids
  PROVE  Cardinality(Read(f, res, start, end))
           = IF /\ Within(frames[f].ended, [from |-> start, to |-> end])
                /\ ~Within(frames[f].ended, RollupRange(start, end, res))
             THEN 1 ELSE 0
<1> DEFINE time == frames[f].ended
           read == Read(f, res, start, end)
           all == [from |-> start, to |-> end]
           range == RollupRange(start, end, res)
<1>1. time \in Int
  BY FrameFacts DEF Stored
<1>2. Within(time, all) <=>
        Within(time, range) \/ \E r \in RawRanges(start, end, res) : Within(time, r)
  <2> HIDE DEF time
  <2> QED BY <1>1, RequestCovered
<1>3. \A r \in RawRanges(start, end, res) : Within(time, r) =>
        /\ ~Within(time, range)
        /\ \A other \in RawRanges(start, end, res) : Within(time, other) => other = r
  <2> HIDE DEF time
  <2> QED BY <1>1, RequestReadOnce
<1>4. \A r : r \in read <=> r \in RawRanges(start, end, res) /\ Within(time, r)
  BY DEF Read
<1> HIDE DEF time, read, all, range
<1>5. CASE Within(time, all) /\ ~Within(time, range)
  <2>1. PICK r \in RawRanges(start, end, res) : Within(time, r)
    BY <1>2, <1>5
  <2>2. read = {r}
    BY <1>3, <1>4, <2>1
  <2>3. Cardinality(read) = 1
    BY <2>2, FS_Singleton
  <2> QED BY <1>5, <2>3 DEF time, read, all, range
<1>6. CASE ~(Within(time, all) /\ ~Within(time, range))
  <2>1. read = {}
    BY <1>2, <1>3, <1>4, <1>6
  <2>2. Cardinality(read) = 0
    BY <2>1, FS_EmptySet
  <2> QED BY <1>6, <2>2 DEF time, read, all, range
<1> QED BY <1>5, <1>6

\* spectra() and _query_rollups_with_fallback: a request shows every frame of its
\* interval exactly once and no other, whatever rollups are there.
THEOREM RequestShowsOnce == Spec => [](ShownOnce /\ EachFrameOnce)
<1>1. ASSUME RollInv, NEW res \in Resolutions, NEW start \in Int, NEW end \in Int,
             start < end, NEW f \in Ids
      PROVE  Cardinality(Rolled(f, res, start, end))
               + (IF f \in SelectedFrames(res, Complete(res), RollupRange(start, end, res))
                  THEN 1 ELSE 0)
               + Cardinality(Read(f, res, start, end))
             = IF start <= frames[f].ended /\ frames[f].ended < end THEN 1 ELSE 0
  <2> DEFINE time == frames[f].ended
             complete == <<frames[f].epoch, BucketOf(f, res)>> \in Complete(res)
             inRange == Within(time, RollupRange(start, end, res))
             inAll == Within(time, [from |-> start, to |-> end])
             rolled == Cardinality(Rolled(f, res, start, end))
             loose == f \in SelectedFrames(res, Complete(res), RollupRange(start, end, res))
             read == Cardinality(Read(f, res, start, end))
  <2>1. Stored
    BY <1>1 DEF RollInv, TypeOK, Stored
  <2>2. rolled = IF complete /\ inRange THEN 1 ELSE 0
    BY <1>1, RolledOnce
  <2>3. read = IF inAll /\ ~inRange THEN 1 ELSE 0
    BY <1>1, <2>1, ReadAtMostOnce
  <2>4. loose <=> inRange /\ ~complete
    BY DEF SelectedFrames
  <2>5. inAll <=> start <= time /\ time < end
    BY DEF Within
  <2>6. inRange => inAll
    <3>1. time \in Int
      BY <2>1, FrameFacts DEF Stored
    <3> HIDE DEF time
    <3> QED BY <1>1, <3>1, RequestCovered
  <2> HIDE DEF complete, inRange, inAll, rolled, loose, read
  <2>7. rolled + (IF loose THEN 1 ELSE 0) + read = IF inAll THEN 1 ELSE 0
    <3>1. CASE inRange /\ complete
      BY <2>2, <2>3, <2>4, <2>6, <3>1
    <3>2. CASE inRange /\ ~complete
      BY <2>2, <2>3, <2>4, <2>6, <3>2
    <3>3. CASE ~inRange /\ inAll
      BY <2>2, <2>3, <2>4, <3>3
    <3>4. CASE ~inRange /\ ~inAll
      BY <2>2, <2>3, <2>4, <3>4
    <3> QED BY <2>6, <3>1, <3>2, <3>3, <3>4
  <2> QED BY <2>5, <2>7 DEF rolled, loose, read
<1>2. ASSUME RollInv PROVE ShownOnce
  <2> SUFFICES ASSUME NEW res \in Resolutions, NEW end \in Time, NEW start \in 0..(end - 1),
                      NEW f \in Ids
               PROVE  Cardinality(Rolled(f, res, start, end))
                        + (IF f \in SelectedFrames(res, Complete(res),
                                                   RollupRange(start, end, res))
                           THEN 1 ELSE 0)
                        + Cardinality(Read(f, res, start, end))
                      = IF start <= frames[f].ended /\ frames[f].ended < end THEN 1 ELSE 0
    BY DEF ShownOnce, Rolled, Read
  <2>1. start \in Int /\ end \in Int /\ start < end
    BY BoundsAssumption DEF Time
  <2> QED BY <1>1, <1>2, <2>1
<1>3. ShownOnce => EachFrameOnce
  BY DEF EachFrameOnce
<1> QED BY <1>2, <1>3, RollInvHolds, PTL
=============================================================================
