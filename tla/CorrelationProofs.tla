------------------------- MODULE CorrelationProofs -------------------------
(***************************************************************************)
(* What Correlation promises for every timespan, grid origin, threshold    *)
(* and telemetry.                                                          *)
(***************************************************************************)
EXTENDS Correlation, FiniteSetTheorems, TLAPS

-----------------------------------------------------------------------------
(* The bucket grid.                                                        *)

LEMMA DivisionBounds ==
  ASSUME NEW a \in Int, NEW d \in Nat \ {0}
  PROVE  /\ a \div d \in Int
         /\ d * (a \div d) <= a
         /\ a < d * (a \div d) + d
  OBVIOUS

LEMMA BucketContains ==
  ASSUME NEW t \in Int
  PROVE  /\ Bucket(t) \in Int
         /\ Bucket(t) <= t
         /\ t < Bucket(t) + Timespan
<1> DEFINE q == (t - Origin) \div Timespan
<1>1. /\ q \in Int
      /\ Timespan * q <= t - Origin
      /\ t - Origin < Timespan * q + Timespan
  BY DivisionBounds, TimespanAssumption, OriginAssumption
<1>2. Timespan * q \in Int
  BY <1>1, TimespanAssumption
<1>3. Bucket(t) = Origin + Timespan * q
  BY DEF Bucket
<1> QED
  BY <1>1, <1>2, <1>3, OriginAssumption, TimespanAssumption

LEMMA MultiplesApart ==
  ASSUME NEW d \in Nat \ {0}, NEW p \in Int, NEW q \in Int, p < q
  PROVE  d * p + d <= d * q
<1>1. d * (p + 1) <= d * q
  OBVIOUS
<1>2. d * (p + 1) = d * p + d
  OBVIOUS
<1> QED
  BY <1>1, <1>2

\* A window of one timespan touches at most two buckets, the one it starts in
\* and the next.
LEMMA WindowTouchesTwoBuckets ==
  ASSUME NEW start \in Int, NEW t \in Int, start <= t, t < start + Timespan
  PROVE  Bucket(t) \in {Bucket(start), Bucket(start) + Timespan}
<1> DEFINE p == (start - Origin) \div Timespan
           q == (t - Origin) \div Timespan
<1> USE TimespanAssumption, OriginAssumption
<1>1. p \in Int /\ q \in Int
  BY DivisionBounds
<1>2. Bucket(start) = Origin + Timespan * p /\ Bucket(t) = Origin + Timespan * q
  BY DEF Bucket
<1>3. Timespan * p \in Int /\ Timespan * q \in Int
  BY <1>1
<1> HIDE DEF p, q
<1>4. p <= q
  <2> SUFFICES ASSUME q < p PROVE FALSE
    BY <1>1
  <2>1. Timespan * q + Timespan <= Timespan * p
    BY <1>1, MultiplesApart
  <2> QED
    BY <2>1, <1>2, <1>3, BucketContains
<1>5. q <= p + 1
  <2> SUFFICES ASSUME p + 1 < q PROVE FALSE
    BY <1>1
  <2>1. Timespan * (p + 1) + Timespan <= Timespan * q
    BY <1>1, MultiplesApart
  <2>2. Timespan * (p + 1) = Timespan * p + Timespan
    BY <1>1
  <2> QED
    BY <2>1, <2>2, <1>2, <1>3, BucketContains
<1>6. q = p \/ q = p + 1
  BY <1>1, <1>4, <1>5
<1>7. Timespan * (p + 1) = Timespan * p + Timespan
  BY <1>1
<1> QED
  BY <1>2, <1>3, <1>6, <1>7

-----------------------------------------------------------------------------
(* Counting.                                                               *)

LEMMA SearchFinite ==
  ASSUME NEW table, IsFiniteSet(table), NEW key
  PROVE  /\ IsFiniteSet(Cell(table, key))
         /\ IsFiniteSet(DistinctValues(Cell(table, key)))
<1>1. Cell(table, key) \in SUBSET table
  BY DEF Cell, Search
<1>2. IsFiniteSet(Cell(table, key))
  BY <1>1, FS_Subset
<1> DEFINE cell == Cell(table, key)
           counted == {d \in cell : d.row.value # Null}
           f == [d \in counted |-> d.row.value]
<1>3. IsFiniteSet(counted)
  <2>1. counted \in SUBSET cell
    OBVIOUS
  <2> QED
    BY <2>1, <1>2, FS_Subset
<1>4. f \in Surjection(counted, DistinctValues(cell))
  BY DEF DistinctValues, Surjection
<1>5. IsFiniteSet(DistinctValues(cell))
  <2> HIDE DEF f, counted, cell
  <2> QED
    BY <1>3, <1>4, FS_Surjection
<1> QED
  BY <1>2, <1>5

LEMMA AggregateNat ==
  ASSUME NEW table, IsFiniteSet(table), NEW key
  PROVE  Aggregate(Cell(table, key)) \in Nat
BY SearchFinite, FS_CardinalityType DEF Aggregate

\* What makes a set of events countable together: for value_count, different
\* non-NULL values.
Countable(E) == Type = "value_count" => /\ Differ(E)
                                        /\ \A e \in E : e.row.value # Null

\* The aggregate of a cell is no smaller than any countable part of it ...
LEMMA AggregateAtLeast ==
  ASSUME NEW table, IsFiniteSet(table), NEW key,
         NEW E \in SUBSET Cell(table, key), Countable(E)
  PROVE  /\ IsFiniteSet(E)
         /\ Cardinality(E) <= Aggregate(Cell(table, key))
<1> DEFINE cell == Cell(table, key)
<1>1. IsFiniteSet(cell) /\ IsFiniteSet(DistinctValues(cell))
  BY SearchFinite
<1>2. IsFiniteSet(E) /\ Cardinality(E) <= Cardinality(cell)
  BY <1>1, FS_Subset
<1>3. CASE Type = "event_count"
  BY <1>2, <1>3 DEF Aggregate
<1>4. CASE Type = "value_count"
  <2> DEFINE f == [e \in E |-> e.row.value]
             values == DistinctValues(cell)
  <2>1. f \in Injection(E, values)
    BY <1>4 DEF Injection, IsInjective, Countable, Differ, DistinctValues
  <2> HIDE DEF f
  <2>2. Cardinality(E) <= Cardinality(values)
    BY <2>1, <1>1, FS_Injection
  <2> QED
    BY <1>2, <1>4, <2>2 DEF Aggregate
<1> QED
  BY <1>3, <1>4, TypeAssumption

\* ... and some countable part of the cell has exactly that size.
LEMMA AggregateWitness ==
  ASSUME NEW table, IsFiniteSet(table), NEW key
  PROVE  \E E \in SUBSET Cell(table, key) :
            Countable(E) /\ Cardinality(E) = Aggregate(Cell(table, key))
<1> DEFINE cell == Cell(table, key)
<1>1. CASE Type = "event_count"
  BY <1>1 DEF Aggregate, Countable
<1>2. CASE Type = "value_count"
  <2> DEFINE values == DistinctValues(cell)
             f == [v \in values |-> CHOOSE e \in cell : e.row.value = v]
             E == {f[v] : v \in values}
  <2>1. \A v \in values : f[v] \in cell /\ f[v].row.value = v /\ v # Null
    BY DEF DistinctValues
  <2>2. IsFiniteSet(values)
    BY SearchFinite
  <2> HIDE DEF cell, values
  <2>3. E \in SUBSET cell
    BY <2>1
  <2>4. Countable(E)
    <3>1. \A e \in E : f[e.row.value] = e /\ e.row.value # Null
      <4> HIDE DEF f
      <4> QED
        BY <2>1
    <3> HIDE DEF f, E
    <3> QED
      BY <3>1 DEF Countable, Differ
  <2>5. f \in Injection(values, E) /\ f \in Surjection(values, E)
    <3>1. f \in [values -> E]
      OBVIOUS
    <3>2. \A u, v \in values : f[u] = f[v] => u = v
      BY <2>1
    <3>3. \A e \in E : \E v \in values : f[v] = e
      OBVIOUS
    <3> HIDE DEF f, E
    <3> QED
      BY <3>1, <3>2, <3>3 DEF Injection, IsInjective, Surjection
  <2>6. Cardinality(E) = Cardinality(values)
    <3> HIDE DEF f, E
    <3> QED
      BY <2>2, <2>5, FS_Surjection
  <2>7. Cardinality(E) = Aggregate(cell)
    BY <1>2, <2>6 DEF Aggregate, values
  <2> QED
    BY <2>3, <2>4, <2>7 DEF cell
<1> QED
  BY <1>1, <1>2, TypeAssumption

-----------------------------------------------------------------------------
(* The inductive invariant: the table is a finite bag, and each hit names  *)
(* a cell that is still there and is backed by a countable part of it.     *)

Backed(h) ==
    /\ Having(h.count)
    /\ \E key \in Keys(events) :
          /\ key.bucket = h.bucket /\ key.group = h.group
          /\ \E E \in SUBSET Cell(events, key) :
                Countable(E) /\ Cardinality(E) = h.count

IInv == /\ TypeOK
        /\ IsFiniteSet(events)
        /\ \A h \in hits : Backed(h)

LEMMA KeyType ==
  ASSUME events \subseteq Event, NEW key \in Keys(events)
  PROVE  key \in [bucket : Int, group : Groups]
<1>1. PICK e \in events : key = [bucket |-> Bucket(e.row.ts), group |-> e.row.group]
  BY DEF Keys, Key, Search
<1>2. e.row \in Row
  BY DEF Event
<1>3. e.row.ts \in Int /\ e.row.group \in Groups
  BY <1>2, TimesAssumption DEF Row
<1> QED
  BY <1>1, <1>3, BucketContains

LEMMA InitIInv == Init => IInv
BY FS_EmptySet DEF Init, IInv, TypeOK

\* Inserting only adds: cells keep what they had.
LEMMA InsertIInv ==
  ASSUME IInv, NEW row \in Row, Insert(row)
  PROVE  IInv'
<1> USE DEF IInv, Insert
<1> DEFINE same == {e \in events : e.row = row}
           new == [row |-> row, copy |-> Copies(row) + 1]
<1>1. new \in Event
  <2>1. same \in SUBSET events
    OBVIOUS
  <2>2. IsFiniteSet(same)
    BY <2>1, FS_Subset
  <2>3. Cardinality(same) \in Nat
    BY <2>2, FS_CardinalityType
  <2>4. Copies(row) \in Nat
    BY <2>3 DEF Copies
  <2> QED
    BY <2>4 DEF Event
<1>2. TypeOK'
  BY <1>1 DEF TypeOK
<1>3. IsFiniteSet(events)'
  BY FS_AddElement
<1>4. \A h \in hits' : Backed(h)'
  <2> SUFFICES ASSUME NEW h \in hits PROVE Backed(h)'
    OBVIOUS
  <2>1. Having(h.count)
    BY DEF Backed
  <2>2. PICK key \in Keys(events) :
          /\ key.bucket = h.bucket /\ key.group = h.group
          /\ \E E \in SUBSET Cell(events, key) :
                Countable(E) /\ Cardinality(E) = h.count
    BY DEF Backed
  <2>3. key \in Keys(events')
    BY <2>2 DEF Keys, Search
  <2>4. Cell(events, key) \subseteq Cell(events', key)
    BY DEF Cell, Search
  <2>5. \E E \in SUBSET Cell(events', key) :
          Countable(E) /\ Cardinality(E) = h.count
    BY <2>2, <2>4
  <2> QED
    BY <2>1, <2>2, <2>3, <2>5 DEF Backed
<1> QED
  BY <1>2, <1>3, <1>4

LEMMA ReplayIInv ==
  ASSUME IInv, Replay
  PROVE  IInv'
<1> USE DEF IInv, Replay
<1>1. ASSUME NEW h \in Query(events) PROVE h \in Hit /\ Backed(h)
  <2>1. PICK key \in Keys(events) : /\ Having(Aggregate(Cell(events, key)))
                                   /\ h = Answer(events, key)
    BY DEF Query
  <2>2. key \in [bucket : Int, group : Groups]
    BY KeyType DEF TypeOK
  <2>3. Aggregate(Cell(events, key)) \in Nat
    BY AggregateNat
  <2>4. /\ h.bucket = key.bucket
        /\ h.group = key.group
        /\ h.count = Aggregate(Cell(events, key))
    BY <2>1 DEF Answer
  <2>5. h \in Hit
    BY <2>1, <2>2, <2>3 DEF Hit, Answer
  <2>6. \E E \in SUBSET Cell(events, key) :
          Countable(E) /\ Cardinality(E) = h.count
    BY <2>4, AggregateWitness
  <2> QED
    BY <2>1, <2>4, <2>5, <2>6 DEF Backed
<1>2. TypeOK'
  BY <1>1 DEF TypeOK
<1>3. \A h \in hits' : Backed(h)'
  BY <1>1 DEF Backed
<1> QED
  BY <1>2, <1>3

LEMMA NextIInv == IInv /\ [Next]_vars => IInv'
<1> SUFFICES ASSUME IInv, [Next]_vars PROVE IInv'
  OBVIOUS
<1>1. CASE Replay
  BY <1>1, ReplayIInv
<1>2. ASSUME NEW row \in Row, Insert(row) PROVE IInv'
  BY <1>2, InsertIInv
<1>3. CASE UNCHANGED vars
  BY <1>3 DEF vars, IInv, TypeOK, Backed
<1> QED
  BY <1>1, <1>2, <1>3 DEF Next

(* The table and the hits keep their types, and the inductive invariant    *)
(* holds, in every reachable state.                                        *)
THEOREM Invariance == Spec => []IInv
BY InitIInv, NextIInv, PTL DEF Spec

(* Rows inserted and answers returned are always well formed.              *)
THEOREM TypeCorrect == Spec => []TypeOK
<1>1. IInv => TypeOK
  BY DEF IInv
<1> QED
  BY <1>1, Invariance, PTL

-----------------------------------------------------------------------------
(* The promises.                                                           *)

\* What a cell holds lies in the window its bucket opens.
LEMMA CellInWindow ==
  ASSUME events \subseteq Event, NEW key \in Keys(events)
  PROVE  Cell(events, key) \subseteq Window(key.bucket, key.group)
<1> SUFFICES ASSUME NEW e \in Cell(events, key)
             PROVE  e \in Window(key.bucket, key.group)
  OBVIOUS
<1>1. e \in events /\ e.row.matches /\ key = [bucket |-> Bucket(e.row.ts), group |-> e.row.group]
  BY DEF Cell, Search, Key
<1>2. e.row \in Row
  BY <1>1 DEF Event
<1>3. e.row.ts \in Int
  BY <1>2, TimesAssumption DEF Row
<1> QED
  BY <1>1, <1>3, BucketContains DEF Window

(* Every hit is backed by a burst of the size it states.                   *)
THEOREM ReportsAreReal == Spec => []HitsAreBursts
<1>1. IInv => HitsAreBursts
  <2> SUFFICES ASSUME IInv, NEW h \in hits
               PROVE  /\ Having(h.count)
                      /\ \E E \in SUBSET events :
                            IsBurst(E, h.bucket, h.group) /\ Cardinality(E) = h.count
    BY DEF HitsAreBursts
  <2>1. Backed(h)
    BY DEF IInv
  <2>2. PICK key \in Keys(events) :
          /\ key.bucket = h.bucket /\ key.group = h.group
          /\ \E E \in SUBSET Cell(events, key) :
                Countable(E) /\ Cardinality(E) = h.count
    BY <2>1 DEF Backed
  <2>3. PICK E \in SUBSET Cell(events, key) : Countable(E) /\ Cardinality(E) = h.count
    BY <2>2
  <2>4. Cell(events, key) \subseteq Window(h.bucket, h.group)
    BY <2>2, CellInWindow DEF IInv, TypeOK
  <2>5. IsBurst(E, h.bucket, h.group)
    BY <2>3, <2>4 DEF IsBurst, Countable
  <2>6. E \in SUBSET events
    BY <2>3 DEF Cell, Search
  <2> QED
    BY <2>1, <2>3, <2>5, <2>6 DEF Backed
<1> QED
  BY <1>1, Invariance, PTL

\* For "more than" operators a count that is enough stays enough.
LEMMA HavingGrows ==
  ASSUME Op \in {"GT", "GTE"}, NEW m \in Nat, NEW n \in Nat, m <= n, Having(m)
  PROVE  Having(n)
BY CountAssumption DEF Having

(* More telemetry never retracts a hit of a "more than" rule.              *)
THEOREM HitsStand == Spec => []ReportedHitsStand
<1>1. IInv => ReportedHitsStand
  <2> SUFFICES ASSUME IInv, Op \in {"GT", "GTE"}, NEW h \in hits
               PROVE  \E n \in Query(events) :
                        n.bucket = h.bucket /\ n.group = h.group /\ n.count >= h.count
    BY DEF ReportedHitsStand
  <2>1. PICK key \in Keys(events) :
          /\ key.bucket = h.bucket /\ key.group = h.group
          /\ \E E \in SUBSET Cell(events, key) :
                Countable(E) /\ Cardinality(E) = h.count
    BY DEF IInv, Backed
  <2>2. PICK E \in SUBSET Cell(events, key) : Countable(E) /\ Cardinality(E) = h.count
    BY <2>1
  <2> DEFINE n == Aggregate(Cell(events, key))
  <2>3. h.count <= n
    BY <2>2, AggregateAtLeast DEF IInv
  <2>4. h.count \in Nat /\ n \in Nat
    BY AggregateNat DEF IInv, TypeOK, Hit
  <2>5. Having(n)
    BY <2>3, <2>4, HavingGrows DEF IInv, Backed
  <2>6. Answer(events, key) \in Query(events)
    BY <2>5 DEF Query
  <2>7. /\ Answer(events, key).bucket = h.bucket
        /\ Answer(events, key).group = h.group
        /\ Answer(events, key).count = n
    BY <2>1 DEF Answer
  <2> QED
    BY <2>3, <2>4, <2>6, <2>7
<1> QED
  BY <1>1, Invariance, PTL

\* A cell that holds at least a threshold of countable events is answered.
LEMMA EnoughIsReported ==
  ASSUME IsFiniteSet(events), Op \in {"GT", "GTE"}, Threshold > 0,
         NEW key, NEW E \in SUBSET Cell(events, key), Countable(E),
         Cardinality(E) >= Threshold
  PROVE  \E h \in Query(events) : h.bucket = key.bucket /\ h.group = key.group
<1> DEFINE n == Aggregate(Cell(events, key))
<1>1. IsFiniteSet(E) /\ Cardinality(E) <= n
  BY AggregateAtLeast
<1>2. Cardinality(E) \in Nat /\ n \in Nat
  BY <1>1, FS_CardinalityType, AggregateNat
<1>3. Having(n)
  BY <1>1, <1>2, CountAssumption DEF Having, Threshold
<1>4. E # {}
  <2>1. Cardinality(E) # 0
    BY <1>2, CountAssumption DEF Threshold
  <2> QED
    BY <2>1, FS_EmptySet
<1>5. key \in Keys(events)
  BY <1>4 DEF Keys, Cell
<1>6. Answer(events, key) \in Query(events)
  BY <1>3, <1>5 DEF Query
<1> QED
  BY <1>6 DEF Answer

(* A burst of two thresholds less one is never lost on a bucket boundary:  *)
(* it falls into two buckets, so one of them holds a threshold of it.      *)
THEOREM DenseBurstsFound == Spec => []DenseBurstsReported
<1>1. IInv => DenseBurstsReported
  <2> SUFFICES ASSUME IInv, Op \in {"GT", "GTE"}, Threshold > 0,
                      NEW start \in Times, NEW group \in Groups,
                      NEW E \in SUBSET events, IsBurst(E, start, group),
                      Cardinality(E) >= 2 * Threshold - 1
               PROVE  \E h \in Query(events) :
                        /\ h.group = group
                        /\ h.bucket \in {Bucket(start), Bucket(start) + Timespan}
    BY DEF DenseBurstsReported, DenseBurst
  <2> DEFINE first == [bucket |-> Bucket(start), group |-> group]
             next == [bucket |-> Bucket(start) + Timespan, group |-> group]
             E1 == {e \in E : Key(e) = first}
             E2 == E \ E1
  <2>1. IsFiniteSet(E)
    BY FS_Subset DEF IInv
  <2>2. /\ IsFiniteSet(E1) /\ IsFiniteSet(E2)
        /\ Cardinality(E1) \in Nat /\ Cardinality(E2) \in Nat
        /\ Cardinality(E) = Cardinality(E1) + Cardinality(E2)
    <3>1. E1 \in SUBSET E /\ E \cap E1 = E1
      OBVIOUS
    <3> HIDE DEF E1
    <3>2. IsFiniteSet(E1) /\ IsFiniteSet(E2)
      BY <2>1, <3>1, FS_Subset, FS_Difference
    <3>3. Cardinality(E2) = Cardinality(E) - Cardinality(E1)
      BY <2>1, <3>1, FS_Difference
    <3> QED
      BY <2>1, <3>2, <3>3, FS_CardinalityType
  <2>3. \A e \in E : Key(e) \in {first, next}
    <3> SUFFICES ASSUME NEW e \in E PROVE Key(e) \in {first, next}
      OBVIOUS
    <3>1. /\ e \in events /\ e.row.group = group
          /\ start <= e.row.ts /\ e.row.ts < start + Timespan
      BY DEF IsBurst, Window
    <3>2. e.row \in Row
      BY <3>1 DEF IInv, TypeOK, Event
    <3>3. e.row.ts \in Int /\ start \in Int
      BY <3>2, TimesAssumption DEF Row
    <3>4. Bucket(e.row.ts) \in {Bucket(start), Bucket(start) + Timespan}
      BY <3>1, <3>3, WindowTouchesTwoBuckets
    <3> QED
      BY <3>1, <3>4 DEF Key
  <2>4. E \subseteq Search(events)
    BY DEF IsBurst, Window, Search
  <2>5. E1 \in SUBSET Cell(events, first) /\ E2 \in SUBSET Cell(events, next)
    BY <2>3, <2>4 DEF Cell
  <2>6. Countable(E1) /\ Countable(E2)
    BY DEF IsBurst, Countable, Differ
  <2>7. Threshold \in Nat
    BY CountAssumption DEF Threshold
  <2> HIDE DEF E1, E2
  <2>8. CASE Cardinality(E1) >= Threshold
    <3>1. \E h \in Query(events) : h.bucket = first.bucket /\ h.group = first.group
      BY <2>5, <2>6, <2>8, EnoughIsReported DEF IInv
    <3> QED
      BY <3>1
  <2>9. CASE Cardinality(E2) >= Threshold
    <3>1. \E h \in Query(events) : h.bucket = next.bucket /\ h.group = next.group
      BY <2>5, <2>6, <2>9, EnoughIsReported DEF IInv
    <3> QED
      BY <3>1
  <2> QED
    BY <2>2, <2>7, <2>8, <2>9
<1> QED
  BY <1>1, Invariance, PTL

-----------------------------------------------------------------------------
(* The bound of DenseBurstsReported cannot be lowered.                     *)

\* n equal matching rows at one time, numbered as Insert numbers them; and as
\* many at the next instant.
Alike(t, group) == [ts |-> t, group |-> group, value |-> Null, matches |-> TRUE]
Repeated(t, group, n) == {[row |-> Alike(t, group), copy |-> i] : i \in 1..n}
Straddle(start, group, n) == Repeated(start, group, n) \cup Repeated(start + 1, group, n)

LEMMA RepeatedSize ==
  ASSUME NEW t, NEW group, NEW n \in Nat
  PROVE  IsFiniteSet(Repeated(t, group, n)) /\ Cardinality(Repeated(t, group, n)) = n
<1> DEFINE R == Repeated(t, group, n)
           f == [i \in 1..n |-> [row |-> Alike(t, group), copy |-> i]]
<1>1. f \in Surjection(1..n, R)
  BY DEF Repeated, Surjection
<1>2. f \in Injection(1..n, R)
  <2>1. \A i, j \in 1..n : f[i] = f[j] => f[i].copy = f[j].copy
    OBVIOUS
  <2>2. \A i \in 1..n : f[i].copy = i
    OBVIOUS
  <2>3. f \in [1..n -> R]
    BY <1>1 DEF Surjection
  <2> HIDE DEF f, R
  <2> QED
    BY <2>1, <2>2, <2>3 DEF Injection, IsInjective
<1>3. IsFiniteSet(1..n) /\ Cardinality(1..n) = n
  BY FS_Interval
<1> HIDE DEF f, R
<1>4. IsFiniteSet(R) /\ Cardinality(R) = n
  BY <1>1, <1>2, <1>3, FS_Surjection
<1> QED
  BY <1>4 DEF R

(* A burst of one event less than DenseBurstsReported asks for, half of it *)
(* on each side of a bucket boundary, is lost: neither half meets the      *)
(* condition.  Events one instant apart thus go unreported however long    *)
(* the timespan of the rule is.                                            *)
THEOREM DenseBoundIsTight ==
  ASSUME Type = "event_count", Op \in {"GT", "GTE"}, Threshold > 0, Timespan > 1,
         NEW start \in Times, start + 1 \in Times, NEW group \in Groups,
         Bucket(start + 1) # Bucket(start),
         events = Straddle(start, group, Threshold - 1)
  PROVE  /\ events \subseteq Event
         /\ IsBurst(events, start, group)
         /\ Cardinality(events) = 2 * Threshold - 2
         /\ Query(events) = {}
<1> DEFINE n == Threshold - 1
           A == Repeated(start, group, n)
           B == Repeated(start + 1, group, n)
<1>1. Threshold \in Nat /\ n \in Nat /\ start \in Int
  BY CountAssumption, TimesAssumption DEF Threshold
<1>2. events = A \cup B
  BY DEF Straddle
<1>3. /\ IsFiniteSet(A) /\ Cardinality(A) = n
      /\ IsFiniteSet(B) /\ Cardinality(B) = n
  BY <1>1, RepeatedSize
<1>4. /\ \A e \in A : e.row = Alike(start, group) /\ e.copy \in Nat \ {0}
      /\ \A e \in B : e.row = Alike(start + 1, group) /\ e.copy \in Nat \ {0}
  BY DEF Repeated
<1>5. events \subseteq Event
  <2>1. Alike(start, group) \in Row /\ Alike(start + 1, group) \in Row
    BY DEF Alike, Row
  <2>2. \A i \in 1..n : i \in Nat \ {0}
    BY <1>1
  <2> HIDE DEF n
  <2>3. /\ \A e \in A : e \in Event
        /\ \A e \in B : e \in Event
    BY <2>1, <2>2 DEF Repeated, Event
  <2> QED
    BY <1>2, <2>3
<1>6. /\ \A e \in A : e.row.ts = start /\ e.row.group = group /\ e.row.matches
      /\ \A e \in B : e.row.ts = start + 1 /\ e.row.group = group /\ e.row.matches
  BY <1>4 DEF Alike
<1> HIDE DEF n, A, B
<1>7. IsBurst(events, start, group)
  <2>1. start < start + Timespan /\ start + 1 < start + Timespan
    BY <1>1, TimespanAssumption
  <2> QED
    BY <1>1, <1>2, <1>6, <2>1 DEF IsBurst, Window
<1>8. A \cap B = {}
  BY <1>1, <1>6
<1>9. Cardinality(events) = 2 * Threshold - 2
  <2>1. Cardinality(A \cap B) = 0
    BY <1>8, FS_EmptySet
  <2>2. Cardinality(A \cup B) = n + n - 0
    BY <1>3, <2>1, FS_Union
  <2>3. n + n - 0 = 2 * Threshold - 2
    BY <1>1 DEF n
  <2> QED
    BY <1>2, <2>2, <2>3
<1>10. \A key \in Keys(events) : Cell(events, key) \subseteq A \/ Cell(events, key) \subseteq B
  <2> TAKE key \in Keys(events)
  <2> DEFINE c == Cell(events, key)
  <2>1. c \subseteq A \cup B /\ \A e \in c : Key(e) = key
    BY <1>2 DEF Cell, Search
  <2>2. /\ \A a \in A : Key(a).bucket = Bucket(start)
        /\ \A b \in B : Key(b).bucket = Bucket(start + 1)
    BY <1>6 DEF Key
  <2> HIDE DEF c
  <2>3. c \subseteq A \/ c \subseteq B
    BY <2>1, <2>2
  <2> QED
    BY <2>3 DEF c
<1>11. \A key \in Keys(events) : ~ Having(Aggregate(Cell(events, key)))
  <2> SUFFICES ASSUME NEW key \in Keys(events) PROVE ~ Having(Aggregate(Cell(events, key)))
    OBVIOUS
  <2> DEFINE c == Cell(events, key)
  <2>1. c \in SUBSET A \/ c \in SUBSET B
    BY <1>10
  <2> HIDE DEF c
  <2>2. IsFiniteSet(c) /\ Cardinality(c) <= n
    BY <1>3, <2>1, FS_Subset
  <2>3. Cardinality(c) \in Nat
    BY <2>2, FS_CardinalityType
  <2>4. Aggregate(c) = Cardinality(c)
    BY DEF Aggregate
  <2>5. ~ Having(Cardinality(c))
    BY <1>1, <2>2, <2>3, CountAssumption DEF Having, Threshold, n
  <2> QED
    BY <2>4, <2>5 DEF c
<1> QED
  BY <1>5, <1>7, <1>9, <1>11 DEF Query
=============================================================================
