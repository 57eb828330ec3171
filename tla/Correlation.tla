---------------------------- MODULE Correlation ----------------------------
(***************************************************************************)
(* The correlation query that kodon's DuckDB backend emits                 *)
(* (duckdb_backend.py) and replay.py runs.  The consumer hands `replay` a  *)
(* live connection, keeps inserting telemetry into its table, and replays  *)
(* the rule again; the query counts per time bucket and group:             *)
(*                                                                         *)
(*   SELECT time_bucket(timespan, ts) AS bucket, group, aggregate AS n     *)
(*   FROM (search) GROUP BY 1, group HAVING aggregate op count             *)
(*                                                                         *)
(* SQL is modelled by what it computes.  A table is a bag of rows, kept as *)
(* a set of numbered copies.                                               *)
(***************************************************************************)
EXTENDS Integers, FiniteSets

CONSTANTS
    Times,      \* timestamps the telemetry carries
    Timespan,   \* the correlation's timespan, in the same unit
    Origin,     \* where time_bucket's grid is anchored
    Groups,     \* values of the group-by fields, NULL among them or not
    Values,     \* non-NULL values of the value_count field
    Null,       \* SQL NULL
    Type,       \* correlation type
    Op,         \* condition operator
    Count,      \* condition count
    MaxRows     \* bound: rows ever inserted

ASSUME TimesAssumption    == Times \subseteq Int
ASSUME TimespanAssumption == Timespan \in Nat \ {0}
ASSUME OriginAssumption   == Origin \in Int
ASSUME NullAssumption     == Null \notin Values
ASSUME TypeAssumption     == Type \in {"event_count", "value_count"}
ASSUME OpAssumption       == Op \in {"LT", "LTE", "GT", "GTE", "EQ", "NEQ"}
ASSUME CountAssumption    == Count \in Nat

VARIABLES
    events,     \* the table of the connection
    hits        \* what the last replay returned

vars == <<events, hits>>

-----------------------------------------------------------------------------
(* A row: `matches` stands for the rule's own condition on it.             *)
Row   == [ts: Times, group: Groups, value: Values \cup {Null}, matches: BOOLEAN]
Event == [row: Row, copy: Nat \ {0}]
Hit   == [bucket: Int, group: Groups, count: Nat]

(* The query, inside out.                                                  *)
Search(table) == {e \in table : e.row.matches}

Bucket(t) == Origin + Timespan * ((t - Origin) \div Timespan)

\* Mutant: the timespan is ignored, as in the SQLite backend.
KeyTimespanIgnored(e) == [bucket |-> Origin, group |-> e.row.group]

Key(e) == [bucket |-> Bucket(e.row.ts), group |-> e.row.group]

Cell(table, key) == {e \in Search(table) : Key(e) = key}

\* COUNT(DISTINCT field) passes over NULL, COUNT( * ) does not look at fields.
\* Mutant: NULL is counted as a value.
AllValues(cell) == {e.row.value : e \in cell}

DistinctValues(cell) == {e.row.value : e \in {d \in cell : d.row.value # Null}}

Aggregate(cell) == IF Type = "event_count" THEN Cardinality(cell)
                                           ELSE Cardinality(DistinctValues(cell))

\* Mutants: the operator is taken for EQ; the bound is one too high.
HavingExact(n) == n = Count
HavingLate(n)  == n > (IF Op = "GT" THEN Count + 1 ELSE Count)

Having(n) == \/ Op = "LT"  /\ n < Count
             \/ Op = "LTE" /\ n <= Count
             \/ Op = "GT"  /\ n > Count
             \/ Op = "GTE" /\ n >= Count
             \/ Op = "EQ"  /\ n = Count
             \/ Op = "NEQ" /\ n # Count

\* GROUP BY makes a group only where the search found a row.
Keys(table) == {Key(e) : e \in Search(table)}

Answer(table, key) == [bucket |-> key.bucket, group |-> key.group,
                       count |-> Aggregate(Cell(table, key))]

Query(table) == {Answer(table, key) : key \in {k \in Keys(table) : Having(Aggregate(Cell(table, k)))}}

-----------------------------------------------------------------------------
Init == events = {} /\ hits = {}

Copies(row) == Cardinality({e \in events : e.row = row})

(* The consumer inserts a row through the connection it keeps.             *)
Insert(row) ==
    /\ Cardinality(events) < MaxRows
    /\ events' = events \cup {[row |-> row, copy |-> Copies(row) + 1]}
    /\ UNCHANGED hits

(* replay on that connection: run_sql, one DetectionHit per answered row.  *)
Replay ==
    /\ hits' = Query(events)
    /\ UNCHANGED events

Next == Replay \/ \E row \in Row : Insert(row)

Spec == Init /\ [][Next]_vars

-----------------------------------------------------------------------------
(* The table holds rows, the hits are well formed.                         *)
TypeOK == /\ events \subseteq Event
          /\ hits \subseteq Hit

(* A burst, said without buckets: matching events of one group inside one  *)
(* window of length Timespan; for value_count, with different non-NULL     *)
(* values of the counted field.                                            *)
Window(start, group) ==
    {e \in events : /\ e.row.matches
                    /\ e.row.group = group
                    /\ start <= e.row.ts
                    /\ e.row.ts < start + Timespan}

Differ(E) == \A d, e \in E : d # e => d.row.value # e.row.value

IsBurst(E, start, group) ==
    /\ E \subseteq Window(start, group)
    /\ Type = "value_count" => /\ Differ(E)
                               /\ \A e \in E : e.row.value # Null

(* Everything reported is backed by a burst of exactly the size it states, *)
(* inside the window it names, and that size meets the rule's condition:   *)
(* no grouping, filtering or NULL slip counts events that do not belong    *)
(* together.                                                               *)
HitsAreBursts ==
    \A h \in hits :
        /\ Having(h.count)
        /\ \E E \in SUBSET events : /\ IsBurst(E, h.bucket, h.group)
                                    /\ Cardinality(E) = h.count

(* For "more than" rules, more telemetry never retracts a hit: whatever a  *)
(* consumer was told stays in the answer, with a count no smaller, even    *)
(* after rows that arrive late or out of order.                            *)
ReportedHitsStand ==
    Op \in {"GT", "GTE"} =>
        \A h \in hits : \E n \in Query(events) :
            n.bucket = h.bucket /\ n.group = h.group /\ n.count >= h.count

(* What fixed buckets cost.  A burst that straddles a boundary can be      *)
(* missed, but never one as large as two thresholds less one: wherever it  *)
(* starts, one of the two buckets it touches is reported.                  *)
Threshold == IF Op = "GT" THEN Count + 1 ELSE Count

DenseBurst(start, group) ==
    \E E \in SUBSET events : /\ IsBurst(E, start, group)
                             /\ Cardinality(E) >= 2 * Threshold - 1

DenseBurstsReported ==
    (Op \in {"GT", "GTE"} /\ Threshold > 0) =>
        \A start \in Times, group \in Groups :
            DenseBurst(start, group) =>
                \E h \in Query(events) :
                    /\ h.group = group
                    /\ h.bucket \in {Bucket(start), Bucket(start) + Timespan}
=============================================================================
