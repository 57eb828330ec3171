------------------------------- MODULE Replay -------------------------------
(***************************************************************************)
(* replay.py: compile one rule after the other to DuckDB SQL, run each     *)
(* over a source and return the hits of all of them.  The source is the    *)
(* consumer's connection, whose tables he goes on changing, or a file or a *)
(* list that is read into a table of a connection of replay's own.         *)
(*                                                                         *)
(* A row is its identity; Keys are the fields it has.  A query names one   *)
(* table and some columns of it: over another table, or without one of the *)
(* columns, DuckDB raises.  What a correlation computes is the subject of  *)
(* Correlation; here it takes Threshold rows to answer with a group.       *)
(***************************************************************************)
EXTENDS Integers, Sequences, FiniteSets

CONSTANTS
    Rules,
    Correlation,       \* the rules with a correlation document
    Matching,          \* rule |-> rows its condition matches
    Threshold,         \* rule |-> matching rows it takes to fire
    Group,             \* the row a correlation answers with
    RuleLists,         \* what replay is called with
    Pipelines,
    Refuses,           \* pipeline |-> rules it does not compile
    Needs,             \* pipeline |-> rule |-> columns its query names
    StateTable,        \* pipeline |-> the table it sets, or the default
    PlainFollowsState, \* whether a plain search goes to that table too
    Names,             \* tables of a connection
    DEFAULT_TABLE,
    Itself,            \* stands for the table among its columns
    Rows, Keys,        \* row |-> the fields it has
    Schemas,           \* columns a consumer creates a table with
    Lists,             \* rows of a file or of a list
    Unreadable,        \* no file, or not JSON lines
    MaxChanges         \* bound: the consumer's changes

Columns == (UNION {Keys[row] : row \in Rows}) \cup (UNION Schemas)

ASSUME RulesAssumption ==
    /\ Correlation \subseteq Rules
    /\ Matching \in [Rules -> SUBSET Rows]
    /\ Threshold \in [Rules -> Nat \ {0}]
    /\ \A rs \in RuleLists : rs \in Seq(Rules)
    /\ Pipelines # {}
    /\ StateTable \in [Pipelines -> Names]
    /\ PlainFollowsState \in BOOLEAN

ASSUME SourcesAssumption ==
    /\ DEFAULT_TABLE \in Names
    /\ IsFiniteSet(Rows)
    /\ Lists \subseteq SUBSET Rows
    /\ Itself \notin Columns
    /\ \A p \in Pipelines, r \in Rules : Itself \notin Needs[p][r]
    /\ Unreadable \notin Lists
    /\ MaxChanges \in Nat

VARIABLES
    tables,     \* the consumer's connection: name |-> rows and columns
    file,       \* the rows of the file, or Unreadable
    changes,
    call,       \* the call of replay that runs or ran last
    low, high   \* history: what the call's tables had all the time, and at some time

vars == <<tables, file, changes, call, low, high>>

\* A table is its rows and columns; one that does not exist has neither.
Table   == [rows: SUBSET Rows, cols: SUBSET (Columns \cup {Itself})]
Missing == [rows |-> {}, cols |-> {}]

Fresh == [pc |-> "idle", source |-> "connection", rules |-> <<>>,
          pipeline |-> CHOOSE p \in Pipelines : TRUE,
          at     |-> 1,            \* the rule to run next
          hits   |-> {},           \* DetectionHits so far: rule and matched row
          own    |-> Missing,      \* the table replay made of a file or a list
          given  |-> Unreadable]   \* history: the rows that were in it

Running == call.pc \in {"loading", "running"}
Ended   == call.pc \in {"returned", "raised"}

-----------------------------------------------------------------------------
\* read_json with sample_size=-1: every row is looked at.
ColumnsOf(rows) == UNION {Keys[row] : row \in rows}

\* CREATE TABLE ... AS SELECT * FROM read_json(...).
Materialised(rows) == [rows |-> rows, cols |-> ColumnsOf(rows) \cup {Itself}]

OnlyEvents(table) == [n \in Names |-> IF n = DEFAULT_TABLE THEN table ELSE Missing]

\* Mutant: a file is read again for each rule.
ViewReread ==
    CASE call.source = "connection" -> tables
      [] call.source = "list" -> OnlyEvents(call.own)
      [] OTHER -> OnlyEvents(IF file = Unreadable THEN call.own ELSE Materialised(file))

\* The connection a call runs its queries on.
View == IF call.source = "connection" THEN tables ELSE OnlyEvents(call.own)

\* The table of a rule's query: state table for a correlation.
NamedTable(r) ==
    IF r \in Correlation \/ PlainFollowsState THEN StateTable[call.pipeline]
    ELSE DEFAULT_TABLE

ColumnsFor(r) == Needs[call.pipeline][r] \cup {Itself}

Refused(r) == r \in Refuses[call.pipeline]

Answer(r, rows) ==
    LET found == rows \cap Matching[r] IN
    IF r \notin Correlation THEN found
    ELSE IF Cardinality(found) >= Threshold[r] THEN {Group} ELSE {}

Init ==
    /\ tables \in [Names -> {Missing} \cup [rows: Lists, cols: {s \cup {Itself} : s \in Schemas}]]
    /\ file \in Lists \cup {Unreadable}
    /\ changes = 0
    /\ call = Fresh
    /\ low = tables /\ high = tables

(* replay(rules, source, pipeline).                                        *)
Begin ==
    /\ ~Running
    /\ \E source \in {"connection", "file", "list"}, p \in Pipelines, rs \in RuleLists :
         /\ call' = [Fresh EXCEPT !.source = source, !.pipeline = p, !.rules = rs,
                        !.pc = IF source = "connection" THEN "running" ELSE "loading"]
         /\ low' = tables /\ high' = tables
    /\ UNCHANGED <<tables, file, changes>>

Load(rows) ==
    /\ call' = [call EXCEPT !.pc = "running", !.given = rows, !.own = Materialised(rows)]
    /\ low' = OnlyEvents(Materialised(rows)) /\ high' = low'

\* Mutant: what failed is tried again.
Retry == UNCHANGED <<call, low, high>>

Raise == call' = [call EXCEPT !.pc = "raised"] /\ UNCHANGED <<low, high>>

(* load_events of a path, or of a list by way of a temporary file.         *)
LoadEvents ==
    /\ call.pc = "loading"
    /\ \/ call.source = "file" /\ file # Unreadable /\ Load(file)
       \/ call.source = "file" /\ file = Unreadable /\ Raise
       \/ call.source = "list" /\ \E rows \in Lists : Load(rows)
    /\ UNCHANGED <<tables, file, changes>>

\* Mutant: a query that raises has no rows.
RunLenient(r) == ~Refused(r)

Runs(r) == ~Refused(r) /\ ColumnsFor(r) \subseteq View[NamedTable(r)].cols

\* Mutant: the hits of a rule take the place of those before.
KeepLast(hits, more) == more

Extend(hits, more) == hits \cup more

\* Mutant: a row found is a hit of every rule of the call.
FoundForAll(r) == {[rule |-> q, matched |-> row] :
                      q \in {call.rules[i] : i \in DOMAIN call.rules},
                      row \in Answer(r, View[NamedTable(r)].rows)}

Found(r) == {[rule |-> r, matched |-> row] : row \in Answer(r, View[NamedTable(r)].rows)}

(* compile_rule and run_sql for the next rule; both may raise.  execute,   *)
(* description and fetchall of one query are one step: the rows are those  *)
(* of one moment if the consumer's other thread works through a cursor of  *)
(* its own.  Two threads on one connection object can replace each other's *)
(* result between execute and fetchall, and that is not modelled.          *)
RunRule ==
    /\ call.pc = "running" /\ call.at \in DOMAIN call.rules
    /\ LET r == call.rules[call.at] IN
         \/ /\ Runs(r)
            /\ call' = [call EXCEPT !.at = @ + 1, !.hits = Extend(@, Found(r))]
            /\ UNCHANGED <<low, high>>
         \/ ~Runs(r) /\ Raise
    /\ UNCHANGED <<tables, file, changes>>

Return ==
    /\ call.pc = "running" /\ call.at \notin DOMAIN call.rules
    /\ call' = [call EXCEPT !.pc = "returned"]
    /\ UNCHANGED <<tables, file, changes, low, high>>

(* Outside: the consumer, or another thread of his, on the connection.     *)
Change(n, table) ==
    /\ changes < MaxChanges /\ changes' = changes + 1
    /\ tables' = [tables EXCEPT ![n] = table]
    /\ IF call.source = "connection" /\ Running
       THEN /\ low' = [low EXCEPT ![n] = [rows |-> @.rows \cap table.rows,
                                         cols |-> @.cols \cap table.cols]]
            /\ high' = [high EXCEPT ![n] = [rows |-> @.rows \cup table.rows,
                                           cols |-> @.cols \cup table.cols]]
       ELSE UNCHANGED <<low, high>>
    /\ UNCHANGED <<file, call>>

Exists(n) == Itself \in tables[n].cols

Insert(n) == \E row \in Rows \ tables[n].rows :
    Exists(n) /\ Change(n, [tables[n] EXCEPT !.rows = @ \cup {row}])

Delete(n) == \E row \in tables[n].rows :
    Change(n, [tables[n] EXCEPT !.rows = @ \ {row}])

Create(n) == \E cols \in Schemas :
    ~Exists(n) /\ Change(n, [rows |-> {}, cols |-> cols \cup {Itself}])

Drop(n) == Exists(n) /\ Change(n, Missing)

EditFile ==
    /\ changes < MaxChanges /\ changes' = changes + 1
    /\ file' \in (Lists \cup {Unreadable}) \ {file}
    /\ UNCHANGED <<tables, call, low, high>>

Next ==
    \/ Begin \/ LoadEvents \/ RunRule \/ Return
    \/ \E n \in Names : Insert(n) \/ Delete(n) \/ Create(n) \/ Drop(n)
    \/ EditFile

(* A call that began runs on: DuckDB answers, and nobody else is waited    *)
(* for.  The consumer need not do anything.                                *)
Spec == Init /\ [][Next]_vars /\ WF_vars(LoadEvents) /\ WF_vars(RunRule) /\ WF_vars(Return)

-----------------------------------------------------------------------------
Given == {call.rules[i] : i \in DOMAIN call.rules}
HitsOf(r) == {h.matched : h \in {x \in call.hits : x.rule = r}}

Call == [pc: {"idle", "loading", "running", "returned", "raised"},
         source: {"connection", "file", "list"}, rules: Seq(Rules), pipeline: Pipelines,
         at: Nat \ {0}, hits: SUBSET [rule: Rules, matched: Rows \cup {Group}],
         own: Table, given: Lists \cup {Unreadable}]

(* Types; and every hit is of a rule that was run.                         *)
TypeOK ==
    /\ tables \in [Names -> Table]
    /\ low \in [Names -> Table] /\ high \in [Names -> Table]
    /\ file \in Lists \cup {Unreadable}
    /\ changes \in 0..MaxChanges
    /\ call \in Call
    /\ call.at <= Len(call.rules) + 1
    /\ \A h \in call.hits : \E i \in DOMAIN call.rules : i < call.at /\ h.rule = call.rules[i]

(* On a live connection, what a returned call says of a rule lies between  *)
(* the rows that were in its table all through the call and the rows that  *)
(* were there at some time: no rule is left out, none has another's rows,  *)
(* and inserts and deletions between two rules show in neither.            *)
AnswersStand ==
    (call.source = "connection" /\ call.pc = "returned") =>
        \A r \in Given : /\ Answer(r, low[NamedTable(r)].rows) \subseteq HitsOf(r)
                         /\ HitsOf(r) \subseteq Answer(r, high[NamedTable(r)].rows)

(* A table that is missing, another one that the pipeline names, a column  *)
(* that is not there: none of them is ever an empty answer.  A call that   *)
(* returns had for every rule its table and columns, and one that raises   *)
(* had them not throughout for some rule, or did not compile it.           *)
ConnectionDecides ==
    call.source = "connection" =>
        /\ call.pc = "returned" =>
               \A r \in Given : ~Refused(r) /\ ColumnsFor(r) \subseteq high[NamedTable(r)].cols
        /\ call.pc = "raised" =>
               \E r \in Given : Refused(r) \/ ~(ColumnsFor(r) \subseteq low[NamedTable(r)].cols)

(* A file or a list is read once: the call returns if it could be read and *)
(* every rule compiles, stays with the default table and finds its columns *)
(* in some row, and then with the answers over that one content, whatever  *)
(* happens to the file or on any connection meanwhile.                     *)
Fits(r) == /\ ~Refused(r) /\ NamedTable(r) = DEFAULT_TABLE
           /\ Needs[call.pipeline][r] \subseteq UNION {Keys[row] : row \in call.given}

SourceDecides ==
    (call.source # "connection" /\ Ended) =>
        /\ call.pc = "returned" <=> call.given # Unreadable /\ \A r \in Given : Fits(r)
        /\ call.pc = "returned" => \A r \in Given : HitsOf(r) = Answer(r, call.given)

(* A call of replay returns or raises.                                     *)
CallEnds == Running ~> Ended
=============================================================================
