---------------------------- MODULE ReplayProofs ----------------------------
(***************************************************************************)
(* The properties of replay, for every set of rules, pipelines, tables and *)
(* rows, and however many changes the consumer makes.  The histories low   *)
(* and high bound the tables of the running call from below and above; a   *)
(* file or a list is the case where the two are the same.                  *)
(***************************************************************************)
EXTENDS Replay, FiniteSetTheorems, TLAPS

-----------------------------------------------------------------------------
(* Answers grow with the rows.                                             *)
LEMMA AnswersGrow ==
    ASSUME NEW r \in Rules, NEW A, NEW B \in SUBSET Rows, A \subseteq B
    PROVE  Answer(r, A) \subseteq Answer(r, B)
<1> DEFINE a == A \cap Matching[r]
           b == B \cap Matching[r]
<1>1. IsFiniteSet(b)
    BY SourcesAssumption, FS_Subset
<1>2. a \subseteq b
    OBVIOUS
<1>3. /\ Cardinality(a) <= Cardinality(b)
      /\ Cardinality(a) \in Nat /\ Cardinality(b) \in Nat
    BY <1>1, <1>2, FS_Subset, FS_CardinalityType
<1>4. Threshold[r] \in Nat
    BY RulesAssumption
<1> QED
    BY <1>2, <1>3, <1>4 DEF Answer

LEMMA AnswersAreRows ==
    ASSUME NEW r \in Rules, NEW A \in SUBSET Rows
    PROVE  Answer(r, A) \subseteq Rows \cup {Group}
BY DEF Answer

\* A rule's query names a table of the connection.
LEMMA NamedTableIsNamed ==
    ASSUME NEW r \in Rules, call.pipeline \in Pipelines PROVE NamedTable(r) \in Names
BY RulesAssumption, SourcesAssumption DEF NamedTable

\* A table is created with columns.
LEMMA SchemasAreColumns == \A s \in Schemas : s \subseteq Columns
<1>1. \A s \in Schemas : s \subseteq UNION Schemas
    OBVIOUS
<1> QED
    BY <1>1 DEF Columns

\* What DuckDB makes of a file or a list is a table.
LEMMA MaterialisedIsATable ==
    ASSUME NEW rows \in Lists
    PROVE  Materialised(rows) \in Table /\ OnlyEvents(Materialised(rows)) \in [Names -> Table]
<1>1. rows \subseteq Rows
    BY SourcesAssumption
<1>2. ColumnsOf(rows) \subseteq Columns
    BY <1>1 DEF ColumnsOf, Columns
<1>3. Materialised(rows) \in Table /\ Missing \in Table
    BY <1>1, <1>2 DEF Materialised, Table, Missing
<1> QED
    BY <1>3 DEF OnlyEvents

-----------------------------------------------------------------------------
(* The inductive invariant.                                                *)
Below(s, t) == \A n \in Names : s[n].rows \subseteq t[n].rows /\ s[n].cols \subseteq t[n].cols

\* The histories bound the tables that the call sees.
Bounded == call.pc = "running" => Below(low, View) /\ Below(View, high)

\* A table of replay's own is what was given, and stays so.
OwnInv ==
    call.source # "connection" =>
        /\ call.pc = "loading" => call.given = Unreadable
        /\ call.pc \in {"running", "returned"} => call.given # Unreadable
        /\ call.given # Unreadable =>
               /\ call.own = Materialised(call.given)
               /\ low = OnlyEvents(call.own) /\ high = OnlyEvents(call.own)

\* A rule that was run had its table and columns, and said what it must.
Ran(r) == /\ ~Refused(r)
          /\ ColumnsFor(r) \subseteq high[NamedTable(r)].cols
          /\ \A m \in Answer(r, low[NamedTable(r)].rows) : [rule |-> r, matched |-> m] \in call.hits

RanInv ==
    /\ \A i \in DOMAIN call.rules : i < call.at => Ran(call.rules[i])
    /\ \A h \in call.hits : /\ h.matched \in Answer(h.rule, high[NamedTable(h.rule)].rows)
                            /\ \E i \in DOMAIN call.rules : i < call.at /\ h.rule = call.rules[i]

\* Why a call ended.
Failed == \E r \in Given : Refused(r) \/ ~(ColumnsFor(r) \subseteq low[NamedTable(r)].cols)

EndInv ==
    /\ call.pc = "loading" => call.at = 1 /\ call.hits = {}
    /\ call.pc = "returned" => call.at \notin DOMAIN call.rules
    /\ call.pc = "raised" =>
           (call.source # "connection" /\ call.given = Unreadable) \/ Failed

Typed ==
    /\ tables \in [Names -> Table] /\ low \in [Names -> Table] /\ high \in [Names -> Table]
    /\ file \in Lists \cup {Unreadable}
    /\ changes \in 0..MaxChanges
    /\ call \in Call
    /\ call.at <= Len(call.rules) + 1

IInv == Typed /\ Bounded /\ OwnInv /\ RanInv /\ EndInv

\* The table a call sees.
LEMMA ViewIsTyped == ASSUME Typed PROVE View \in [Names -> Table]
<1>1. Missing \in Table
    BY DEF Missing, Table
<1> QED
    BY <1>1 DEF Typed, View, OnlyEvents, Call

-----------------------------------------------------------------------------
LEMMA FreshIsACall ==
    /\ Fresh \in Call
    /\ Fresh.pc = "idle" /\ Fresh.source = "connection" /\ Fresh.rules = <<>>
    /\ Fresh.at = 1 /\ Fresh.hits = {} /\ Fresh.given = Unreadable
<1>1. (CHOOSE p \in Pipelines : TRUE) \in Pipelines
    BY RulesAssumption
<1>2. <<>> \in Seq(Rules) /\ Missing \in Table
    BY DEF Missing, Table
<1> QED
    BY <1>1, <1>2 DEF Fresh, Call

THEOREM InitIsSound == Init => IInv
<1> SUFFICES ASSUME Init PROVE IInv
    OBVIOUS
<1>1. tables \in [Names -> Table]
  <2>1. [rows: Lists, cols: {s \cup {Itself} : s \in Schemas}] \subseteq Table
    <3>1. {s \cup {Itself} : s \in Schemas} \subseteq SUBSET (Columns \cup {Itself})
        BY SchemasAreColumns
    <3> QED
        BY <3>1, SourcesAssumption DEF Table
  <2>2. Missing \in Table
      BY DEF Missing, Table
  <2> QED
      BY <2>1, <2>2 DEF Init
<1>2. call \in Call /\ call = Fresh
    BY FreshIsACall DEF Init
<1>3. call.pc = "idle" /\ call.source = "connection" /\ call.rules = <<>> /\ call.at = 1
      /\ call.hits = {}
    BY <1>2, FreshIsACall
<1>4. Typed
    BY <1>1, <1>2, <1>3, SourcesAssumption DEF Init, Typed
<1> QED
    BY <1>3, <1>4 DEF IInv, Bounded, OwnInv, RanInv, EndInv

(* replay is called.                                                       *)
LEMMA BeginStep == IInv /\ Begin => IInv'
<1> SUFFICES ASSUME IInv, Begin PROVE IInv'
    OBVIOUS
<1>1. PICK source \in {"connection", "file", "list"}, p \in Pipelines, rs \in RuleLists :
        call' = [Fresh EXCEPT !.source = source, !.pipeline = p, !.rules = rs,
                     !.pc = IF source = "connection" THEN "running" ELSE "loading"]
    BY DEF Begin
<1>2. rs \in Seq(Rules)
    BY RulesAssumption
<1>3. /\ call' \in Call
      /\ call'.source = source /\ call'.rules = rs /\ call'.at = 1 /\ call'.hits = {}
      /\ call'.pc = IF source = "connection" THEN "running" ELSE "loading"
      /\ call'.given = Unreadable
    BY <1>1, <1>2, FreshIsACall DEF Call
<1>4. Typed'
    BY <1>3, <1>2 DEF IInv, Typed, Begin
<1>5. Bounded'
    BY <1>3 DEF Bounded, Below, View, Begin
<1>6. OwnInv' /\ EndInv'
    BY <1>3 DEF OwnInv, EndInv
<1>7. RanInv'
    BY <1>2, <1>3 DEF RanInv
<1> QED
    BY <1>4, <1>5, <1>6, <1>7 DEF IInv

\* A call that fails: the case of load_events, and of a rule.
LEMMA RaiseStep ==
    ASSUME IInv, Raise, UNCHANGED <<tables, file, changes>>,
           (call.source # "connection" /\ call.given = Unreadable) \/ Failed
    PROVE  IInv'
<1>1. /\ call' \in Call /\ call'.pc = "raised"
      /\ call'.source = call.source /\ call'.rules = call.rules /\ call'.at = call.at
      /\ call'.hits = call.hits /\ call'.given = call.given /\ call'.own = call.own
      /\ call'.pipeline = call.pipeline
    BY DEF Raise, IInv, Typed, Call
<1>2. Typed'
    BY <1>1 DEF Raise, IInv, Typed
<1>3. Bounded'
    BY <1>1 DEF Bounded
<1>4. OwnInv'
    BY <1>1 DEF Raise, IInv, OwnInv
<1>5. RanInv'
    BY <1>1 DEF Raise, IInv, RanInv, Ran, Refused, ColumnsFor, NamedTable
<1>6. EndInv'
    BY <1>1 DEF Raise, EndInv, Failed, Given, Refused, ColumnsFor, NamedTable
<1> QED
    BY <1>2, <1>3, <1>4, <1>5, <1>6 DEF IInv

(* A source is read, once.                                                 *)
LEMMA LoadStep == IInv /\ LoadEvents => IInv'
<1> SUFFICES ASSUME IInv, LoadEvents PROVE IInv'
    OBVIOUS
<1>1. ASSUME NEW rows \in Lists, call.source # "connection", Load(rows) PROVE IInv'
  <2>1. call.at = 1 /\ call.hits = {}
      BY DEF IInv, EndInv, LoadEvents
  <2>2. Materialised(rows) \in Table /\ OnlyEvents(Materialised(rows)) \in [Names -> Table]
      BY MaterialisedIsATable
  <2>3. /\ call' \in Call /\ call'.pc = "running" /\ call'.source = call.source
        /\ call'.given = rows /\ call'.own = Materialised(rows)
        /\ call'.rules = call.rules /\ call'.at = 1 /\ call'.hits = {}
      BY <1>1, <2>1, <2>2 DEF Load, IInv, Typed, Call
  <2>4. low' = OnlyEvents(Materialised(rows)) /\ high' = OnlyEvents(Materialised(rows))
      BY <1>1 DEF Load
  <2>5. Typed'
      BY <2>2, <2>3, <2>4, <2>1 DEF IInv, Typed, LoadEvents
  <2>6. rows # Unreadable
      BY SourcesAssumption
  <2>7. View' = OnlyEvents(Materialised(rows))
      BY <1>1, <2>3 DEF View
  <2>8. Bounded'
      BY <2>4, <2>7 DEF Bounded, Below
  <2>9. OwnInv'
      BY <2>3, <2>4, <2>6 DEF OwnInv
  <2>10. RanInv' /\ EndInv'
      BY <2>3, <2>5 DEF RanInv, EndInv, Typed, Call
  <2> QED
      BY <2>5, <2>8, <2>9, <2>10 DEF IInv
<1>2. CASE call.source = "file" /\ file # Unreadable /\ Load(file)
    BY <1>1, <1>2 DEF IInv, Typed
<1>3. CASE call.source = "file" /\ file = Unreadable /\ Raise
  <2>1. call.given = Unreadable
      BY <1>3 DEF IInv, OwnInv, LoadEvents
  <2> QED
      BY <1>3, <2>1, RaiseStep DEF LoadEvents
<1>4. CASE call.source = "list" /\ \E rows \in Lists : Load(rows)
    BY <1>1, <1>4
<1> QED
    BY <1>2, <1>3, <1>4 DEF LoadEvents

(* A rule is run on the tables as they are now.                            *)
LEMMA RunStep == IInv /\ RunRule => IInv'
<1> SUFFICES ASSUME IInv, RunRule PROVE IInv'
    OBVIOUS
<1>1. /\ call.pc = "running" /\ call.at \in DOMAIN call.rules /\ call.at \in Nat \ {0}
      /\ call \in Call /\ call.rules \in Seq(Rules)
    BY DEF IInv, Typed, RunRule, Call
<1> PICK r \in Rules : r = call.rules[call.at]
    BY <1>1
<1>2. r \in Rules /\ r \in Given /\ call.pipeline \in Pipelines
    BY <1>1 DEF Given, Call
<1>3. NamedTable(r) \in Names
    BY <1>2, NamedTableIsNamed
<1>4. /\ View \in [Names -> Table] /\ low \in [Names -> Table] /\ high \in [Names -> Table]
      /\ Below(low, View) /\ Below(View, high)
    BY <1>1, ViewIsTyped DEF IInv, Typed, Bounded
<1> DEFINE n == NamedTable(r)
<1>5. /\ low[n].rows \subseteq View[n].rows /\ View[n].rows \subseteq high[n].rows
      /\ low[n].cols \subseteq View[n].cols /\ View[n].cols \subseteq high[n].cols
      /\ View[n].rows \subseteq Rows /\ high[n].rows \subseteq Rows
    BY <1>3, <1>4 DEF Below, Table
<1>6. CASE ~Runs(r)
  <2>1. Refused(r) \/ ~(ColumnsFor(r) \subseteq low[n].cols)
      BY <1>5, <1>6 DEF Runs
  <2>2. Failed
      BY <1>2, <2>1 DEF Failed
  <2> QED
      BY <1>6, <2>2, RaiseStep DEF RunRule
<1>7. CASE Runs(r)
  <2> DEFINE answer == Answer(r, View[n].rows)
  <2>1. /\ Answer(r, low[n].rows) \subseteq answer
        /\ answer \subseteq Answer(r, high[n].rows)
        /\ answer \subseteq Rows \cup {Group}
      BY <1>2, <1>5, AnswersGrow, AnswersAreRows
  <2>2. /\ call' = [call EXCEPT !.at = call.at + 1, !.hits = call.hits \cup Found(r)]
        /\ UNCHANGED <<tables, file, changes, low, high>>
      BY <1>7 DEF RunRule, Extend
  <2>3. Found(r) = {[rule |-> r, matched |-> row] : row \in answer}
      BY DEF Found
  <2> HIDE DEF answer, n
  <2>4. Found(r) \subseteq [rule: Rules, matched: Rows \cup {Group}]
      BY <1>2, <2>1, <2>3
  <2>14. call.hits \cup Found(r) \in SUBSET [rule: Rules, matched: Rows \cup {Group}]
         /\ call.at + 1 \in Nat \ {0}
      BY <1>1, <2>4 DEF Call
  <2>5. /\ call' \in Call /\ call'.at = call.at + 1 /\ call'.hits = call.hits \cup Found(r)
        /\ call'.pc = "running" /\ call'.source = call.source /\ call'.rules = call.rules
        /\ call'.given = call.given /\ call'.own = call.own /\ call'.pipeline = call.pipeline
      BY <1>1, <2>2, <2>14 DEF Call
  <2>6. Typed'
      BY <1>1, <2>2, <2>5 DEF IInv, Typed, Call
  <2>7. View' = View
      BY <2>2, <2>5 DEF View
  <2>8. Bounded' /\ OwnInv' /\ EndInv'
      BY <1>1, <2>2, <2>5, <2>7 DEF IInv, Bounded, OwnInv, EndInv
  <2>9. Ran(r)'
    <3>1. \A m \in Answer(r, low[NamedTable(r)].rows) : [rule |-> r, matched |-> m] \in Found(r)
        BY <2>1, <2>3 DEF n
    <3>2. ~Refused(r) /\ ColumnsFor(r) \subseteq high[NamedTable(r)].cols
        BY <1>5, <1>7 DEF Runs, n
    <3> QED
        BY <2>2, <2>5, <3>1, <3>2 DEF Ran, Refused, ColumnsFor, NamedTable
  <2>10. ASSUME NEW q \in Rules, Ran(q) PROVE Ran(q)'
      BY <2>2, <2>5, <2>10 DEF Ran, Refused, ColumnsFor, NamedTable
  <2>11. ASSUME NEW q \in Rules, NEW i \in DOMAIN call.rules, i < call.at + 1,
                q = call.rules[i]
         PROVE  Ran(q)'
    <3>1. CASE i = call.at
        BY <2>9, <2>11, <3>1
    <3>2. CASE i < call.at
        BY <2>10, <2>11, <3>2 DEF IInv, RanInv
    <3> QED
        BY <1>1, <2>11, <3>1, <3>2
  <2>12. \A h \in call'.hits :
            /\ h.matched \in Answer(h.rule, high'[NamedTable(h.rule)'].rows)
            /\ \E i \in DOMAIN call'.rules : i < call'.at /\ h.rule = call'.rules[i]
    <3> SUFFICES ASSUME NEW h \in call.hits \cup Found(r)
                 PROVE  /\ h.matched \in Answer(h.rule, high[NamedTable(h.rule)].rows)
                        /\ \E i \in DOMAIN call.rules : i < call.at + 1 /\ h.rule = call.rules[i]
        BY <2>2, <2>5 DEF NamedTable
    <3>1. CASE h \in call.hits
        BY <1>1, <3>1 DEF IInv, RanInv, Call
    <3>2. CASE h \in Found(r)
      <4>1. h.rule = r /\ h.matched \in answer
          BY <2>3, <3>2
      <4> QED
          BY <1>1, <2>1, <4>1 DEF n, Call
    <3> QED
        BY <3>1, <3>2
  <2>13. RanInv'
      BY <1>1, <2>5, <2>11, <2>12 DEF RanInv
  <2> QED
      BY <2>6, <2>8, <2>13 DEF IInv
<1> QED
    BY <1>6, <1>7

(* Every rule was run.                                                     *)
LEMMA ReturnStep == IInv /\ Return => IInv'
<1> SUFFICES ASSUME IInv, Return PROVE IInv'
    OBVIOUS
<1>1. /\ call' \in Call /\ call'.pc = "returned" /\ call.pc = "running"
      /\ call'.source = call.source /\ call'.rules = call.rules /\ call'.at = call.at
      /\ call'.hits = call.hits /\ call'.given = call.given /\ call'.own = call.own
      /\ call'.pipeline = call.pipeline
    BY DEF Return, IInv, Typed, Call
<1>2. Typed' /\ Bounded' /\ OwnInv' /\ EndInv'
    BY <1>1 DEF Return, IInv, Typed, Bounded, OwnInv, EndInv
<1>3. RanInv'
    BY <1>1 DEF Return, IInv, RanInv, Ran, Refused, ColumnsFor, NamedTable
<1> QED
    BY <1>2, <1>3 DEF IInv

(* The consumer changes a table: the histories follow while a call is on   *)
(* his connection, and what was answered stays between them.               *)
LEMMA ChangeStep ==
    ASSUME NEW n \in Names, NEW table \in Table, IInv, Change(n, table)
    PROVE  IInv'
<1>1. /\ call' = call /\ file' = file /\ changes' \in 0..MaxChanges
      /\ tables' = [tables EXCEPT ![n] = table] /\ tables' \in [Names -> Table]
    BY SourcesAssumption DEF Change, IInv, Typed
<1>2. CASE call.source = "connection" /\ Running
  <2>1. /\ low' = [low EXCEPT ![n] = [rows |-> low[n].rows \cap table.rows,
                                     cols |-> low[n].cols \cap table.cols]]
        /\ high' = [high EXCEPT ![n] = [rows |-> high[n].rows \cup table.rows,
                                       cols |-> high[n].cols \cup table.cols]]
      BY <1>2 DEF Change
  <2>2. low' \in [Names -> Table] /\ high' \in [Names -> Table]
      BY <2>1 DEF IInv, Typed, Table
  <2>3. Typed'
      BY <1>1, <2>2 DEF IInv, Typed
  <2>4. \/ call.pc = "loading"
        \/ /\ Below(low', low) /\ Below(high, high')
           /\ Below(low', tables') /\ Below(tables', high')
    <3> SUFFICES ASSUME call.pc = "running"
                 PROVE  Below(low', low) /\ Below(high, high') /\ Below(low', tables')
                        /\ Below(tables', high')
        BY <1>2 DEF Running
    <3>1. Below(low, tables) /\ Below(tables, high)
        BY <1>2 DEF IInv, Bounded, View
    <3> QED
        BY <1>1, <2>1, <3>1 DEF IInv, Typed, Table, Below
  <2>5. Bounded' /\ OwnInv'
      BY <1>1, <1>2, <2>4 DEF Bounded, OwnInv, View
  <2>6. EndInv'
      BY <1>1, <1>2 DEF IInv, EndInv, Running
  <2>7. ASSUME NEW q \in Rules, Ran(q), Below(low', low), Below(high, high') PROVE Ran(q)'
    <3>1. NamedTable(q) \in Names
        BY NamedTableIsNamed DEF IInv, Typed, Call
    <3> DEFINE m == NamedTable(q)
    <3>2. /\ low'[m].rows \subseteq low[m].rows /\ high[m].cols \subseteq high'[m].cols
          /\ low[m].rows \subseteq Rows
        BY <2>7, <3>1 DEF Below, IInv, Typed, Table
    <3>3. Answer(q, low'[m].rows) \subseteq Answer(q, low[m].rows)
        BY <3>2, AnswersGrow
    <3>4. NamedTable(q)' = NamedTable(q) /\ Refused(q)' = Refused(q)
          /\ ColumnsFor(q)' = ColumnsFor(q)
        BY <1>1 DEF NamedTable, Refused, ColumnsFor
    <3> QED
        BY <1>1, <2>7, <3>2, <3>3, <3>4 DEF Ran
  <2>8. ASSUME NEW h \in call.hits, Below(high, high'),
               h.matched \in Answer(h.rule, high[NamedTable(h.rule)].rows)
        PROVE  h.matched \in Answer(h.rule, high'[NamedTable(h.rule)'].rows)
    <3>1. h.rule \in Rules /\ NamedTable(h.rule) \in Names
        BY NamedTableIsNamed DEF IInv, Typed, Call
    <3> DEFINE m == NamedTable(h.rule)
    <3>2. high[m].rows \subseteq high'[m].rows /\ high'[m].rows \subseteq Rows
        BY <2>2, <2>8, <3>1 DEF Below, Table
    <3>3. Answer(h.rule, high[m].rows) \subseteq Answer(h.rule, high'[m].rows)
        BY <3>1, <3>2, AnswersGrow
    <3> QED
        BY <1>1, <2>8, <3>3 DEF NamedTable
  <2>9. RanInv'
    <3>1. CASE call.pc = "loading"
        BY <1>1, <3>1 DEF IInv, RanInv, EndInv, Typed, Call
    <3>2. CASE Below(low', low) /\ Below(high, high')
        BY <1>1, <2>7, <2>8, <3>2 DEF IInv, RanInv, Typed, Call
    <3> QED
        BY <2>4, <3>1, <3>2
  <2> QED
      BY <2>3, <2>5, <2>6, <2>9 DEF IInv
<1>3. CASE ~(call.source = "connection" /\ Running)
  <2>1. low' = low /\ high' = high
      BY <1>3 DEF Change
  <2>2. Typed' /\ OwnInv' /\ EndInv'
      BY <1>1, <2>1 DEF IInv, Typed, OwnInv, EndInv, Failed, Given, Refused, ColumnsFor, NamedTable
  <2>3. RanInv'
      BY <1>1, <2>1 DEF IInv, RanInv, Ran, Refused, ColumnsFor, NamedTable
  <2>4. Bounded'
      BY <1>1, <1>3, <2>1 DEF IInv, Bounded, View, Running
  <2> QED
      BY <2>2, <2>3, <2>4 DEF IInv
<1> QED
    BY <1>2, <1>3

LEMMA ConsumerSteps ==
    ASSUME NEW n \in Names, IInv, Insert(n) \/ Delete(n) \/ Create(n) \/ Drop(n)
    PROVE  IInv'
<1>1. tables[n] \in Table
    BY DEF IInv, Typed
<1>2. CASE Insert(n)
  <2>1. PICK row \in Rows : Change(n, [tables[n] EXCEPT !.rows = tables[n].rows \cup {row}])
      BY <1>2 DEF Insert
  <2>2. [tables[n] EXCEPT !.rows = tables[n].rows \cup {row}] \in Table
      BY <1>1 DEF Table
  <2> QED
      BY <2>1, <2>2, ChangeStep
<1>3. CASE Delete(n)
  <2>1. PICK row \in tables[n].rows :
            Change(n, [tables[n] EXCEPT !.rows = tables[n].rows \ {row}])
      BY <1>3 DEF Delete
  <2>2. [tables[n] EXCEPT !.rows = tables[n].rows \ {row}] \in Table
      BY <1>1 DEF Table
  <2> QED
      BY <2>1, <2>2, ChangeStep
<1>4. CASE Create(n)
  <2>1. PICK cols \in Schemas : Change(n, [rows |-> {}, cols |-> cols \cup {Itself}])
      BY <1>4 DEF Create
  <2>2. [rows |-> {}, cols |-> cols \cup {Itself}] \in Table
      BY <2>1, SchemasAreColumns DEF Table
  <2> QED
      BY <2>1, <2>2, ChangeStep
<1>5. CASE Drop(n)
  <2>1. Missing \in Table
      BY DEF Missing, Table
  <2> QED
      BY <1>5, <2>1, ChangeStep DEF Drop
<1> QED
    BY <1>2, <1>3, <1>4, <1>5

THEOREM StepIsSound == IInv /\ [Next]_vars => IInv'
<1> SUFFICES ASSUME IInv, [Next]_vars PROVE IInv'
    OBVIOUS
<1>1. ASSUME UNCHANGED <<tables, call, low, high>>, file' \in Lists \cup {Unreadable},
             changes' \in 0..MaxChanges
      PROVE  IInv'
    BY <1>1 DEF IInv, Typed, Bounded, View, OwnInv, RanInv, Ran, EndInv, Failed, Given, Refused,
       ColumnsFor, NamedTable
<1>2. CASE EditFile
    BY <1>1, <1>2, SourcesAssumption DEF EditFile, IInv, Typed
<1>3. CASE UNCHANGED vars
    BY <1>1, <1>3 DEF vars, IInv, Typed
<1>4. CASE Begin \/ LoadEvents \/ RunRule \/ Return
    BY <1>4, BeginStep, LoadStep, RunStep, ReturnStep
<1>5. CASE \E n \in Names : Insert(n) \/ Delete(n) \/ Create(n) \/ Drop(n)
    BY <1>5, ConsumerSteps
<1> QED
    BY <1>2, <1>3, <1>4, <1>5 DEF Next

THEOREM Invariance == Spec => []IInv
    BY InitIsSound, StepIsSound, PTL DEF Spec

-----------------------------------------------------------------------------
(* Types hold, and every hit is of a rule that was run.                    *)
THEOREM TypeCorrect == Spec => []TypeOK
<1>1. IInv => TypeOK
    BY DEF IInv, Typed, RanInv, TypeOK
<1> QED
    BY <1>1, Invariance, PTL

LEMMA GivenAreRules == ASSUME IInv, NEW r \in Given PROVE r \in Rules
<1>1. call.rules \in Seq(Rules)
    BY DEF IInv, Typed, Call
<1> QED
    BY <1>1 DEF Given

\* What a returned call says of a rule lies between the bounds.
LEMMA ReturnedAnswers ==
    ASSUME IInv, call.pc = "returned", NEW r \in Given
    PROVE  /\ r \in Rules /\ Ran(r)
           /\ Answer(r, low[NamedTable(r)].rows) \subseteq HitsOf(r)
           /\ HitsOf(r) \subseteq Answer(r, high[NamedTable(r)].rows)
<1>1. call \in Call /\ call.rules \in Seq(Rules) /\ call.at \notin DOMAIN call.rules
    BY DEF IInv, Typed, EndInv, Call
<1>2. PICK i \in DOMAIN call.rules : r = call.rules[i]
    BY DEF Given
<1>3. i < call.at
    BY <1>1 DEF IInv, Typed, Call
<1>4. r \in Rules /\ Ran(r)
    BY <1>1, <1>2, <1>3 DEF IInv, RanInv
<1>5. Answer(r, low[NamedTable(r)].rows) \subseteq HitsOf(r)
  <2> SUFFICES ASSUME NEW m \in Answer(r, low[NamedTable(r)].rows) PROVE m \in HitsOf(r)
      OBVIOUS
  <2> DEFINE h == [rule |-> r, matched |-> m]
  <2>1. h \in call.hits /\ h.rule = r /\ h.matched = m
      BY <1>4 DEF Ran
  <2> QED
      BY <2>1 DEF HitsOf
<1>6. HitsOf(r) \subseteq Answer(r, high[NamedTable(r)].rows)
    BY DEF HitsOf, IInv, RanInv
<1> QED
    BY <1>4, <1>5, <1>6

(* On a live connection the answers lie between the rows that were there   *)
(* throughout and those that were there at some time.                      *)
THEOREM AnswersAreBounded == Spec => []AnswersStand
<1>1. IInv => AnswersStand
    BY ReturnedAnswers DEF AnswersStand
<1> QED
    BY <1>1, Invariance, PTL

(* On a live connection, what raises and what returns.                     *)
THEOREM ConnectionIsDecisive == Spec => []ConnectionDecides
<1>1. IInv => ConnectionDecides
    BY ReturnedAnswers DEF ConnectionDecides, Ran, IInv, EndInv, Failed
<1> QED
    BY <1>1, Invariance, PTL

(* Over a file or a list, the content decides.                             *)
THEOREM SourceIsDecisive == Spec => []SourceDecides
<1>1. ASSUME IInv, call.source # "connection", call.given # Unreadable, NEW r \in Rules
      PROVE  /\ ColumnsFor(r) \subseteq low[NamedTable(r)].cols <=>
                    /\ NamedTable(r) = DEFAULT_TABLE
                    /\ Needs[call.pipeline][r] \subseteq UNION {Keys[row] : row \in call.given}
             /\ low = high
             /\ NamedTable(r) = DEFAULT_TABLE => low[NamedTable(r)].rows = call.given
  <2>1. /\ low = OnlyEvents(Materialised(call.given)) /\ high = low
        /\ call.pipeline \in Pipelines
      BY <1>1 DEF IInv, OwnInv, Typed, Call
  <2>2. NamedTable(r) \in Names
      BY <2>1, NamedTableIsNamed
  <2>3. Itself \notin Needs[call.pipeline][r]
      BY <2>1, SourcesAssumption
  <2>4. CASE NamedTable(r) = DEFAULT_TABLE
    <3>1. low[NamedTable(r)] = Materialised(call.given)
        BY <2>1, <2>2, <2>4 DEF OnlyEvents
    <3> QED
        BY <2>1, <2>3, <2>4, <3>1 DEF Materialised, ColumnsOf, ColumnsFor
  <2>5. CASE NamedTable(r) # DEFAULT_TABLE
    <3>1. low[NamedTable(r)] = Missing
        BY <2>1, <2>2, <2>5 DEF OnlyEvents
    <3> QED
        BY <2>1, <2>5, <3>1 DEF Missing, ColumnsFor
  <2> QED
      BY <2>4, <2>5
<1>2. ASSUME IInv, call.source # "connection", call.pc = "returned"
      PROVE  /\ call.given # Unreadable
             /\ \A r \in Given : Fits(r) /\ HitsOf(r) = Answer(r, call.given)
  <2>1. call.given # Unreadable
      BY <1>2 DEF IInv, OwnInv
  <2>2. ASSUME NEW r \in Given PROVE Fits(r) /\ HitsOf(r) = Answer(r, call.given)
    <3>1. /\ r \in Rules /\ ~Refused(r)
          /\ ColumnsFor(r) \subseteq high[NamedTable(r)].cols
          /\ Answer(r, low[NamedTable(r)].rows) \subseteq HitsOf(r)
          /\ HitsOf(r) \subseteq Answer(r, high[NamedTable(r)].rows)
        BY <1>2, ReturnedAnswers DEF Ran
    <3>2. Fits(r) /\ low[NamedTable(r)].rows = call.given /\ low = high
        BY <1>1, <1>2, <2>1, <3>1 DEF Fits
    <3> QED
        BY <3>1, <3>2
  <2> QED
      BY <2>1, <2>2
<1>3. ASSUME IInv, call.source # "connection", call.pc = "raised",
             call.given # Unreadable
      PROVE  \E r \in Given : ~Fits(r)
  <2>1. PICK r \in Given : Refused(r) \/ ~(ColumnsFor(r) \subseteq low[NamedTable(r)].cols)
      BY <1>3 DEF IInv, EndInv, Failed
  <2>2. r \in Rules
      BY <1>3, GivenAreRules
  <2> QED
      BY <1>1, <1>3, <2>1, <2>2 DEF Fits
<1>4. IInv => SourceDecides
    BY <1>2, <1>3 DEF SourceDecides, Ended
<1> QED
    BY <1>4, Invariance, PTL

-----------------------------------------------------------------------------
(* What CallEnds rests on.  The steps a call has left, at most: to load,   *)
(* one for each rule that was not run yet, to return.                      *)
Left == CASE call.pc = "loading" -> Len(call.rules) + 2
          [] call.pc = "running" -> Len(call.rules) + 2 - call.at
          [] OTHER -> 0

(* A call runs as long as it has steps left, and each of its own steps     *)
(* leaves it fewer; the consumer's changes to tables and file, however     *)
(* many, neither add to them nor touch the call.  No loop of replay.py     *)
(* goes on for ever: what ends a call is that its steps are taken.         *)
THEOREM CallRunsDown ==
    Spec => /\ [](Left \in Nat /\ (Running <=> Left > 0))
            /\ [][Running => call' = call \/ Left' < Left]_vars
<1>1. TypeOK => Left \in Nat /\ (Running <=> Left > 0)
  <2> SUFFICES ASSUME TypeOK PROVE Left \in Nat /\ (Running <=> Left > 0)
      OBVIOUS
  <2>1. /\ call.rules \in Seq(Rules) /\ call.at \in Nat \ {0}
        /\ call.at <= Len(call.rules) + 1
      BY DEF TypeOK, Call
  <2>2. Len(call.rules) \in Nat
      BY <2>1
  <2> QED
      BY <2>1, <2>2 DEF Left, Running
<1>2. TypeOK /\ TypeOK' /\ [Next]_vars => [Running => call' = call \/ Left' < Left]_vars
  <2> SUFFICES ASSUME TypeOK, TypeOK', Next, Running PROVE call' = call \/ Left' < Left
      OBVIOUS
  <2>1. /\ call \in Call /\ call.rules \in Seq(Rules) /\ call.at \in Nat \ {0}
        /\ call.at <= Len(call.rules) + 1 /\ Len(call.rules) \in Nat
      BY DEF TypeOK, Call
  <2>2. Left \in Nat /\ Left > 0
      BY <1>1
  <2>3. Raise => Left' < Left
      BY <2>1, <2>2 DEF Raise, Left, Call
  <2>4. CASE LoadEvents
    <3>1. ASSUME NEW rows, Load(rows) PROVE Left' < Left
      <4>1. /\ call.pc = "loading" /\ call'.pc = "running"
            /\ call'.rules = call.rules /\ call'.at = call.at
          BY <2>1, <2>4, <3>1 DEF LoadEvents, Load, Call
      <4> QED
          BY <2>1, <4>1 DEF Left
    <3> QED
        BY <2>3, <2>4, <3>1 DEF LoadEvents
  <2>5. CASE RunRule
    <3>1. call.pc = "running"
        BY <2>5 DEF RunRule
    <3>2. \/ Raise
          \/ call'.pc = "running" /\ call'.rules = call.rules /\ call'.at = call.at + 1
        BY <2>1, <2>5 DEF RunRule, Call
    <3>3. ASSUME call'.pc = "running", call'.rules = call.rules, call'.at = call.at + 1
          PROVE  Left' < Left
        BY <2>1, <3>1, <3>3 DEF Left
    <3> QED
        BY <2>3, <3>2, <3>3
  <2>6. CASE Return
    <3>1. call'.pc = "returned"
        BY <2>1, <2>6 DEF Return, Call
    <3> QED
        BY <2>2, <3>1 DEF Left
  <2>7. ~Begin
      BY DEF Begin
  <2>8. CASE EditFile
      BY <2>8 DEF EditFile
  <2>9. ASSUME NEW n \in Names, Insert(n) \/ Delete(n) \/ Create(n) \/ Drop(n)
        PROVE  call' = call
      BY <2>9 DEF Insert, Delete, Create, Drop, Change
  <2> QED
      BY <2>4, <2>5, <2>6, <2>7, <2>8, <2>9 DEF Next
<1> QED
    BY <1>1, <1>2, TypeCorrect, PTL DEF Spec
=============================================================================
