--------------------------- MODULE CompileProofs ---------------------------
(***************************************************************************)
(* What Compile promises for every rule set, every set of pipeline files   *)
(* and every history of calls, edits and failures.                         *)
(***************************************************************************)
EXTENDS Compile, TLAPS

-----------------------------------------------------------------------------
(* The strengthening.  No call leaves a trace on a loaded collection, so   *)
(* an answer depends on its rule, its target and its pipeline only; and    *)
(* the pipeline is fixed by where it came from.                            *)

Untouched == loaded = [r \in Rules |-> Parsed(r)]

PinnedBy(table, a) ==
    \/ a.source \in Paths /\ a.pipe \in Versions /\ table[a.source] = a.pipe
    \/ a.source \in Custom /\ a.pipe = a.source
    \/ a.source = Default /\ a.pipe = None

Pinned(a) == PinnedBy(cache, a)

CallOf(rule, target) == [rule |-> rule, target |-> target, arg |-> Default]

Justified(a) == /\ a.rule \in Rules
                /\ a.target \in TARGETS
                /\ Pinned(a)
                /\ a.query = Answer(CallOf(a.rule, a.target), a.pipe)

\* The answers of a compile_all so far: one for each rule done, all from one
\* source.
BatchInv ==
    batch # Idle =>
        /\ batch \in [rules: SUBSET Rules, target: TARGETS, arg: Custom \cup {Default},
                      todo: SUBSET batch.rules, done: SUBSET answers]
        /\ {a.rule : a \in batch.done} = batch.rules \ batch.todo
        /\ \A a \in batch.done : /\ a.target = batch.target
                                 /\ a.source = Source(BatchCall(a.rule))
                                 /\ a.query # Raised
        /\ \A a, b \in batch.done : a.rule = b.rule => a = b

Tables == /\ files \in [Paths -> Versions \cup {Broken}]
          /\ cache \in [Paths -> Versions \cup {Unread}]
          /\ dir \in Dirs

IInv == /\ Untouched
        /\ Tables
        /\ \A a \in answers : Justified(a)
        /\ BatchInv
        /\ returned.entries \subseteq answers
        /\ BatchWhole

-----------------------------------------------------------------------------
(* A single call.                                                          *)

LEMMA SourceIsPath ==
  ASSUME Tables, NEW c \in Call, Reads(c)
  PROVE  Path(c.target) \in Paths /\ Source(c) = Path(c.target)
BY DEF Tables, Call, Reads, Path, Paths, Source

\* What the call's pipeline is, once it can be had.
LEMMA PipelineOfCall ==
  ASSUME Tables, NEW c \in Call, Pipeline(c) # Broken
  PROVE  \/ Reads(c) /\ Pipeline(c) \in Versions
         \/ ~Reads(c) /\ c.arg \in Custom /\ Pipeline(c) = c.arg
         \/ ~Reads(c) /\ c.arg = Default /\ Pipeline(c) = None
<1>1. CASE c.arg # Default
  BY <1>1 DEF Call, Pipeline, Reads
<1>2. CASE c.arg = Default /\ Reads(c)
  <2>1. Path(c.target) \in Paths
    BY <1>2, SourceIsPath
  <2>2. Pipeline(c) = Read(Path(c.target))
    BY <1>2 DEF Pipeline
  <2>3. Read(Path(c.target)) \in Versions \cup {Broken}
    BY <2>1 DEF Tables, Read
  <2> QED
    BY <1>2, <2>2, <2>3
<1>3. CASE c.arg = Default /\ ~Reads(c)
  BY <1>3 DEF Pipeline
<1> QED
  BY <1>1, <1>2, <1>3

\* Remembering a version pins its path and disturbs no other answer.
LEMMA CachePins ==
  ASSUME Tables, NEW c \in Call, Pipeline(c) # Broken, Remember(c)
  PROVE  /\ cache' \in [Paths -> Versions \cup {Unread}]
         /\ Reads(c) => cache'[Path(c.target)] = Pipeline(c)
         /\ \A p \in Paths : cache[p] # Unread => cache'[p] = cache[p]
<1>1. CASE Reads(c)
  <2>1. Path(c.target) \in Paths /\ Pipeline(c) \in Versions
    BY <1>1, SourceIsPath, PipelineOfCall
  <2>2. cache' = [cache EXCEPT ![Path(c.target)] = Pipeline(c)]
    BY <1>1 DEF Remember
  <2>3. cache[Path(c.target)] # Unread => Pipeline(c) = cache[Path(c.target)]
    BY <1>1 DEF Pipeline, Reads, Read
  <2> QED
    BY <2>1, <2>2, <2>3 DEF Tables
<1>2. CASE ~Reads(c)
  BY <1>2 DEF Remember, Tables
<1> QED
  BY <1>1, <1>2

\* An answer looks at its call's rule and target, not at where the pipeline
\* came from.
LEMMA AnswerOfCall ==
  ASSUME NEW c \in Call, NEW pipe
  PROVE  Answer(c, pipe) = Answer(CallOf(c.rule, c.target), pipe)
BY DEF Answer, Raises, Query, Rewritten, Fresh, CallOf

LEMMA RecordFields ==
  ASSUME NEW c \in Call
  PROVE  /\ Record(c).rule = c.rule
         /\ Record(c).target = c.target
         /\ Record(c).source = Source(c)
         /\ Record(c).pipe = Pipeline(c)
         /\ Record(c).query = Answer(c, Pipeline(c))
BY DEF Record

\* Answers change only if a loaded collection does.
LEMMA AnswerStable ==
  ASSUME loaded' = loaded, NEW rule, NEW target, NEW pipe
  PROVE  Answer(CallOf(rule, target), pipe)' = Answer(CallOf(rule, target), pipe)
BY DEF Answer, Raises, Query, Rewritten, Fresh

\* The part of the invariant that a compilation touches is kept.
LEMMA CompileStep ==
  ASSUME Untouched, Tables, \A a \in answers : Justified(a),
         NEW c \in Call, Compile(c), UNCHANGED <<files, dir>>
  PROVE  /\ Untouched' /\ Tables'
         /\ answers' = answers \cup {Record(c)}
         /\ \A a \in answers' : Justified(a)'
<1>1. loaded' = loaded
  BY DEF Compile, Keep
<1>2. answers' = answers \cup {Record(c)} /\ Pipeline(c) # Broken /\ Remember(c)
  BY DEF Compile
<1>3. Tables'
  BY <1>2, CachePins DEF Tables
<1>4. ASSUME NEW rule, NEW target, NEW pipe
      PROVE  Answer(CallOf(rule, target), pipe)' = Answer(CallOf(rule, target), pipe)
  BY <1>1, AnswerStable
<1>5. ASSUME NEW a \in answers PROVE Justified(a)'
  <2>1. Justified(a)
    OBVIOUS
  <2>2. Pinned(a)'
    <3>1. CASE a.source \in Paths /\ a.pipe \in Versions /\ cache[a.source] = a.pipe
      <4>1. cache[a.source] # Unread
        BY <3>1, MarkersAssumption
      <4> QED
        BY <3>1, <4>1, <1>2, CachePins DEF Pinned, PinnedBy
    <3>2. CASE a.source \in Custom /\ a.pipe = a.source
      BY <3>2 DEF Pinned, PinnedBy
    <3>3. CASE a.source = Default /\ a.pipe = None
      BY <3>3 DEF Pinned, PinnedBy
    <3> QED
      BY <2>1, <3>1, <3>2, <3>3 DEF Justified, Pinned, PinnedBy
  <2> QED
    BY <2>1, <2>2, <1>4 DEF Justified
<1>6. ASSUME NEW a, a = Record(c) PROVE Justified(a)'
  <2>1. a.rule \in Rules /\ a.target \in TARGETS
    BY <1>6, RecordFields DEF Call
  <2>2. a.query = Answer(CallOf(a.rule, a.target), a.pipe)
    BY <1>6, RecordFields, AnswerOfCall
  <2>3. Pinned(a)'
    <3>1. CASE Reads(c) /\ Pipeline(c) \in Versions
      BY <3>1, <1>2, <1>6, CachePins, SourceIsPath, RecordFields DEF Pinned, PinnedBy
    <3>2. CASE ~Reads(c) /\ c.arg \in Custom /\ Pipeline(c) = c.arg
      BY <3>2, <1>6, RecordFields DEF Source, Pinned, PinnedBy
    <3>3. CASE ~Reads(c) /\ c.arg = Default /\ Pipeline(c) = None
      BY <3>3, <1>6, RecordFields DEF Source, Pinned, PinnedBy
    <3> QED
      BY <1>2, <3>1, <3>2, <3>3, PipelineOfCall
  <2> QED
    BY <2>1, <2>2, <2>3, <1>4 DEF Justified
<1> QED
  BY <1>1, <1>2, <1>3, <1>5, <1>6 DEF Untouched

-----------------------------------------------------------------------------
(* The invariant is inductive: one lemma per action.                       *)

LEMMA InitIInv == Init => IInv
<1> SUFFICES ASSUME Init PROVE IInv
  OBVIOUS
<1>1. Untouched /\ Tables
  BY DEF Init, Untouched, Tables
<1>2. BatchInv /\ BatchWhole
  BY DEF Init, BatchInv, BatchWhole
<1>3. answers = {} /\ returned.entries = {}
  BY DEF Init
<1> QED
  BY <1>1, <1>2, <1>3 DEF IInv

\* Actions that give no answer leave the answers justified.
LEMMA NoAnswer ==
  ASSUME IInv, UNCHANGED <<loaded, cache, answers>>
  PROVE  Untouched' /\ \A a \in answers' : Justified(a)'
<1>1. Untouched'
  BY DEF IInv, Untouched
<1>2. ASSUME NEW a \in answers PROVE Justified(a)'
  <2>1. Justified(a)
    BY DEF IInv
  <2>2. Pinned(a)'
    BY <2>1 DEF Justified, Pinned
  <2> QED
    BY <2>1, <2>2, AnswerStable DEF Justified
<1> QED
  BY <1>1, <1>2

LEMMA CompileRuleIInv ==
  ASSUME IInv, NEW c \in Call, CompileRule(c)
  PROVE  IInv'
<1>1. /\ Compile(c) /\ batch = Idle
      /\ UNCHANGED <<files, dir, batch, returned>>
  BY DEF CompileRule
<1>2. /\ Untouched' /\ Tables'
      /\ answers \subseteq answers'
      /\ \A a \in answers' : Justified(a)'
  BY <1>1, CompileStep DEF IInv
<1>3. BatchInv' /\ BatchWhole'
  BY <1>1 DEF IInv, BatchInv, BatchWhole
<1> QED
  BY <1>1, <1>2, <1>3 DEF IInv

LEMMA StartAllIInv ==
  ASSUME IInv, NEW rules \in Batches, NEW target \in TARGETS,
         NEW arg \in Custom \cup {Default}, StartAll(rules, target, arg)
  PROVE  IInv'
<1>1. Untouched' /\ \A a \in answers' : Justified(a)'
  BY NoAnswer DEF StartAll
<1>2. Tables' /\ BatchWhole' /\ returned'.entries \subseteq answers'
  BY DEF StartAll, IInv, Tables, BatchWhole
<1>3. BatchInv'
  <2>1. rules \subseteq Rules
    BY BatchesAssumption
  <2>2. batch' = [rules |-> rules, target |-> target, arg |-> arg,
                  todo |-> rules, done |-> {}]
    BY DEF StartAll
  <2> QED
    BY <2>1, <2>2 DEF BatchInv
<1> QED
  BY <1>1, <1>2, <1>3 DEF IInv

LEMMA NextUnreadableIInv ==
  ASSUME IInv, NEW r \in Rules, NextUnreadable(r)
  PROVE  IInv'
<1>1. Untouched' /\ \A a \in answers' : Justified(a)'
  BY NoAnswer DEF NextUnreadable
<1>2. Tables' /\ BatchWhole' /\ returned'.entries \subseteq answers' /\ BatchInv'
  BY DEF NextUnreadable, IInv, Tables, BatchWhole, BatchInv
<1> QED
  BY <1>1, <1>2 DEF IInv

LEMMA EditFileIInv ==
  ASSUME IInv, NEW p \in Paths, EditFile(p)
  PROVE  IInv'
<1>1. Untouched' /\ \A a \in answers' : Justified(a)'
  BY NoAnswer DEF EditFile
<1>2. Tables' /\ BatchWhole' /\ returned'.entries \subseteq answers'
  BY DEF EditFile, IInv, Tables, BatchWhole
<1>3. BatchInv'
  BY DEF EditFile, IInv, BatchInv, BatchCall, Source, Reads, Path
<1> QED
  BY <1>1, <1>2, <1>3 DEF IInv

LEMMA SetDirIInv ==
  ASSUME IInv, NEW d \in Dirs, SetDir(d)
  PROVE  IInv'
<1>1. Untouched' /\ \A a \in answers' : Justified(a)'
  BY NoAnswer DEF SetDir
<1>2. Tables' /\ BatchWhole' /\ returned'.entries \subseteq answers' /\ BatchInv'
  BY DEF SetDir, IInv, Tables, BatchWhole, BatchInv
<1> QED
  BY <1>1, <1>2 DEF IInv

\* Answers from one source went through one pipeline.
LEMMA PinnedOnce ==
  ASSUME NEW table, NEW a, NEW b, PinnedBy(table, a), PinnedBy(table, b),
         a.source = b.source
  PROVE  a.pipe = b.pipe
BY MarkersAssumption DEF PinnedBy

\* In a batch, the source does not depend on the rule.
LEMMA BatchSource ==
  ASSUME NEW r, NEW q
  PROVE  Source(BatchCall(r)) = Source(BatchCall(q))
BY DEF Source, BatchCall, Reads

LEMMA CompileNextIInv ==
  ASSUME IInv, NEW r \in Rules, CompileNext(r)
  PROVE  IInv'
<1> DEFINE c == BatchCall(r)
<1>1. /\ batch # Idle /\ r \in batch.todo
      /\ Compile(c)
      /\ UNCHANGED <<files, dir>>
  BY DEF CompileNext
<1>2. c \in Call
  BY <1>1 DEF IInv, BatchInv, BatchCall, Call
<1>3. /\ Untouched' /\ Tables'
      /\ answers' = answers \cup {Record(c)}
      /\ \A a \in answers' : Justified(a)'
  BY <1>1, <1>2, CompileStep DEF IInv
<1>4. PICK record : record = Record(c)
  OBVIOUS
<1>5. PICK done : done = batch.done \cup {record}
  OBVIOUS
<1>6. /\ record.rule = r /\ record.target = batch.target
      /\ record.source = Source(BatchCall(r))
  BY <1>2, <1>4, RecordFields DEF BatchCall
<1>7. done \subseteq answers'
  BY <1>1, <1>3, <1>4, <1>5 DEF IInv, BatchInv
<1>8. CASE record.query = Raised
  <2>1. batch' = Idle /\ UNCHANGED returned
    BY <1>4, <1>8 DEF CompileNext
  <2> QED
    BY <2>1, <1>3 DEF IInv, BatchInv, BatchWhole
<1>9. CASE record.query # Raised
  <2>1. /\ {a.rule : a \in done} = batch.rules \ (batch.todo \ {r})
        /\ \A a \in done : /\ a.target = batch.target
                           /\ a.source = Source(BatchCall(a.rule))
                           /\ a.query # Raised
        /\ \A a, b \in done : a.rule = b.rule => a = b
    <3>1. /\ batch.todo \subseteq batch.rules
          /\ {a.rule : a \in batch.done} = batch.rules \ batch.todo
          /\ \A a \in batch.done : /\ a.target = batch.target
                                   /\ a.source = Source(BatchCall(a.rule))
                                   /\ a.query # Raised
          /\ \A a, b \in batch.done : a.rule = b.rule => a = b
      BY <1>1 DEF IInv, BatchInv
    <3>2. {a.rule : a \in done} = {a.rule : a \in batch.done} \cup {r}
      BY <1>5, <1>6
    <3>3. \A a \in batch.done : a.rule # r
      BY <1>1, <3>1
    <3>4. {a.rule : a \in done} = batch.rules \ (batch.todo \ {r})
      <4>1. r \in batch.rules
        BY <1>1, <3>1
      <4>2. batch.rules \ (batch.todo \ {r}) = (batch.rules \ batch.todo) \cup {r}
        BY <4>1
      <4> QED
        BY <3>1, <3>2, <4>2
    <3>5. \A a \in done : a = record \/ a \in batch.done
      BY <1>5
    <3> QED
      BY <1>6, <1>9, <3>1, <3>3, <3>4, <3>5
  <2>2. CASE batch.todo \ {r} = {}
    <3>1. batch' = Idle /\ returned' = [asked |-> batch.rules, entries |-> done]
      BY <1>4, <1>5, <1>9, <2>2 DEF CompileNext
    <3>2. \A a, b \in done : a.pipe = b.pipe
      <4> SUFFICES ASSUME NEW a \in done, NEW b \in done PROVE a.pipe = b.pipe
        OBVIOUS
      <4>1. a.source = b.source
        BY <2>1, BatchSource
      <4>2. PinnedBy(cache', a) /\ PinnedBy(cache', b)
        BY <1>3, <1>7 DEF Justified, Pinned
      <4> QED
        BY <4>1, <4>2, PinnedOnce
    <3>3. BatchWhole'
      BY <2>1, <2>2, <3>1, <3>2 DEF BatchWhole
    <3>4. BatchInv'
      BY <3>1 DEF BatchInv
    <3> QED
      BY <1>3, <1>7, <3>1, <3>3, <3>4 DEF IInv
  <2>3. CASE batch.todo \ {r} # {}
    <3>1. /\ batch' = [batch EXCEPT !.todo = batch.todo \ {r}, !.done = done]
          /\ UNCHANGED returned
      BY <1>4, <1>5, <1>9, <2>3 DEF CompileNext
    <3>2. batch' = [rules |-> batch.rules, target |-> batch.target, arg |-> batch.arg,
                    todo |-> batch.todo \ {r}, done |-> done]
      BY <1>1, <3>1 DEF IInv, BatchInv
    <3>3. batch' \in [rules: SUBSET Rules, target: TARGETS, arg: Custom \cup {Default},
                      todo: SUBSET batch.rules, done: SUBSET answers']
      BY <1>1, <1>7, <3>2 DEF IInv, BatchInv
    <3>4. ASSUME NEW q PROVE Source(BatchCall(q))' = Source(BatchCall(q))
      BY <1>1, <3>2 DEF Source, BatchCall, Reads, Path
    <3>5. BatchInv'
      BY <2>1, <3>2, <3>3, <3>4 DEF BatchInv
    <3>6. BatchWhole' /\ returned'.entries \subseteq answers'
      BY <1>3, <3>1 DEF IInv, BatchWhole
    <3> QED
      BY <1>3, <3>5, <3>6 DEF IInv
  <2> QED
    BY <2>2, <2>3
<1> QED
  BY <1>8, <1>9

LEMMA NextIInv == IInv /\ [Next]_vars => IInv'
<1> SUFFICES ASSUME IInv, [Next]_vars PROVE IInv'
  OBVIOUS
<1>1. ASSUME NEW c \in Call, CompileRule(c) PROVE IInv'
  BY <1>1, CompileRuleIInv
<1>2. ASSUME NEW rules \in Batches, NEW target \in TARGETS,
             NEW arg \in Custom \cup {Default}, StartAll(rules, target, arg)
      PROVE  IInv'
  BY <1>2, StartAllIInv
<1>3. ASSUME NEW r \in Rules, CompileNext(r) PROVE IInv'
  BY <1>3, CompileNextIInv
<1>4. ASSUME NEW r \in Rules, NextUnreadable(r) PROVE IInv'
  BY <1>4, NextUnreadableIInv
<1>5. ASSUME NEW p \in Paths, EditFile(p) PROVE IInv'
  BY <1>5, EditFileIInv
<1>6. ASSUME NEW d \in Dirs, SetDir(d) PROVE IInv'
  BY <1>6, SetDirIInv
<1>7. CASE UNCHANGED vars
  <2>1. Untouched' /\ \A a \in answers' : Justified(a)'
    BY <1>7, NoAnswer DEF vars
  <2>2. Tables' /\ BatchWhole' /\ returned'.entries \subseteq answers'
    BY <1>7 DEF vars, IInv, Tables, BatchWhole
  <2>3. BatchInv'
    BY <1>7 DEF vars, IInv, BatchInv, BatchCall, Source, Reads, Path
  <2> QED
    BY <2>1, <2>2, <2>3 DEF IInv
<1> QED
  BY <1>1, <1>2, <1>3, <1>4, <1>5, <1>6, <1>7 DEF Next

(* No call leaves a trace on a loaded collection, and every answer is the  *)
(* one its rule, target and pipeline determine.                            *)
THEOREM Invariance == Spec => []IInv
BY InitIInv, NextIInv, PTL DEF Spec

-----------------------------------------------------------------------------
(* The promises.                                                           *)

(* Compiling is a function of rule, target and pipeline source.            *)
THEOREM CompileIsPure == Spec => []CallsRepeat
<1>1. IInv => CallsRepeat
  <2> SUFFICES ASSUME IInv, NEW a \in answers, NEW b \in answers,
                      a.rule = b.rule, a.target = b.target, a.source = b.source
               PROVE  a.query = b.query
    BY DEF CallsRepeat
  <2>1. Justified(a) /\ Justified(b)
    BY DEF IInv
  <2>2. a.pipe = b.pipe
    BY <2>1, PinnedOnce DEF Justified, Pinned
  <2> QED
    BY <2>1, <2>2 DEF Justified
<1> QED
  BY <1>1, Invariance, PTL

(* One process compiles from one version of a pipeline file.               *)
THEOREM OneVersion == Spec => []OneVersionPerFile
<1>1. IInv => OneVersionPerFile
  BY PinnedOnce DEF IInv, OneVersionPerFile, Justified, Pinned
<1> QED
  BY <1>1, Invariance, PTL

(* A finished compile_all is complete and made of one pipeline.            *)
THEOREM BatchesWhole == Spec => []BatchWhole
<1>1. IInv => BatchWhole
  BY DEF IInv
<1> QED
  BY <1>1, Invariance, PTL

\* The query of an answer, spelled out.
LEMMA JustifiedQuery ==
  ASSUME Untouched, NEW a, Justified(a), a.query # Raised,
         NEW obj, obj = Rewritten(CallOf(a.rule, a.target), a.pipe)
  PROVE  /\ a.query.fields = obj.mapped
         /\ a.query.by = obj.grouped
         /\ a.query.seconds = IF a.rule \in Correlated
                              THEN Seconds(a.target, Timespans[a.rule]) ELSE 0
         /\ (a.target = "kql" /\ a.rule \in Correlated)
              => Timespans[a.rule].unit \in KqlUnits \cup {"w"}
<1> DEFINE c == CallOf(a.rule, a.target)
<1>1. c.rule = a.rule /\ c.target = a.target
  BY DEF CallOf
<1>2. a.query = Answer(c, a.pipe)
  BY DEF Justified
<1> HIDE DEF c
<1>3. ~Raises(c, a.pipe) /\ a.query = Query(c, Rewritten(c, a.pipe))
  BY <1>2 DEF Answer
<1>4. a.query = Query(c, obj)
  BY <1>3 DEF c
<1> QED
  BY <1>1, <1>3, <1>4 DEF Query, Raises

\* What mapping does to a collection as it was loaded.
LEMMA RewrittenFields ==
  ASSUME Untouched, NEW a, Justified(a),
         NEW obj, obj = Rewritten(CallOf(a.rule, a.target), a.pipe)
  PROVE  /\ obj.mapped = Apply(<<>>, a.pipe)
         /\ a.rule \in Correlated => obj.grouped = Apply(<<>>, a.pipe)
<1> DEFINE fresh == [mapped |-> <<>>, grouped |-> <<>>, output |-> a.rule \notin Correlated]
           marked == IF a.target = "kql" THEN MarkOutput(fresh) ELSE fresh
           mapped == MapRule(marked, a.pipe)
<1>1. Fresh(a.rule) = fresh
  BY DEF Untouched, Justified, Fresh, Parsed
<1>2. obj = IF a.rule \in Correlated THEN MapCorr(mapped, a.pipe) ELSE mapped
  BY <1>1 DEF Rewritten, CallOf
<1>3. /\ DOMAIN marked = {"mapped", "grouped", "output"}
      /\ marked.mapped = <<>> /\ marked.grouped = <<>>
  BY DEF MarkOutput
<1> HIDE DEF marked
<1>4. /\ DOMAIN mapped = {"mapped", "grouped", "output"}
      /\ mapped.mapped = Apply(<<>>, a.pipe) /\ mapped.grouped = <<>>
  BY <1>3 DEF MapRule
<1> HIDE DEF mapped
<1> QED
  BY <1>2, <1>4 DEF MapCorr

\* A rule without a correlation has nothing to group by.
LEMMA UncorrelatedGroups ==
  ASSUME Untouched, NEW a, Justified(a), a.rule \notin Correlated
  PROVE  Rewritten(CallOf(a.rule, a.target), a.pipe).grouped = <<>>
<1> DEFINE fresh == [mapped |-> <<>>, grouped |-> <<>>, output |-> a.rule \notin Correlated]
           marked == IF a.target = "kql" THEN MarkOutput(fresh) ELSE fresh
<1>1. Fresh(a.rule) = fresh
  BY DEF Untouched, Justified, Fresh, Parsed
<1>2. Rewritten(CallOf(a.rule, a.target), a.pipe) = MapRule(marked, a.pipe)
  BY <1>1 DEF Rewritten, CallOf
<1>3. DOMAIN marked = {"mapped", "grouped", "output"} /\ marked.grouped = <<>>
  BY DEF MarkOutput
<1> HIDE DEF marked
<1> QED
  BY <1>2, <1>3 DEF MapRule

\* A query is of its type.
LEMMA QueryType ==
  ASSUME Untouched, NEW a, Justified(a), a.query # Raised
  PROVE  a.query \in Queries
<1> DEFINE c   == CallOf(a.rule, a.target)
           obj == Rewritten(c, a.pipe)
<1>1. a.query = Query(c, obj)
  BY DEF Justified, Answer
<1>2. obj.mapped = Apply(<<>>, a.pipe)
  BY RewrittenFields
<1>3. obj.grouped = <<>> \/ obj.grouped = Apply(<<>>, a.pipe)
  BY RewrittenFields, UncorrelatedGroups
<1>4. a.pipe \in Pipelines \cup {None}
  BY DEF Justified, Pinned, PinnedBy, Pipelines
<1>5. Apply(<<>>, a.pipe) \in Seq(Pipelines)
  BY <1>4 DEF Apply
<1>6. a.rule \in Correlated => Seconds(a.target, Timespans[a.rule]) \in Nat
  <2> SUFFICES ASSUME a.rule \in Correlated
               PROVE  Seconds(a.target, Timespans[a.rule]) \in Nat
    OBVIOUS
  <2> DEFINE span == Timespans[a.rule]
  <2>1. span.count \in Nat /\ span.unit \in DOMAIN UnitSeconds
    BY CorrelatedAssumption
  <2>2. UnitSeconds[span.unit] \in Nat /\ UnitSeconds.d \in Nat
    BY <2>1 DEF UnitSeconds
  <2> HIDE DEF span
  <2>3. KqlSeconds(span) \in Nat /\ SqlSeconds(span) \in Nat
    BY <2>1, <2>2 DEF KqlSeconds, SqlSeconds
  <2> QED
    BY <2>3 DEF span, Seconds
<1>7. c.rule = a.rule /\ c.target = a.target
  BY DEF CallOf
<1> HIDE DEF c, obj
<1>8. obj.mapped \in Seq(Pipelines) /\ obj.grouped \in Seq(Pipelines)
  <2>1. <<>> \in Seq(Pipelines)
    OBVIOUS
  <2> QED
    BY <2>1, <1>2, <1>3, <1>5
<1> DEFINE seconds == IF c.rule \in Correlated
                      THEN Seconds(c.target, Timespans[c.rule]) ELSE 0
<1>9. seconds \in Nat
  BY <1>6, <1>7
<1>10. a.query = [fields |-> obj.mapped, by |-> obj.grouped, seconds |-> seconds]
  BY <1>1 DEF Query
<1> HIDE DEF seconds
<1> QED
  BY <1>8, <1>9, <1>10 DEF Queries

(* Collections, cache and answers have their shapes.                       *)
THEOREM TypeCorrect == Spec => []TypeOK
<1>1. IInv => TypeOK
  <2> SUFFICES ASSUME IInv PROVE TypeOK
    OBVIOUS
  <2>1. loaded \in [Rules -> Object]
    BY DEF IInv, Untouched, Parsed, Object
  <2>2. \A a \in answers : a.query = Raised \/ a.query \in Queries
    BY QueryType DEF IInv
  <2> QED
    BY <2>1, <2>2 DEF IInv, Tables, TypeOK
<1> QED
  BY <1>1, Invariance, PTL

(* Search and group fields went through the same pipeline, once.           *)
THEOREM FieldsMappedOnce == Spec => []MappedOnce
<1>1. IInv => MappedOnce
  <2> SUFFICES ASSUME IInv, NEW a \in answers, a.query # Raised
               PROVE  /\ a.query.fields = Apply(<<>>, a.pipe)
                      /\ a.rule \in Correlated => a.query.by = a.query.fields
    BY DEF MappedOnce
  <2>1. Untouched /\ Justified(a)
    BY DEF IInv
  <2> QED
    BY <2>1, JustifiedQuery, RewrittenFields
<1> QED
  BY <1>1, Invariance, PTL

\* The two spellings of a timespan name as many seconds.
LEMMA SameSeconds ==
  ASSUME NEW n \in Nat, NEW u \in KqlUnits \cup {"w"}
  PROVE  KqlSeconds([count |-> n, unit |-> u]) = SqlSeconds([count |-> n, unit |-> u])
BY DEF KqlSeconds, SqlSeconds, UnitSeconds, KqlUnits

(* A correlation aggregates over the same window in KQL and in DuckDB SQL. *)
THEOREM SameWindow == Spec => []WindowsAgree
<1>1. IInv => WindowsAgree
  <2> SUFFICES ASSUME IInv, NEW a \in answers, NEW b \in answers, a.rule = b.rule,
                      a.query # Raised, b.query # Raised
               PROVE  a.query.seconds = b.query.seconds
    BY DEF WindowsAgree
  <2>1. Untouched /\ Justified(a) /\ Justified(b)
    BY DEF IInv
  <2>2. CASE a.rule \notin Correlated
    BY <2>1, <2>2, JustifiedQuery
  <2>3. CASE a.rule \in Correlated
    <3> DEFINE span == Timespans[a.rule]
    <3>1. /\ a.query.seconds = Seconds(a.target, span)
          /\ b.query.seconds = Seconds(b.target, span)
      BY <2>1, <2>3, JustifiedQuery
    <3>2. \A x \in {a, b} : x.target = "kql" => span.unit \in KqlUnits \cup {"w"}
      BY <2>1, <2>3, JustifiedQuery
    <3>3. span.unit \in KqlUnits \cup {"w"} => KqlSeconds(span) = SqlSeconds(span)
      <4>1. span.count \in Nat
        BY <2>3, CorrelatedAssumption
      <4> QED
        BY <4>1, SameSeconds DEF KqlSeconds, SqlSeconds
    <3> QED
      BY <3>1, <3>2, <3>3 DEF Seconds
  <2> QED
    BY <2>2, <2>3
<1> QED
  BY <1>1, Invariance, PTL

-----------------------------------------------------------------------------
(* The refinement.                                                         *)

\* Two justified answers are entries of one table.
LEMMA AnswersAgree ==
  ASSUME IInv, NEW a \in answers, NEW b \in answers
  PROVE  Pure!Agree(a, b)
<1>1. Justified(a) /\ Justified(b)
  BY DEF IInv
<1> QED
  BY <1>1, PinnedOnce DEF Pure!Agree, Justified, Pinned

\* A compilation adds one entry.
LEMMA CompileLearns ==
  ASSUME IInv, IInv', NEW a, answers' = answers \cup {a}
  PROVE  Pure!Learn
<1>1. a \in answers'
  OBVIOUS
<1>2. ASSUME NEW b \in answers PROVE Pure!Agree(a, b)
  <2>1. Justified(a)' /\ Justified(b)'
    BY DEF IInv
  <2> QED
    BY <2>1, PinnedOnce DEF Pure!Agree, Justified, Pinned
<1> QED
  BY <1>1, <1>2 DEF Pure!Learn

LEMMA StepRefines ==
  ASSUME IInv, IInv', [Next]_vars
  PROVE  [Pure!Next]_<<answers, returned>>
<1>1. ASSUME NEW c \in Call, CompileRule(c) PROVE Pure!Next
  BY <1>1, CompileLearns DEF CompileRule, Compile, Pure!Next, Pure!Tell
<1>2. ASSUME NEW r \in Rules, CompileNext(r) PROVE Pure!Next
  <2>1. Pure!Learn
    BY <1>2, CompileLearns DEF CompileNext, Compile
  <2>2. CASE UNCHANGED returned
    BY <2>1, <2>2 DEF Pure!Next, Pure!Tell
  <2>3. CASE returned' # returned
    <3>2. returned'.entries \subseteq answers'
      BY DEF IInv
    <3>3. Pure!Dictionary(returned')
      BY DEF IInv, BatchWhole, Pure!Dictionary
    <3> QED
      BY <2>1, <3>2, <3>3 DEF Pure!Next, Pure!Return
  <2> QED
    BY <2>2, <2>3
<1>3. ASSUME NEW rules \in Batches, NEW target \in TARGETS,
             NEW arg \in Custom \cup {Default}, StartAll(rules, target, arg)
      PROVE  UNCHANGED <<answers, returned>>
  BY <1>3 DEF StartAll
<1>4. ASSUME NEW r \in Rules, NextUnreadable(r) PROVE UNCHANGED <<answers, returned>>
  BY <1>4 DEF NextUnreadable
<1>5. ASSUME NEW p \in Paths, EditFile(p) PROVE UNCHANGED <<answers, returned>>
  BY <1>5 DEF EditFile
<1>6. ASSUME NEW d \in Dirs, SetDir(d) PROVE UNCHANGED <<answers, returned>>
  BY <1>6 DEF SetDir
<1>7. CASE UNCHANGED vars
  BY <1>7 DEF vars
<1> QED
  BY <1>1, <1>2, <1>3, <1>4, <1>5, <1>6, <1>7 DEF Next

(* Seen from outside, the compiler is the table of PureCompiler, for every *)
(* rule set and every history of calls, edits and failures.                *)
THEOREM CompileIsATable == Spec => ImplementsTable
<1>1. Init => Pure!Init
  BY DEF Init, Pure!Init
<1>2. IInv /\ IInv' /\ [Next]_vars => [Pure!Next]_<<answers, returned>>
  BY StepRefines
<1> QED
  BY <1>1, <1>2, Invariance, PTL DEF Spec, ImplementsTable, Pure!Spec
=============================================================================
