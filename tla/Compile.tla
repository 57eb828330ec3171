------------------------------ MODULE Compile ------------------------------
(***************************************************************************)
(* compile.py: one loaded rule, one target, one query.  pySigma pipelines  *)
(* rewrite field names on the rule object itself, so every compilation     *)
(* works on its own copy of the loaded collection; pipeline files are read *)
(* through a cache that lives as long as the process, while the files (and *)
(* between calls KODON_PIPELINES) may change.                              *)
(*                                                                         *)
(* A query is what its text depends on: the pipelines the search fields    *)
(* went through, those the correlation's fields went through, the table    *)
(* and the window.                                                         *)
(***************************************************************************)
EXTENDS Integers, Sequences, FiniteSets

CONSTANTS
    Rules,          \* the loaded rules
    Conditions,     \* rule |-> conditions its detection lists, a query each
    Batches,        \* lists of rules a consumer passes to compile_all
    Timespans,      \* correlated rules |-> [count, unit] of the correlation
    Refused,        \* <<rule, target>> pairs pySigma raises on
    Dirs,           \* directories KODON_PIPELINES names in turn
    Versions,       \* contents of a pipeline file that parse
    Custom,         \* pipelines a consumer passes as `pipeline=`
    Default,        \* no pipeline passed
    None,           \* no pipeline at all
    Broken,         \* a pipeline file missing or malformed
    Unread,         \* a path not in the cache
    Raised,         \* a call that raised
    Idle,           \* no compile_all under way
    MaxAnswers      \* bound: distinct answers remembered

TARGETS == {"splunk", "kql", "duckdb"}
Correlated == DOMAIN Timespans
UnitSeconds == [s |-> 1, m |-> 60, h |-> 3600, d |-> 86400, w |-> 604800,
                M |-> 2629746, y |-> 31556952]

ASSUME CorrelatedAssumption ==
    /\ Correlated \subseteq Rules
    /\ \A r \in Correlated : /\ Timespans[r].count \in Nat \ {0}
                             /\ Timespans[r].unit \in DOMAIN UnitSeconds
ASSUME ConditionsAssumption == Conditions \in [Rules -> Nat \ {0}]
ASSUME BatchesAssumption    == Batches \subseteq (SUBSET Rules) \ {{}}
ASSUME RefusedAssumption == Refused \subseteq Rules \X TARGETS

Piped     == {"kql", "duckdb"}         \* keys of DEFAULT_PIPELINE_FILE
Paths     == Dirs \X Piped
Pipelines == Versions \cup Custom
Call      == [rule: Rules, target: TARGETS, arg: Custom \cup {Default}]

ASSUME MarkersAssumption ==
    /\ Versions \cap {Broken, Unread, None} = {} /\ Broken # Unread /\ Broken # None
    /\ Custom \cap {Broken, Default, None} = {}
    /\ (Custom \cup {Default}) \cap Paths = {}
    /\ Raised \notin [fields: Seq(Pipelines), by: Seq(Pipelines), seconds: Nat]

VARIABLES
    loaded,         \* rule |-> the state of its parsed collection
    files,          \* path |-> contents of the pipeline file
    cache,          \* path |-> what _pipeline_from_file remembers
    dir,            \* the directory KODON_PIPELINES names
    answers,        \* history: every answer given so far, with its call
    batch,          \* the compile_all under way
    returned        \* the dict of the last compile_all, and the rules it was asked

vars == <<loaded, files, cache, dir, answers, batch, returned>>

-----------------------------------------------------------------------------
(* The mutable state of a parsed collection: the pipelines that rewrote    *)
(* the rule's and the correlation's fields, and whether the rule produces  *)
(* a query of its own (one that a correlation references does not).        *)
Object == [mapped: Seq(Pipelines), grouped: Seq(Pipelines), output: BOOLEAN]

Parsed(r) == [mapped |-> <<>>, grouped |-> <<>>, output |-> r \notin Correlated]

-----------------------------------------------------------------------------
(* default_pipeline and the cache under it.  A read that raises leaves no  *)
(* entry.                                                                  *)
Path(target) == <<dir, target>>

Reads(c) == c.arg = Default /\ c.target \in Piped

Read(path) == IF cache[path] # Unread THEN cache[path] ELSE files[path]

Pipeline(c) == CASE c.arg # Default  -> c.arg
                 [] Reads(c)         -> Read(Path(c.target))
                 [] OTHER            -> None

\* Mutant: nothing is remembered.
RememberNothing(c) == UNCHANGED cache

Remember(c) ==
    IF Reads(c) /\ Pipeline(c) # Broken
    THEN cache' = [cache EXCEPT ![Path(c.target)] = Pipeline(c)]
    ELSE UNCHANGED cache

(* What pySigma does to a collection.                                      *)
Apply(applied, pipe) == IF pipe = None THEN applied ELSE Append(applied, pipe)
MapRule(obj, pipe)   == [obj EXCEPT !.mapped = Apply(@, pipe)]

\* Mutant: the correlation's fields stay as they are.
MapCorrNot(obj, pipe) == obj

MapCorr(obj, pipe)   == [obj EXCEPT !.grouped = Apply(@, pipe)]
MarkOutput(obj)      == [obj EXCEPT !.output = TRUE]

(* How many queries backend.convert gives: one for each condition of the   *)
(* rule, unless it is marked non-output, and one for the correlation.  The *)
(* loader lets a list of conditions through.                               *)
QueryCount(obj, r) == (IF obj.output THEN Conditions[r] ELSE 0)
                      + (IF r \in Correlated THEN 1 ELSE 0)

-----------------------------------------------------------------------------
(* One compilation, from the collection it works on to its answer.         *)

\* _fresh: the deep copy is what is worked on, the loaded collection is what
\* is kept.
Fresh(r) == loaded[r]

\* Mutant: no copy is made.
KeepRewritten(r, obj) == [loaded EXCEPT ![r] = obj]

Keep(r, obj) == loaded

\* A collection as the target's conversion leaves it.
Rewritten(c, pipe) ==
    LET marked == IF c.target = "kql" THEN MarkOutput(Fresh(c.rule)) ELSE Fresh(c.rule)
        mapped == MapRule(marked, pipe)
    IN  IF c.rule \in Correlated THEN MapCorr(mapped, pipe) ELSE mapped

\* Where a conversion that raises can leave it.
Abandoned(c, pipe) == {Fresh(c.rule), Rewritten(c, pipe)}

KqlUnits == {"s", "m", "h", "d"}

\* Mutant: a week is a day.
KqlSecondsPlain(span) ==
    span.count * (IF span.unit = "w" THEN UnitSeconds.d ELSE UnitSeconds[span.unit])

KqlSeconds(span) == IF span.unit = "w" THEN span.count * 7 * UnitSeconds.d
                                       ELSE span.count * UnitSeconds[span.unit]

SqlSeconds(span) == span.count * UnitSeconds[span.unit]

Seconds(target, span) == IF target = "kql" THEN KqlSeconds(span) ELSE SqlSeconds(span)

(* Splunk and DuckDB refuse anything but one query; KQL takes the first and *)
(* does not look for another.                                              *)
Raises(c, pipe) ==
    \/ <<c.rule, c.target>> \in Refused
    \/ IF c.target = "kql"
       THEN /\ c.rule \in Correlated
            /\ Timespans[c.rule].unit \notin KqlUnits \cup {"w"}
       ELSE QueryCount(Rewritten(c, pipe), c.rule) # 1

Query(c, obj) == [fields  |-> obj.mapped,
                  by      |-> obj.grouped,
                  seconds |-> IF c.rule \in Correlated
                              THEN Seconds(c.target, Timespans[c.rule]) ELSE 0]

Answer(c, pipe) == IF Raises(c, pipe) THEN Raised ELSE Query(c, Rewritten(c, pipe))

\* Where the pipeline of a call comes from.
Source(c) == IF Reads(c) THEN Path(c.target) ELSE c.arg

Record(c) == [rule |-> c.rule, target |-> c.target, source |-> Source(c),
              pipe |-> Pipeline(c), query |-> Answer(c, Pipeline(c))]

(* compile_rule past its pipeline: an answer is given, or raised, and the  *)
(* collection it worked on is dropped.                                     *)
Compile(c) ==
    /\ Pipeline(c) # Broken
    /\ Cardinality(answers \cup {Record(c)}) <= MaxAnswers
    /\ answers' = answers \cup {Record(c)}
    /\ Remember(c)
    /\ \E obj \in IF Answer(c, Pipeline(c)) = Raised
                  THEN Abandoned(c, Pipeline(c))
                  ELSE {Rewritten(c, Pipeline(c))} :
            loaded' = Keep(c.rule, obj)

-----------------------------------------------------------------------------
Init ==
    /\ loaded = [r \in Rules |-> Parsed(r)]
    /\ files \in [Paths -> Versions \cup {Broken}]
    /\ cache = [p \in Paths |-> Unread]
    /\ dir \in Dirs
    /\ answers = {}
    /\ batch = Idle
    /\ returned = [asked |-> {}, entries |-> {}]

(* compile_rule, called on its own.                                        *)
CompileRule(c) ==
    /\ batch = Idle
    /\ Compile(c)
    /\ UNCHANGED <<files, dir, batch, returned>>

(* compile_all: rule after rule, a dict at the end or an exception.  The   *)
(* rules come in any order.                                                *)
StartAll(rules, target, arg) ==
    /\ batch = Idle
    /\ batch' = [rules |-> rules, target |-> target, arg |-> arg,
                 todo |-> rules, done |-> {}]
    /\ UNCHANGED <<loaded, files, cache, dir, answers, returned>>

BatchCall(r) == [rule |-> r, target |-> batch.target, arg |-> batch.arg]

CompileNext(r) ==
    /\ batch # Idle /\ r \in batch.todo
    /\ Compile(BatchCall(r))
    /\ LET record == Record(BatchCall(r))
           done   == batch.done \cup {record}
           todo   == batch.todo \ {r}
       IN  IF record.query = Raised
           THEN batch' = Idle /\ UNCHANGED returned
           ELSE IF todo = {}
                THEN batch' = Idle /\ returned' = [asked |-> batch.rules, entries |-> done]
                ELSE batch' = [batch EXCEPT !.todo = todo, !.done = done] /\ UNCHANGED returned
    /\ UNCHANGED <<files, dir>>

\* The pipeline file cannot be read: compile_all raises with it.
NextUnreadable(r) ==
    /\ batch # Idle /\ r \in batch.todo
    /\ Pipeline(BatchCall(r)) = Broken
    /\ batch' = Idle
    /\ UNCHANGED <<loaded, files, cache, dir, answers, returned>>

(* Outside the process, at any time: a pipeline file is edited or removed. *)
EditFile(p) ==
    /\ \E contents \in Versions \cup {Broken} : files' = [files EXCEPT ![p] = contents]
    /\ UNCHANGED <<loaded, cache, dir, answers, batch, returned>>

(* Between calls: the process points KODON_PIPELINES elsewhere.            *)
SetDir(d) ==
    /\ batch = Idle
    /\ dir' = d
    /\ UNCHANGED <<loaded, files, cache, answers, batch, returned>>

Next ==
    \/ \E c \in Call : CompileRule(c)
    \/ \E rules \in Batches, target \in TARGETS, arg \in Custom \cup {Default} :
            StartAll(rules, target, arg)
    \/ \E r \in Rules : CompileNext(r) \/ NextUnreadable(r)
    \/ \E p \in Paths : EditFile(p)
    \/ \E d \in Dirs : SetDir(d)

Spec == Init /\ [][Next]_vars

-----------------------------------------------------------------------------
Queries == [fields: Seq(Pipelines), by: Seq(Pipelines), seconds: Nat]

(* Collections, cache and answers have their shapes.                       *)
TypeOK ==
    /\ loaded \in [Rules -> Object]
    /\ files \in [Paths -> Versions \cup {Broken}]
    /\ cache \in [Paths -> Versions \cup {Unread}]
    /\ dir \in Dirs
    /\ returned.entries \subseteq answers
    /\ \A a \in answers : a.query = Raised \/ a.query \in Queries

(* Compiling is a function of the call: whatever was compiled, edited or   *)
(* raised in between, the same rule, target and pipeline source gives the  *)
(* same query or the same refusal (test_compile_is_pure, for any history). *)
CallsRepeat ==
    \A a, b \in answers :
        (a.rule = b.rule /\ a.target = b.target /\ a.source = b.source) => a.query = b.query

(* All rules compiled from one pipeline file in one process went through   *)
(* one version of it, even if it was edited half way: no batch mixes       *)
(* schemas.                                                                *)
OneVersionPerFile == \A a, b \in answers : a.source = b.source => a.pipe = b.pipe

(* The fields a query filters on and the fields it groups by went through  *)
(* the same pipeline, exactly once, whichever target emitted it.           *)
MappedOnce ==
    \A a \in answers : a.query # Raised =>
        /\ a.query.fields = Apply(<<>>, a.pipe)
        /\ a.rule \in Correlated => a.query.by = a.query.fields

(* "The same fields and window the other two targets use": the KQL query   *)
(* of a correlation aggregates over as many seconds as the DuckDB one.     *)
WindowsAgree ==
    \A a, b \in answers :
        (a.rule = b.rule /\ a.query # Raised /\ b.query # Raised)
            => a.query.seconds = b.query.seconds

(* compile_all returns a query for each rule it was asked, all of one      *)
(* target and one pipeline, or nothing at all.                             *)
BatchWhole ==
    /\ {a.rule : a \in returned.entries} = returned.asked
    /\ \A a, b \in returned.entries : /\ a.rule = b.rule => a = b
                                      /\ a.target = b.target
                                      /\ a.pipe = b.pipe
                                      /\ a.query # Raised

(* Seen from outside, the process is a table: objects, caches, batches and *)
(* edits show in nothing but which entry comes next (PureCompiler).        *)
Pure == INSTANCE PureCompiler WITH told <- answers, Refusal <- Raised

ImplementsTable == Pure!Spec
=============================================================================
