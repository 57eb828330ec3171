-------------------------------- MODULE Gate --------------------------------
(***************************************************************************)
(* The replay gate: gen_samples.py writes hit.jsonl and miss.jsonl of each *)
(* rule, `kodon test` loads the rules and replays each over its two files, *)
(* and `kodon demo` does both in a directory of its own.  A generation may *)
(* stop half way, or run while a test reads.                               *)
(*                                                                         *)
(* A sample file is the sequence of its rows, the last one possibly Torn.  *)
(* A compiled query is taken as a function of rule and target, which       *)
(* Compile is about; what it matches is the rows of the rule, Threshold or *)
(* more of them for a correlation.                                         *)
(***************************************************************************)
EXTENDS Integers, Sequences, FiniteSets

CONSTANTS
    Rules,       \* versions of rules
    Id,          \* rule |-> its rule id
    Correlation, \* the rules with a correlation document
    Threshold,   \* rule |-> matching rows it takes to fire
    Matching,    \* rule |-> rows its condition matches
    Targets,     \* splunk, kql, duckdb
    Refuses,     \* rule |-> targets it cannot be compiled for
    Repos,       \* sets of rules that load_rules may find, at any time
    Seeds,       \* of gen_samples.py
    SEED,        \* the default
    Generators,  \* the rule ids of GENERATORS, sorted
    Row,         \* what the generators yield
    Rows,        \* seed |-> file |-> rows generated
    Torn,        \* part of a row
    Absent       \* no such file

Ids   == {Id[r] : r \in Rules}
File  == [rule: Ids, name: {"hit", "miss"}]
hit(r)  == [rule |-> Id[r], name |-> "hit"]
miss(r) == [rule |-> Id[r], name |-> "miss"]

Generated == {f \in File : \E i \in DOMAIN Generators : Generators[i] = f.rule}

ASSUME RulesAssumption ==
    /\ "duckdb" \in Targets
    /\ Correlation \subseteq Rules
    /\ Threshold \in [Rules -> Nat \ {0}]
    /\ Refuses \in [Rules -> SUBSET Targets]
    /\ \A repo \in Repos : repo # {} /\ repo \subseteq Rules

ASSUME GeneratorsAssumption ==
    /\ SEED \in Seeds
    /\ Generators \in Seq(Ids) /\ Generators # <<>>
    /\ \A i, j \in DOMAIN Generators : Generators[i] = Generators[j] => i = j
    /\ \A s \in Seeds : DOMAIN Rows[s] = Generated
    /\ \A s \in Seeds : \A f \in Generated : Rows[s][f] \in Seq(Row)
    /\ Torn \notin Row /\ Absent \notin Seq(Row \cup {Torn})

VARIABLES
    disk,     \* tests/samples: file |-> rows
    writer,   \* gen_samples.py: its seed and the number of its file
    command,  \* the `kodon test` or `kodon demo` that runs or ran last
    calm      \* history: no sample was written since that one loaded its rules

vars == <<disk, writer, command, calm>>

NoRule   == "none"
Last     == 2 * Len(Generators)          \* the number of the last file

Fresh == [pc |-> "idle", name |-> "test", todo |-> {}, ok |-> TRUE, code |-> -1,
          rule |-> NoRule,       \* replay_samples of this rule
          table |-> Absent,      \* its hit rows, once loaded
          scope |-> TRUE,        \* history: coverage could read its scope
          given |-> {},          \* history: the rules loaded
          seen |-> {}]           \* history: what each rule was replayed over

-----------------------------------------------------------------------------
\* generate(), as files.
Generation(seed) == [f \in File |-> IF f \in Generated THEN Rows[seed][f] ELSE Absent]

(* A fresh generation, or none.                                            *)
Init ==
    /\ \E s \in Seeds :
         \/ /\ disk = Generation(s)
            /\ writer = [pc |-> "done", seed |-> s, at |-> Last]
         \/ /\ disk = [f \in File |-> Absent]
            /\ writer = [pc |-> "stopped", seed |-> s, at |-> 1]
    /\ command = Fresh
    /\ calm = FALSE

-----------------------------------------------------------------------------
(* write_samples, as gen_samples.py calls it.                              *)

\* hit.jsonl and miss.jsonl of one rule after the other.
FileAt(i) == [rule |-> Generators[(i + 1) \div 2],
              name |-> IF i % 2 = 1 THEN "hit" ELSE "miss"]

Generating == writer.pc \in {"opening", "writing"}

Write(f, rows) == disk' = [disk EXCEPT ![f] = rows] /\ calm' = FALSE

StartWriter ==
    /\ ~Generating
    /\ \E s \in Seeds : writer' = [pc |-> "opening", seed |-> s, at |-> 1]
    /\ UNCHANGED <<disk, command, calm>>

\* Mutant: a file that is there already is kept and completed.
OpenKept(rows) == IF rows = Absent THEN <<>> ELSE rows

Open(rows) == <<>>

OpenFile ==
    /\ writer.pc = "opening"
    /\ Write(FileAt(writer.at), Open(disk[FileAt(writer.at)]))
    /\ writer' = [writer EXCEPT !.pc = "writing"]
    /\ UNCHANGED command

IsTorn(rows) == rows # <<>> /\ rows[Len(rows)] = Torn

Whole(rows) == IF IsTorn(rows) THEN SubSeq(rows, 1, Len(rows) - 1) ELSE rows

Unwritten == LET f == FileAt(writer.at)
             IN  {i \in DOMAIN Rows[writer.seed][f] : i > Len(Whole(disk[f]))}

(* A row reaches the file, or a buffer's worth that ends in mid row.       *)
WriteRow ==
    LET f == FileAt(writer.at)
        n == Len(Whole(disk[f])) + 1
    IN  /\ writer.pc = "writing" /\ Unwritten # {}
        /\ \/ Write(f, Append(Whole(disk[f]), Rows[writer.seed][f][n]))
           \/ ~IsTorn(disk[f]) /\ Write(f, Append(disk[f], Torn))
        /\ UNCHANGED <<writer, command>>

CloseFile ==
    /\ writer.pc = "writing" /\ Unwritten = {}
    /\ writer' = IF writer.at = Last THEN [writer EXCEPT !.pc = "done"]
                 ELSE [writer EXCEPT !.pc = "opening", !.at = @ + 1]
    /\ UNCHANGED <<disk, command, calm>>

(* Killed, or the disk is full: the files stay as they are.                *)
StopWriter ==
    /\ Generating
    /\ writer' = [writer EXCEPT !.pc = "stopped"]
    /\ UNCHANGED <<disk, command, calm>>

-----------------------------------------------------------------------------
(* The commands.  They write nothing that another could read (demo has a   *)
(* directory of its own), so one runs at a time here.                      *)
Ended(code) == [command EXCEPT !.pc = "exited", !.code = code, !.rule = NoRule,
                               !.table = Absent, !.todo = {}]

(* _load: contract violations exit with 2, other exceptions with 1.        *)
Load(name) ==
    /\ command.pc \in {"idle", "exited"}
    /\ \/ \E code \in {1, 2} :
            command' = [Fresh EXCEPT !.pc = "exited", !.name = name, !.code = code]
       \/ \E repo \in Repos :
            command' = [Fresh EXCEPT !.pc = IF name = "demo" THEN "compile" ELSE "replay",
                                     !.name = name, !.given = repo, !.todo = repo]
    /\ calm' = TRUE
    /\ UNCHANGED <<disk, writer>>

(* demo: samples into a fresh directory, every rule for every target, and  *)
(* a correlation for the example.                                          *)
CanShow(rules) == /\ \A r \in rules : Refuses[r] = {}
                  /\ rules \cap Correlation # {}

CompileAll ==
    /\ command.pc = "compile"
    /\ command' = IF CanShow(command.given) THEN [command EXCEPT !.pc = "replay"]
                  ELSE Ended(1)
    /\ UNCHANGED <<disk, writer, calm>>

(* The samples directory of the command.                                   *)
Samples == IF command.name = "test" THEN disk ELSE Generation(SEED)

Replaying == command.pc = "replay" /\ UNCHANGED <<disk, writer, calm>>

\* Mutant: a rule without samples is passed over.
SkipMissing(r) == [command EXCEPT !.todo = @ \ {r}]

FailMissing(r) == Ended(1)

(* replay_samples: both files must be there and the rule must compile.     *)
FindSamples(r) ==
    /\ Replaying /\ command.rule = NoRule /\ r \in command.todo
    /\ command' = IF Absent \in {Samples[hit(r)], Samples[miss(r)]} THEN FailMissing(r)
                  ELSE IF "duckdb" \in Refuses[r] THEN Ended(1)
                  ELSE [command EXCEPT !.rule = r]

\* What DuckDB can load and the query can run on: some rows, all whole.
Readable(rows) == rows # <<>> /\ rows = Whole(rows)

(* load_events of hit.jsonl.                                               *)
LoadHit ==
    /\ Replaying /\ command.rule # NoRule /\ command.table = Absent
    /\ command' = LET rows == Samples[hit(command.rule)]
                  IN  IF Readable(rows) THEN [command EXCEPT !.table = rows] ELSE Ended(1)

Fires(r, rows) ==
    Cardinality({i \in DOMAIN rows : rows[i] \in Matching[r]}) >= Threshold[r]

Passed(r, hits, misses) == Fires(r, hits) /\ ~Fires(r, misses)

\* Mutant: the last rule decides.
ConjoinLast(ok, passed) == passed

Conjoin(ok, passed) == ok /\ passed

(* load_events of miss.jsonl, both queries, and the rule's result.         *)
LoadMiss ==
    LET r      == command.rule
        hits   == command.table
        misses == Samples[miss(r)]
    IN  /\ Replaying /\ r # NoRule /\ hits # Absent
        /\ command' =
             IF Readable(misses)
             THEN [command EXCEPT
                     !.ok = Conjoin(@, Passed(r, hits, misses)),
                     !.rule = NoRule, !.table = Absent, !.todo = @ \ {r},
                     !.seen = @ \cup {[rule |-> r, hit |-> hits, miss |-> misses]}]
             ELSE Ended(1)

\* Mutant: demo's exit code does not wait for the coverage table.
ConcludedEarly(readable) == IF command.ok THEN 0 ELSE 1

Concluded(readable) == IF command.ok /\ readable THEN 0 ELSE 1

(* demo ends with the coverage table, which raises without its scope file. *)
Conclude ==
    /\ Replaying /\ command.rule = NoRule /\ command.todo = {}
    /\ \E readable \in BOOLEAN :
         /\ command.name = "test" => readable
         /\ command' = [Ended(Concluded(readable)) EXCEPT !.scope = readable]

Next ==
    \/ StartWriter \/ OpenFile \/ WriteRow \/ CloseFile \/ StopWriter
    \/ Load("test") \/ Load("demo") \/ CompileAll
    \/ \E r \in Rules : FindSamples(r)
    \/ LoadHit \/ LoadMiss \/ Conclude

Spec == Init /\ [][Next]_vars

-----------------------------------------------------------------------------
\* A beginning of the rows, possibly torn in the middle of the next one.
Beginning(rows, all) ==
    \E n \in 0..Len(all) :
        \/ rows = SubSeq(all, 1, n)
        \/ n < Len(all) /\ rows = Append(SubSeq(all, 1, n), Torn)

(* A sample file is always a beginning of what some seed generates for it, *)
(* and a command has samples loaded only while it replays a rule of its.   *)
TypeOK ==
    /\ DOMAIN disk = File
    /\ \A f \in File :
         disk[f] = Absent \/ (f \in Generated
                               /\ \E s \in Seeds : Beginning(disk[f], Rows[s][f]))
    /\ writer \in [pc: {"opening", "writing", "done", "stopped"}, seed: Seeds, at: 1..Last]
    /\ calm \in BOOLEAN
    /\ command.pc \in {"idle", "compile", "replay", "exited"}
    /\ command.name \in {"test", "demo"}
    /\ command.code \in {-1, 0, 1, 2}
    /\ command.ok \in BOOLEAN
    /\ command.todo \subseteq command.given
    /\ command.rule \in command.todo \cup {NoRule}
    /\ command.table # Absent => command.rule # NoRule /\ Readable(command.table)

(* PASS is earned: every rule that was loaded matched hit rows and no miss *)
(* rows that stood in its files at some time during the command, whatever  *)
(* was written meanwhile.                                                  *)
PassIsEarned ==
    command.code = 0 =>
        /\ command.given # {}
        /\ \A r \in command.given : \E s \in command.seen :
             s.rule = r /\ Fires(r, s.hit) /\ ~Fires(r, s.miss)

(* Verdict of a rule set over a samples directory, in one look.            *)
CleanRule(r, dir) ==
    /\ "duckdb" \notin Refuses[r]
    /\ Absent \notin {dir[hit(r)], dir[miss(r)]}
    /\ Readable(dir[hit(r)]) /\ Readable(dir[miss(r)])
    /\ Fires(r, dir[hit(r)]) /\ ~Fires(r, dir[miss(r)])

Clean(rules, dir) == \A r \in rules : CleanRule(r, dir)

Exited(name) == command.pc = "exited" /\ command.name = name /\ command.given # {}

(* With the samples left alone, `kodon test` exits with 0 if and only if   *)
(* all the rules it loaded are clean over them, in any order, and however  *)
(* the rule files change under it.                                         *)
TestIsOfTheSamples ==
    calm /\ Exited("test") => (command.code = 0 <=> Clean(command.given, disk))

(* `kodon demo` is a function of the rules it loaded and of whether the    *)
(* scope could be read: its verdict is that of a whole generation,         *)
(* whatever is in tests/samples or happens to it.                          *)
DemoIsOfTheRules ==
    Exited("demo") =>
        (command.code = 0 <=>
            /\ CanShow(command.given) /\ command.scope
            /\ Clean(command.given, Generation(SEED)))

(* A generation that ran to its end leaves exactly the rows of its seed,   *)
(* whatever stopped generations left there before.                         *)
GenerationIsWhole ==
    writer.pc = "done" => \A f \in Generated : disk[f] = Rows[writer.seed][f]

=============================================================================
