# A verification of kodon in TLA+

kodon turns Sigma rule files into queries: a loader enforces a metadata
contract, a compiler emits Splunk, KQL and DuckDB queries through pySigma, a
replay runs the DuckDB query over telemetry, and a coverage report relates the
rules to a declared ATT&CK scope. Beside the package stands a data-hygiene
scanner that gates commits and CI. This directory models the parts whose
behaviour can go wrong in ways a unit test would hardly reach, checks the
models with TLC and proves their main properties with TLAPS.

## Inventory

| component | state | operations | hard to test | correct when |
|---|---|---|---|---|
| loader (`loader.py`) | rule files on disk; list of loaded rules | `load_rules`: list, read each, check duplicates; `load_rule`: the contract | files edited between listing and reading; two files of one stem; one bad file among many; conversions such as `str(None)`; exceptions of other libraries | a load is whole or fails; ids are unique; what is accepted meets the contract and gives one query, lists of conditions aside |
| contracts (`contracts.py`) | none (pydantic models) | validation of dates; `gaps`, `covered` | exceptions that are not contract errors | the loader's refusals are contract errors; gaps and covered partition the scope |
| compile (`compile.py`) | the loaded rule objects (pySigma rewrites them in place); the `@cache` of pipeline files; `KODON_PIPELINES` | `compile_rule`, `compile_all` | history: an earlier call, or one that raised, leaving a trace on the rule; a pipeline file edited in mid batch; per-target branches for units and group fields | a query depends on rule, target and pipeline only; targets agree on fields and window |
| DuckDB backend (`duckdb_backend.py`) | none; its SQL runs on the table | plain search; correlation query | bucket boundaries, NULL, grouping, late rows | hits are real bursts; dense bursts are not lost |
| Kusto backend (`kusto_backend.py`) | none | quoting of field names | text only | - |
| replay (`replay.py`) | DuckDB connection, temporary files | `load_events`, `run_sql`, `replay`, `replay_samples` | growing tables, failures in the middle, pipelines that rename the table | hits belong to their rule; a verdict needs both samples |
| coverage (`coverage.py`) | none | `coverage_report`, `render_matrix` | duplicates, techniques under several tactics | gaps and covered partition the scope |
| samples (`synth.py`, `gen_samples.py`) | `hit.jsonl`, `miss.jsonl` per rule | `generate`, `write_samples` | a stop between two files, rules that are renamed | committed samples are one generation |
| command line (`cli.py`) | none | `validate`, `compile`, `test`, `coverage`, `demo` | verdict over all rules, exit codes of failures | PASS only if every rule passes |
| scanner (`ip_scan.sh`) | result directory that outlives a run; failure flag; terms | listing, one `scan` per class, verdict | stale results, precedence of BROKEN, FAIL and REFUSED, empty lists | PASS only if everything was scanned and nothing was found |
| terms and hook (`setup-private-terms.sh`) | the private file, the hook | fetch, place, check, install | order of placing and checking; commands that fail one by one; the directory it is run from; the environment of the hook; index against working tree | what it says it loaded is never staged; what it says it installed is armed; what the hook lets through is clean |
| workflows (`.github/workflows`) | jobs | CI, publish | which job waits for which | - |

The parts interact by plain calls. The command line calls the loader, the
compiler, replay and coverage in turn; replay calls the compiler per rule; the
compiler takes the loader's objects, which is where shared mutable state enters.
Nothing runs concurrently inside the process. What does happen beside it: the
consumer that owns the DuckDB connection inserts rows, drops and creates tables
between the queries of one replay, files are edited while they are listed, read
or cached, calls raise half way, generations and scripts are killed. Beside the
package there are processes that share files: the scanner, the setup script, the
editor and git. Those interleavings are what the modules are about. The program
has no timeouts, no messages and no background work.

## Modules

| module | models | composes | checked by | proved in |
|---|---|---|---|---|
| `Correlation` | the correlation query, `replay` of one rule on a live connection | | `MCCorrelation` | `CorrelationProofs` |
| `Compile` | `compile_rule`, `compile_all`, the pipeline cache | implements `PureCompiler` | `MCCompile` | `CompileProofs` |
| `PureCompiler` | what a consumer may rely on: a table | | with `Compile` | with `Compile` |
| `Loader` | `load_rules`, `load_rule`, the contracts | | `MCLoader` | `LoaderProofs` |
| `Replay` | `replay` and `load_events` over several rules and three kinds of source | what `Compile` and `Correlation` show of one query | `MCReplay` | `ReplayProofs` |
| `Gate` | `gen_samples.py`, `replay_samples`, `kodon test`, `kodon demo` | the same, and `Coverage` as readable or not | `MCGate` | `GateProofs` |
| `Coverage` | `load_scope`, `coverage_report`, `render_matrix`, `kodon coverage` | | `MCCoverage` | `CoverageProofs` |
| `IpScan` | `ip_scan.sh`, any number of copies | implements `ScanPromise` | `MCIpScan` | `IpScanProofs` |
| `ScanPromise` | what the exit code of a scan tells | | with `IpScan` | with `IpScan` |
| `CommitGate` | `setup-private-terms.sh`, the hook, `git commit` | takes the steps of `ScanPromise` | `MCCommitGate` | `CommitGateProofs` |

Operators whose name says so ("Mutant:" in the comment above them) are
deliberately wrong variants of the definition that follows: each property is
known to fail when its definition is replaced by one of them.

Modules are composed in two ways. `CommitGate` and `IpScan` share an abstract
module: `CommitGate` instantiates `ScanPromise` and takes its steps for the scan of
the hook, and `IpScan` is proved to implement it (`PromiseKept`), so that what the
one relies on is what the other one keeps. The others take over the property that
another one shows, named in the header, as the definition of a step: `Replay` and
`Gate` take a compiled query as a function of rule, target and pipeline
(`Compile.CallsRepeat`).

### Correlation

`events` is the table of the connection, a bag of rows; `hits` is what the last
`replay` returned. A row has a timestamp, its group (the group-by fields taken
together), the value of the counted field (or NULL), and whether the rule's own
condition matches it. `Query` follows the SQL from inside out: search, bucket
and group (`Key`), the cells, the aggregate, `HAVING`. `Insert` is the consumer
(external to kodon, at any time, in any order), `Replay` is `replay` calling
`run_sql`. The module keeps a row's timestamp an integer and `time_bucket` a
floor on a grid of width `Timespan` anchored at `Origin`; all rows have a
timestamp.

Properties:
- `HitsAreBursts`: every hit is backed by that many matching events of one group
  inside the window it names (with different non-NULL values for `value_count`).
- `ReportedHitsStand`: for `GT` and `GTE` rules, later or late rows never retract
  a hit. (They do for the other operators, which is what those mean.)
- `DenseBurstsReported`: the documentation says that fixed buckets miss a burst
  that straddles a boundary. This bounds what can be missed: a burst of
  `2 * threshold - 1` events within one timespan is reported by one of the two
  buckets it touches, wherever the grid lies. As `Origin` is arbitrary, this
  speaks of `bin` and `bin _time` as well.

Runs: `correlation_event` (timespan 3, timestamps 0..4, two groups, `GTE 3`, up
to five rows: exactly a dense burst, and every way to split one) and
`correlation_value` (timespan 2, three values and NULL, `GT 1`, up to four
rows). `Origin = 1` puts a boundary inside the timestamps and some timestamps
before the origin. Groups, or values, are symmetric: the query only compares
them.

Proofs: the inductive invariant `IInv` adds to the types that the table is
finite and that each hit is `Backed` by a countable part of a cell *that is
still there*: hits are old, the table has grown since. The counting lemmas
(`AggregateAtLeast`, `AggregateWitness`) relate `COUNT(DISTINCT ...)` to sets of
events by an injection in each direction; `WindowTouchesTwoBuckets` is the
arithmetic of the grid. `DenseBurstsFound` splits a burst into the parts in its
two buckets, one of which has at least half; `DenseBoundIsTight` is the converse for
event counts: `2 * threshold - 2` events at two successive instants, half on each
side of a boundary, are lost, however long the timespan.

### Compile

pySigma is external; what matters of it is that applying a pipeline appends to
what has rewritten the object's fields, that a rule emits a query for each of its
conditions unless a correlation silenced it, and that it may raise. Splunk and
DuckDB refuse a rule with several queries (`compile.py:106`); for KQL `_kql` takes
the first and drops the others without a word (line 73), so that there a rule with
a list of conditions searches for the first alone (`Raises`, `QueryCount`). A loaded collection is therefore
a record `[mapped, grouped, output]`, a query the record of what its text
depends on. `Fresh` and `Keep` are the deep copy: the model works on
`loaded[r]`, and what becomes of the copy does not reach `loaded`. `cache` is
the `@cache` of `_pipeline_from_file`, `files` the files, edited or broken at
any time, `dir` what `KODON_PIPELINES` names. `CompileRule` is a call of its own;
`StartAll`, `CompileNext` and `NextUnreadable` are `compile_all` of a list of rules
(`Batches`), rule by rule, so that files can change in between. `answers` is a history of every answer with
its call, `returned` the last dictionary of `compile_all` and the rules it was asked. A call that cannot
read its pipeline file raises and changes nothing, so it is no step. The target
check of line 99 is the type of a call.

Properties: `CallsRepeat` (a call's outcome is a function of rule, target and
pipeline source, whatever happened before), `MappedOnce`, `WindowsAgree`, and the
refinement `ImplementsTable`. `PureCompiler` is the abstract specification: a
table of what was told, to which a step adds one entry that contradicts none, and
dictionaries that could have been looked up at one moment. Its `told` is the
history `answers`, its refusal `Raised`; cache, objects, batches and edits are
stuttering. The refinement implies that one process uses one version of each
pipeline file (`OneVersionPerFile`), and that `compile_all` returns a query for
each rule it was asked, of one target and one pipeline, or raises (`BatchWhole`).

Run `compile`: a rule with two conditions, a weekly correlation of such a rule
(KQL's own branch) and a monthly one (KQL's `KeyError`) that pySigma refuses on
Splunk, a consumer's pipeline, two directories and two versions of each file, two
lists for `compile_all`, and up to three different answers: enough for a batch and
one answer before it, or for two answers around an edit and one from another
source. Of each list some targets give a dictionary and others raise half way. The files of the second directory are whole and are not edited
(`OtherDirSteady`): a switch back and forth with edits of the first directory in
between is what the cache is tested by. `MaxAnswers` bounds the history only;
repeated answers are free.

Proofs: `IInv` says that `loaded` is as parsed (`Untouched`), that each answer is
what its rule, target and pipeline determine and that its pipeline is still
`Pinned` by the cache (`Justified`), and the same of the unfinished batch. The
refinement (`CompileIsATable`) is from the same invariant: `CompileRule` and
`CompileNext` are `Tell`, the last call of a batch is `Return`, all else is a
stutter. The assumption `MarkersAssumption` only keeps the markers apart.

Splunk's correlation window is written by pySigma from the same timespan and is
taken to agree with SQL's seconds; `WindowsAgree` speaks about KQL, whose
text kodon writes itself.

### Loader

A file's content is a record of the facts the contract looks at. `ListFiles` is
`rule_files`, `ReadFile` is `load_rule` on one listed path, `Finish` the
duplicate check; `Edit` is anybody writing the directory meanwhile. uuid5 is
taken as injective: an id names the stem it is derived from. `load_rule` keeps the
order of the checks as far as it decides between a contract error and another
exception. `steady` is a history of the paths nobody touched.

Properties: `SigmaIdsDistinct`, `LoadedCoversSteady`, `OnlyListsSplit` (what the
loader accepts, pySigma turns into exactly one query, except a rule without
correlation whose `detection.condition` is a list: `load_rule` never looks at it,
Splunk and DuckDB then raise the `RuntimeError` of `compile.py:106` and KQL keeps
the first query), and `RefusalHasCause` (a load that fails while
nothing is edited fails for a reason found in the directory, and of the kind of
exception that reading that file alone raises). One query is not yet a
compilation: a monthly correlation is accepted and raises for KQL, see `Compile`.
Run `load`: three paths in two directories, two of them with one stem, every
content valid, one slip away from valid, or valid with two conditions, one edit at
any point.

Proofs: an accepted rule carries the id of its stem, while files are read each
steady one is loaded as it is or still to be read, and what was refused was
refused for a file that is still as it was or is no longer steady.

Places where the code does less than one might expect, each of one line and
without a run of its own:
- A `do_not_alert_when` without a value is YAML's null, `str(None)` is the text
  `None`, and the rule loads (`loader.py:154`), although the README calls the field
  mandatory (`src/README.md:143`). Such a file is among the contents of the run.
- The written form of the id is checked on the first document of the file and its
  value on the rule (`loader.py:134`): with the correlation first, a rule id in
  hyphens is accepted.
- A review dated before the rule was added, null `data_sources`, and others are
  refused by exceptions that are not `RuleContractError` (`loader.py:178`, `181`);
  `load_rule` has them as "other", and the command line prints a traceback.
- A software tag such as `attack.s0002` counts as a tactic (`loader.py:92`).
- `data_sources` given as a text is iterated character by character
  (`loader.py:178`).

### Gate

What a green `kodon test` means. `disk` is `tests/samples`: each file is the
sequence of its rows, or absent, and its last row may be `Torn`. `writer` is
`gen_samples.py`: the files are written one after the other in the order of
`write_samples`, each truncated when opened (`OpenFile`) and then filled row by
row (`WriteRow`; a buffer may end in mid row), and it may be killed at any point
and started again with another seed. `command` is the `kodon test` or `kodon
demo` that runs or ran last, with its local variables: `Load` is `_load` (an
exit of 1 or 2 when the rules cannot be loaded, which `Loader` is about),
`FindSamples`, `LoadHit` and `LoadMiss` are `replay_samples`, one step for each
look at the disk, `Conclude` is `_replay_table` and the exit code. Rules are
replayed in any order, a superset of the sorted order of the code. The commands
write nothing that another command reads (`demo` has a temporary directory of
its own), so one runs at a time. Which rows a rule matches is a constant: the
query is a function of the rule, which `CompileIsPure` justifies, and the
counting of `Correlation` is reduced to a threshold of matching rows. DuckDB
refuses an empty file and a torn last row, and the command then exits with 1.

Properties:
- `PassIsEarned`: an exit code of 0 has, for every rule that was loaded, a pair of
  samples that stood on disk during the command and that the rule tells apart.
- `TestIsOfTheSamples`: if no sample was written meanwhile, the verdict is exactly
  that of the definition `Clean`, which looks at all rules and files at once.
- `DemoIsOfTheRules`: the verdict of `demo` depends on the rules and on whether
  the coverage scope could be read, which it asks last (`cli.py:108`), alone.
- `GenerationIsWhole`: a finished generation left exactly its own rows, whatever
  an earlier one that was killed had left.

A generation that stops half way can leave a mixture of two seeds on disk which
`kodon test` passes; nothing in the code claims otherwise, and `calm` states
precisely when its verdict can be relied on.

Run `gate`: a rule on single events, a correlation that needs two, and versions
of them that are too loose, too strict, not compilable for one target, and a rule
without generator, in six repositories; two seeds whose rows differ in number.
Two rules are enough for one that passes to follow or precede one that fails.

Proofs: `Evidence` (each rule is still to be replayed, or was seen to pass, or
`ok` is already false) and `Agreement` (as long as the samples stood still, what
was seen is what is there) are inductive together. `DiskInv` says of the files
that they are beginnings of a generation, that those behind the writer are whole,
and that the one under its pen has no row it should not have; `FileAt` runs
through the generated files once each (`FilesInOrder`). `GenerationIsWhole` and
`TypeOK` follow from it.

### IpScan

`files`, `lists` and `errors` are what lies in each result directory, which
outlives a run; `Out` gives every copy of the script its directory, and copies may
be given the same one (`scan-results/` is the default of all of them);
`tree` is the working tree, a file's content being the set of marks a grep could
find in it; `private` is the file of private terms. Each scanner has its own
variables in `run`, along with histories that the script does not keep: which
files nobody edited since the listing (`steady`), what it listed (`listed`) and
found (`found`), whether one of its greps failed (`unread`), whether another copy
was at work in its directory while it ran (`shared`). `Begin` truncates both result files (two
commands of the script in one step), `ListFiles` is the pipeline that writes
`files.txt`, `ScanClass` and `ScanPrivate` one call of `scan` each, `SkipPrivate`
the branch without terms, `Verdict` the end. `Edit` and `SetTerms` happen at any
point between, and so does `Interrupt`. One class is one step: grep opens each
file once per class, and an edit between two files of one class has the outcome of
an edit before or after it, as edits of different files commute.

`Listed` keeps a detail that matters: `git ls-files` names deleted files, `file`
says of them that they cannot be opened, and the filter is applied to the whole
line, so a deleted file stays in the list if its path matches the filter. Its
grep then fails and the run is BROKEN. `PRIV_TERMS` keeps another: a private file
of comments only still adds a bar to the terms of the variable, which makes an
empty alternative that matches every line (`ip_scan.sh:138`). The scan then
fails on clean files, the safe side.

Properties, of the runs that had their directory to themselves (`Alone`): other
copies may run beside them in directories of their own, and in theirs before and
after. `PassIsClean`, `BrokenWins`, `FailIsFound`, `ShownIsFound` and
`VerdictOfTheTree`, which compares the exit code with a definition that looks at
tree and terms only: whatever an interrupted or earlier run left in the directory
has no influence. It has some on what is printed: a scan without terms lists
`private_terms.txt` beside its own hits when an earlier run left one
(`ip_scan.sh:172`), which is the exception `ShownIsFound` makes.

`ScanPromise` is the scan as those see it who only wait for the exit code, a commit
for one. It is in three stages (listed, loaded, and passed or refused) and decides
in a single step: `Pass` wants every listed file that nobody edited to be there and
free of public marks and loaded terms at that moment, `Refuse` wants one that is not,
or an edited one. A term that is no expression, and the empty one, are `Unfit`: no
scan passes with them. `ScansAtOnce` says that the script implements it, under
the mapping `Scans`: a run that others joined, or that ended without a verdict,
shows as no scan; the steps over the single classes are stuttering. A dozen greps
at a dozen moments, over files that change between them, thus amount to one look.

Run `scan`: one scanner, two files, one of them named as text, four classes (HIGH,
private, MED, LOW in the order of the script), contents of nothing, of a HIGH and a
MED mark, of a term and of a LOW mark, terms that
are missing, good, or no regular expression. One scanner is enough as a second one
with a directory of its own touches nothing the first one reads, which the proofs
show for any number (`StepAside`). Two files let one be deleted or
edited while the other is scanned; classes are treated alike except for their
severity and the private one. Run `scan_shared` expects a violation: a second
scanner truncates `files.txt` under the first one, which then scans nothing and
passes although a comment says that a scan of nothing must not.

Proofs: the invariant is about each run that is alone. `Sound` says of one in
progress that every class behind it was caught in the files left alone, that a
missing file has been recorded, that what lies ahead is untouched, and that the
directory holds this run's results. The last part is what a second scanner in the
directory breaks; `Apart` says that there is none, and `StepAside` and `AsideKeeps`
that the steps of all others leave alone what a run knows. `TreeInv` adds the other
direction while no listed file has been edited: FAIL and errors come of what is in
the listed files and in the terms. `PromiseKept` goes through the steps one by one
(`AloneSteps`); its core is `VerdictMeans`, where both directions meet: with code 0
the listed files that nobody edited are clean now, with another code and none
edited they are not. The invariant needs a class beside the private one, as a scan
for nothing but absent private terms would not notice a file that cannot be read.

### Coverage

One call of `coverage_report` and `render_matrix` after the other in one process.
`Load` is the beginning of `cmd_coverage` or of a consumer's call (the rules are
loaded or refused), `LoadScope` reads the scope file as it is then, `GivenScope`
is a scope the caller passes (the empty one too), `CountRule` one round of the
loop over the rules with its three lists, `Render` the matrix. `EditScope` writes,
breaks or removes the file at any point. Lists stay lists: a technique tagged
twice puts the rule there twice, and a technique the scope lists twice is two
entries. A sub-technique is a technique of its own: the code compares names.

Properties: `GapsAgree` (gaps are the entries no rule tags; numbers and marked
lines agree), `ListsAgree` (each list names exactly the rules that carry the tag;
what is outside the scope is what is tagged and not in it), `EveryRuleShown` (no
loaded rule is lost from the matrix, unless its technique's entry has no tactic),
and the liveness property `ReportEnds`. That exception is the code's:
`render_matrix` prints a line for each tactic of an entry, two for an entry with
two, none for one with none, while its docstring (`coverage.py:44`) speaks of one
line per technique in scope.

Run `coverage`: two rules with up to two tags each and one repeated, five scopes
with an entry under two tactics, one without, one listed twice, one that is not
listed; two edits, so that a scope can be broken and be restored during a report.

Proofs: the inductive `Counted` says what the lists hold after the rules so far.
Lists grow by concatenation, so it rests on two lemmas about ranges of sequences
(`RangeOfConcatenation`, `AgainNames`). `ReportEnds` is model-checked; that each step
of a report leaves it fewer (`Left`) is proved, `ReportRunsDown`.

### Replay

One call of `replay` with several rules. `tables` is the consumer's connection,
`file` the telemetry file; `Begin` takes one of three sources, `LoadEvents` is
`load_events` of a path or of a list, `RunRule` compiles and runs the next rule,
`Return` ends. Between any two of them the consumer inserts, deletes, creates and
drops, and the file is written. A query names a table and columns (`Needs`);
over another table or without a column DuckDB raises. A correlation names the
pipeline's `state table`; that a plain search stays with the default table is
`PlainFollowsState = FALSE` in the run, and the theorems hold either way. What
a correlation counts is `Correlation`'s subject and is a threshold here.
`low` and `high` are histories of a live connection: what its tables had all
through the call, and what they had at some time. The temporary file that
`load_events` makes of a list is never removed (`replay.py:32`); it is private to
the call and is left out, as are the types of columns.

Properties: `AnswersStand` (each rule's hits lie between the answers over `low` and
over `high`), `ConnectionDecides` (a missing table or column is never an empty
answer, and an exception always has a cause), `SourceDecides` (a call over a file
or a list is decided by the one content that was read), and the liveness property
`CallEnds`.

`RunRule` is one step: `execute`, `description` and `fetchall` of one query
(`replay.py:56-58`) see one moment. That is so if the consumer's other thread works
through a cursor of its own, as DuckDB asks of threads; two threads on one
connection object can take each other's result between `execute` and `fetchall`,
and the two properties about live connections say nothing of that.

Run `replay`: an event rule and a correlation in both orders; three pipelines, one
with another table, one that misses a mapping and refuses a rule; three rows and
two changes: enough to remove a row or table between the two rules and to put
it back, or to change both tables.

Proofs: `Bounded` (tables lie between `low` and `high` while the call runs),
`RanInv` (of each rule that ran, its hits and columns do) and `EndInv`, by
monotonicity of `Answer` in the rows (`AnswersGrow`). `CallEnds` is model-checked;
`CallRunsDown` proves that a call has at most `Len(rules) + 2` steps, whatever the
consumer does meanwhile.

### CommitGate

One clone with its setup script, its hook, an editor, `git add` and `git commit`.
`setup` is a run of the script, one action per command: `Fetch` (login and
download), `Move` (with `Copied` when `mv` crosses devices, as from `mktemp` it
may), `CheckIgnored`, `Look`, `Truncate` and `Fill` (the shell opens the file, `cat`
fills it), `Chmod`. There is no `set -e`, so a failing command is followed by the
next one (`MoveFails`, `WriteFails`, `ChmodFails`), and `Kill` may come after any.

The script is started from any of the `Places`. It finds the clone by its own path,
but git prints the path of the hooks relative to the clone's root, and the script
uses it relative to its own directory: `hooks` therefore has a hook for each place,
and a run reads and writes the one of the place it was started from (`hook`,
`Put`), while git looks at `Root` alone. In a clone whose hooks path git prints as
absolute, a linked work tree for one, every run is as if from `Root`.

`commit` is a `git commit`: `Commit` starts the hook, which lists the files,
`LoadTerms` reads the private terms, from the file and from the variable
`IP_SCAN_PRIVATE_TERMS` that the hook inherits (`PRIV_TERMS`, with the empty
alternative that a file without terms leaves), `Judge` is the verdict, `Make` commits
the index. A commit without an executable hook, or with `--no-verify`, is not
`Gated`. `OwnHook` is another tool that installs or removes a hook. The scan of the
hook takes the steps of `ScanPromise`: `scan` is its state, as `git` sees it.

Properties: `FollowedIsClean` (what is committed as it lay in the work tree during
the scan is clean), `ScannedForAList` (a gated commit was scanned for a list the
repository served together with the terms of the committer's environment, or for
these alone, never for none), `LoadedStaysOut` (once a run said the list is
ignored, no `git add` takes it), `InstalledIsArmed` (a run that said it installed
and had no failure left the list in place and the hook armed at the place it names,
whatever was killed before), and the action property `ForeignHookKept` (in no place
does a step of the script write a hook that was somebody else's at the look).

What the exceptions in them stand for:
- The scan is of the work tree, the commit of the index: run `commit_index` shows
  that a file staged with an identifier and cleaned afterwards passes the hook,
  against `src/README.md:236-238`.
- The place a run names is the clone's own only if it was started there: run
  `setup_elsewhere` shows one that says "installed pre-commit hook" from another
  directory, with no command failing, while the clone has none.
- A script stopped between opening the hook and filling it leaves an empty file.
  If that is executable, git runs it and it succeeds; a later run of the script
  does not find its mark and leaves it as somebody else's. `RunArms`, the property
  of that run, is about this as well, and with `Places = {clone}` TLC finds it
  violated that way: a run that is sound says of an empty hook that it did not
  write it.
- `--require-private` is content with the variable: with it set, a clone that never
  fetched the list commits what has none of the variable's terms.
- A list that git does not ignore is refused after it is in place
  (`setup-private-terms.sh:36`), and stays there for the next `git add`.
  `LoadedStaysOut` says that nothing more than that can happen: no run goes on to
  say that it loaded such a list. Whether git ignores the list does not change in
  the model: an edit of `.gitignore` and `git add -f` are left out.
- A list cut by a stopped copy is scanned for as if it were whole (`part`).
- A hook that another tool installs after the script's look is overwritten.
- A list of comments only is loaded, and without the variable the hook refuses
  every commit for it (exit code 3 of the scanner); with it, the empty alternative
  matches every line, and the hook refuses as well.

Run `commit`: two files, a public mark and a term, a list served with the term or
with comments only, the term in the environment or not, `mv` across devices, the
clone's root and one other place. Two files let one be staged, edited or absent
while the other one is followed. The files are symmetric. One file at a time differs
from what is staged (`OneUnstaged`): what a scan may miss is of a single file. While
the script is away, or has left a hook there, the files are clean and committed and
no commit is under way (`Elsewhere`): the steps of either do not touch the other's
hook, and commits are explored in full without it. The two violations need one file
and keep other tools out of the other place (`NoneElsewhere`).

Proofs: `ListInv`, `IgnoredInv`, `ScriptInv` and `HookInv` say where list and hook
stand at each command of the script, the hook at the place of the run, `ScanInv`
what the scan under way has seen. `ForeignHookKept` needs only the steps.

## Runs

| run | checks | bounds |
|---|---|---|
| `correlation_event`, `correlation_value` | hits against bursts | five rows of two groups; four rows of three values and NULL |
| `compile` | purity, mapping, windows, refinement | three rules, two lists, two directories, two versions, three answers |
| `load` | ids, completeness, number of queries, causes of refusals | three paths, one edit |
| `replay` | answers, exceptions and ends of a call | two rules, three rows, two tables, two changes |
| `gate` | verdicts and generations | six repositories of up to three rules, two seeds |
| `coverage` | numbers, lists, lines and end of a report | two rules, five scopes, two edits |
| `scan` | verdict, printed lists, refinement | one scanner, two files, four classes, four contents |
| `commit` | list, hook and commit | two files, one term, two places, two environments |
| `scan_shared`, `commit_index`, `setup_elsewhere` | a sentence of the documents the code does not keep | as above, smaller |

`CHECK_DEADLOCK FALSE` is given for the loader only: a load comes to an end and,
with its edits spent, nothing is left to happen. Everything else can be called
again.

## Fairness

Weak fairness is stated in two modules. `Coverage` has it of `LoadScope`,
`CountRule` and `Render`, `Replay` of `LoadEvents`, `RunRule` and `Return`: these are
the steps of a Python call that runs on by itself, each a finite computation, and
none waits for another actor. Nothing is assumed of the consumer, the editor or
the disk; that a call is made is not assumed either. What the liveness properties
exclude is a call that waits for a scope file, or tries again what raised. The
other modules have safety properties only: a scan, a generation and a script
may be killed at any time, so that nothing can be promised of their end.

## What is proved and what is only checked

Every theorem holds for all values of the constants under the assumptions named
in the modules; TLC evaluates those assumptions in each run. The theorems of
`IpScanProofs` are about any number of scanners and directories; what they say of a
run they say if it was alone in its directory, as `scan_shared` shows they must.
Each proof is by an inductive invariant, named above, in three parts: the initial
states have it, each action keeps it, it implies the property.

Proved are all safety properties that the passing runs check, both refinements
among them. Beside them there are theorems that have no run of their own:
`TypeOK` of `Correlation`, `Compile`, `Coverage` and `IpScan`, `OneVersionPerFile`
and `BatchWhole`, without which the refinement or the other properties would not
hold; `DenseBoundIsTight`, that the bound of `DenseBurstsReported` is the best
there is for event counts; and `CallRunsDown` and `ReportRunsDown`, the safety half of the liveness
properties: a call has a number of steps left, of which each of its own takes at
least one, and nobody else's adds any. Only model-checked are `CallEnds` and
`ReportEnds` themselves: that a step which fairness promises is enabled, and the
conclusion from the measure, are out of the prover's reach. So are, by their
nature, the three violations.

## Not modelled, and what is left

- Query text beyond fields, tables and windows: quoting, wildcards, regular
  expressions, the Kusto backend as a whole. These are renderings without state;
  tests compare their text and run it.
- YAML and JSON parsing, argument parsing, the rows of the generators, titles and
  the width of columns: data. `validate` and `compile` of the command line print
  what `Loader` and `Compile` are about.
- The workflows: CI's jobs are runs of `IpScan` and of `Gate`. Two facts of the
  files need no model: `kodon demo | tee` has its exit code replaced by `tee`'s
  unless the shell has `pipefail` (`ci.yml:53`), and publishing waits for its own
  build only, not for the CI run of the same commit (`publish.yml:1`).
- A generation stopped after some rows of `miss.jsonl` leaves a well formed file
  with fewer near misses. Nothing at run time can tell; the test that compares
  bytes does.

Left to do: a refinement of `Gate` to an abstract verdict; larger runs of `Replay`
with three tables.
