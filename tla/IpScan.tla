------------------------------- MODULE IpScan -------------------------------
(***************************************************************************)
(* ip_scan.sh: list the text files, grep them for one class of identifier  *)
(* after the other, and give a verdict.  The result directory outlives a   *)
(* run, runs can be interrupted or share it, and files change meanwhile.   *)
(*                                                                         *)
(* A file's content is the set of marks in it: the class that a line of it *)
(* belongs to, or the private term that a line of it holds.                *)
(***************************************************************************)
EXTENDS Integers, Sequences, FiniteSets, Functions

CONSTANTS
    Scanners,    \* running copies of the script
    OutDirs,     \* result directories
    Out,         \* the one that each copy is given
    Files,       \* tracked files, text of a line at least where they exist
    NamedAsText, \* those whose path alone passes the filter on file(1)'s line
    InGit,       \* whether the root is a git work tree
    Contents,    \* what a file may contain, sets of marks
    Absent,      \* no such file
    Classes,     \* the classes in the order of the script
    Private,     \* the class of private terms
    Low,         \* the classes that never fail the gate
    TermLists,   \* what the private file or the variable may hold
    Empty,       \* the alternative that is the empty expression
    Bad          \* a term that is no regular expression

ASSUME OutAssumption == Out \in [Scanners -> OutDirs]

ASSUME ClassesAssumption ==
    /\ Classes \in Seq(STRING)
    /\ \A i, j \in DOMAIN Classes : Classes[i] = Classes[j] => i = j
    /\ Low \subseteq Range(Classes)
    /\ Private \in Range(Classes) \ Low
    /\ Range(Classes) # {Private}

ASSUME FilesAssumption ==
    /\ NamedAsText \subseteq Files
    /\ Absent \notin Contents
    /\ InGit \in BOOLEAN

ASSUME TermsAssumption ==
    /\ <<>> \in TermLists
    /\ \A l \in TermLists : l \in Seq(Range(l)) /\ Empty \notin Range(l)

VARIABLES
    tree,       \* the files: content, or Absent
    private,    \* scripts/ip_scan.private: its terms, or Absent
    files,      \* $OUT/files.txt of each directory
    lists,      \* classes whose hit list in the directory is not empty
    errors,     \* whether its grep-errors.txt is not empty
    run         \* each scanner's own variables and the history of its run

vars == <<tree, private, files, lists, errors, run>>

Idle == [at        |-> 0,        \* index of the class to scan, 0 when not running
         env       |-> <<>>,     \* IP_SCAN_PRIVATE_TERMS
         require   |-> FALSE,    \* --require-private
         fail      |-> FALSE,    \* FAIL
         code      |-> -1,       \* exit code, -1 while there is none
         shown     |-> {},       \* classes whose list the FAIL message prints
         terms     |-> <<>>,     \* history: the private alternatives scanned for
         listed    |-> {},       \* history: what this run listed
         steady    |-> {},       \* history: files not edited since the listing
         found     |-> {},       \* history: classes this run had hits in
         unread    |-> FALSE,    \* history: some grep of this run failed
         nothing   |-> FALSE,    \* history: a class was scanned over no file
         shared    |-> FALSE]    \* history: another copy ran in its directory

Listing == Len(Classes) + 1      \* "at" before the list of files is written
Judging == Len(Classes) + 2      \* and after the last class

Running(s) == run[s].at # 0

\* The copies that are at work in a directory.
In(out) == {s \in Scanners : Running(s) /\ Out[s] = out}

-----------------------------------------------------------------------------
(* What one grep sees.                                                     *)

(* PRIV_TERMS split at its top-level bars: the variable, then the file     *)
(* without comments.  A file of comments only still adds the bar.          *)
PRIV_TERMS(env, file) ==
    IF file = Absent THEN env
    ELSE IF env = <<>> THEN file
    ELSE env \o IF file = <<>> THEN <<Empty>> ELSE file

Fails(c, terms, listed) ==
    /\ listed # {}
    /\ \/ \E f \in listed : tree[f] = Absent
       \/ c = Private /\ Bad \in Range(terms)

Matches(c, terms, content) ==
    IF c = Private
    THEN Bad \notin Range(terms) /\ Range(terms) \cap (content \cup {Empty}) # {}
    ELSE c \in content

Hit(c, terms, listed) ==
    \E f \in listed : tree[f] # Absent /\ Matches(c, terms, tree[f])

(* git ls-files names deleted files too; file(1) says "cannot open" of     *)
(* them, and the filter matches on the whole line.                         *)
Listed == {f \in Files : tree[f] # Absent \/ (InGit /\ f \in NamedAsText)}

-----------------------------------------------------------------------------
Init ==
    /\ tree \in [Files -> Contents \cup {Absent}]
    /\ private \in TermLists \cup {Absent}
    /\ files = [o \in OutDirs |-> {}]
    /\ lists = [o \in OutDirs |-> {}]
    /\ errors = [o \in OutDirs |-> FALSE]
    /\ run = [s \in Scanners |-> Idle]

(* The script starts: both result files are truncated.                     *)
Begin(s) ==
    LET others == In(Out[s]) IN
    /\ ~Running(s)
    /\ \E env \in TermLists, require \in BOOLEAN :
         run' = [t \in Scanners |->
                   IF t = s
                   THEN [Idle EXCEPT !.at = Listing, !.env = env,
                                     !.require = require, !.shared = others # {}]
                   ELSE [run[t] EXCEPT !.shared = @ \/ t \in others]]
    /\ files' = [files EXCEPT ![Out[s]] = {}]
    /\ errors' = [errors EXCEPT ![Out[s]] = FALSE]
    /\ UNCHANGED <<tree, private, lists>>

Exit(r, code) == [r EXCEPT !.at = 0, !.code = code]

(* The pipeline writes files.txt; an empty list is BROKEN.                 *)
ListFiles(s) ==
    /\ run[s].at = Listing
    /\ files' = [files EXCEPT ![Out[s]] = Listed]
    /\ run' = [run EXCEPT ![s] =
                 [IF Listed = {} THEN Exit(@, 2) ELSE [@ EXCEPT !.at = 1]
                  EXCEPT !.listed = Listed, !.steady = Files]]
    /\ UNCHANGED <<tree, private, lists, errors>>

Next_at(i) == IF i = Len(Classes) THEN Judging ELSE i + 1

FailsGate(c) == c \notin Low

\* Mutant: FAIL is set by the last class alone.
RaiseLast(fail, c, hit) == hit /\ FailsGate(c)

Raise(fail, c, hit) == fail \/ (hit /\ FailsGate(c))

\* Mutant: grep-errors.txt is overwritten by each class.
CollectLast(error, failed) == failed

Collect(error, failed) == error \/ failed

\* Mutant: a class without hits leaves its list as it is.
RewriteOnHit(list, c, hit) == IF hit THEN list \cup {c} ELSE list

Rewrite(list, c, hit) == IF hit THEN list \cup {c} ELSE list \ {c}

(* scan(): one class over the listed files.                                *)
Scan(s, c, terms) ==
    LET r      == run[s]
        out    == Out[s]
        hit    == Hit(c, terms, files[out])
        failed == Fails(c, terms, files[out])
    IN  /\ lists' = [lists EXCEPT ![out] = Rewrite(@, c, hit)]
        /\ errors' = [errors EXCEPT ![out] = Collect(@, failed)]
        /\ run' = [run EXCEPT ![s] =
             [r EXCEPT !.at = Next_at(@),
                       !.fail = Raise(@, c, hit),
                       !.terms = IF c = Private THEN terms ELSE @,
                       !.found = IF hit THEN @ \cup {c} ELSE @,
                       !.unread = @ \/ failed,
                       !.nothing = @ \/ files[out] = {}]]
        /\ UNCHANGED <<tree, private, files>>

ScanClass(s) ==
    /\ run[s].at \in DOMAIN Classes
    /\ Classes[run[s].at] # Private
    /\ Scan(s, Classes[run[s].at], run[s].terms)

ScanPrivate(s) ==
    LET terms == PRIV_TERMS(run[s].env, private) IN
    /\ run[s].at \in DOMAIN Classes
    /\ Classes[run[s].at] = Private
    /\ terms # <<>>
    /\ Scan(s, Private, terms)

(* No private term: refused, or skipped with a warning.  The hit list of   *)
(* an earlier run stays where it is.                                       *)
SkipPrivate(s) ==
    LET r == run[s] IN
    /\ r.at \in DOMAIN Classes
    /\ Classes[r.at] = Private
    /\ PRIV_TERMS(r.env, private) = <<>>
    /\ run' = [run EXCEPT ![s] = IF r.require THEN Exit(r, 3)
                                 ELSE [r EXCEPT !.at = Next_at(@)]]
    /\ UNCHANGED <<tree, private, files, lists, errors>>

\* Mutant: the verdict is read off the hit lists in the directory.
CodeOfLists(s) ==
    IF errors[Out[s]] THEN 2 ELSE IF lists[Out[s]] \ Low # {} THEN 1 ELSE 0

\* Mutant: FAIL is reported before BROKEN.
CodeSwapped(s) == IF run[s].fail THEN 1 ELSE IF errors[Out[s]] THEN 2 ELSE 0

Code(s) == IF errors[Out[s]] THEN 2 ELSE IF run[s].fail THEN 1 ELSE 0

(* BROKEN, FAIL with the non-empty lists, or PASS.                         *)
Verdict(s) ==
    /\ run[s].at = Judging
    /\ run' = [run EXCEPT ![s] =
                 [Exit(@, Code(s)) EXCEPT !.shown = IF Code(s) = 1
                                                    THEN lists[Out[s]] \ Low ELSE {}]]
    /\ UNCHANGED <<tree, private, files, lists, errors>>

(* ^C, at any time: $OUT stays as it is.                                   *)
Interrupt(s) ==
    /\ Running(s)
    /\ run' = [run EXCEPT ![s] = Exit(@, 130)]
    /\ UNCHANGED <<tree, private, files, lists, errors>>

(* Outside: an editor or a checkout, and setup-private-terms.sh.           *)
Edit(f) ==
    /\ \E c \in (Contents \cup {Absent}) \ {tree[f]} : tree' = [tree EXCEPT ![f] = c]
    /\ run' = [s \in Scanners |-> [run[s] EXCEPT !.steady = @ \ {f}]]
    /\ UNCHANGED <<private, files, lists, errors>>

SetTerms ==
    /\ private' \in TermLists \cup {Absent}
    /\ UNCHANGED <<tree, files, lists, errors, run>>

Next == \/ \E s \in Scanners : \/ Begin(s) \/ ListFiles(s)
                               \/ ScanClass(s) \/ ScanPrivate(s) \/ SkipPrivate(s)
                               \/ Verdict(s) \/ Interrupt(s)
        \/ \E f \in Files : Edit(f)
        \/ SetTerms

Spec == Init /\ [][Next]_vars

-----------------------------------------------------------------------------
\* The lists that a private class may be scanned for.
Alternatives == {PRIV_TERMS(e, p) : e \in TermLists, p \in TermLists \cup {Absent}}

Run == [at: 0..Judging, env: TermLists, require: BOOLEAN, fail: BOOLEAN,
        code: {-1, 0, 1, 2, 3, 130}, shown: SUBSET Range(Classes),
        terms: Alternatives, listed: SUBSET Files, steady: SUBSET Files,
        found: SUBSET Range(Classes), unread: BOOLEAN, nothing: BOOLEAN,
        shared: BOOLEAN]

(* Types.                                                                  *)
TypeOK ==
    /\ tree \in [Files -> Contents \cup {Absent}]
    /\ private \in TermLists \cup {Absent}
    /\ files \in [OutDirs -> SUBSET Files]
    /\ lists \in [OutDirs -> SUBSET Range(Classes)]
    /\ errors \in [OutDirs -> BOOLEAN]
    /\ run \in [Scanners -> Run]

(* What a run says holds of one whose result directory no other copy used  *)
(* while it ran; other copies may run beside it in directories of theirs,  *)
(* and before and after it in its own.                                     *)
Alone == {s \in Scanners : ~run[s].shared}

(* PASS means clean: no file that was left alone since the listing holds a *)
(* HIGH or MED identifier or one of the loaded private terms, whatever was *)
(* edited, deleted or interrupted around it.                               *)
PassIsClean ==
    \A s \in Alone : run[s].code = 0 =>
        \A f \in run[s].steady : tree[f] # Absent =>
            /\ tree[f] \cap (Range(Classes) \ Low) \subseteq {Private}
            /\ tree[f] \cap Range(run[s].terms) = {}

(* "A pattern that cannot run is a pattern that never hits": once a grep   *)
(* of a run failed, over a file deleted under it or on a bad private term, *)
(* the run neither passes nor fails, whatever it found.                    *)
BrokenWins == \A s \in Alone : run[s].unread => run[s].code \notin {0, 1}

(* FAIL means found: this run saw a HIGH or MED hit; lists that an earlier *)
(* or interrupted run left in the directory never fail it.                 *)
FailIsFound == \A s \in Alone : run[s].code = 1 => run[s].found \ Low # {}

(* The verdict is one of tree and terms only: when no file changed since   *)
(* the listing, the exit code is what a scan into a fresh directory gives. *)
Judge(r) ==
    LET present == {f \in Files : tree[f] # Absent}
        ghosts  == IF InGit THEN NamedAsText \ present ELSE {}
        dirty   == \E c \in Range(Classes) \ Low, f \in present :
                      Matches(c, r.terms, tree[f])
    IN  IF Listed = {} THEN 2
        ELSE IF r.terms = <<>> /\ r.require THEN 3
        ELSE IF ghosts # {} \/ Bad \in Range(r.terms) THEN 2
        ELSE IF dirty THEN 1 ELSE 0

VerdictOfTheTree ==
    \A s \in Alone :
        (run[s].code \in {0, 1, 2, 3} /\ run[s].steady = Files)
            => run[s].code = Judge(run[s])

(* "FAIL: HIGH/MED hits found - see $OUT/<pattern>.txt": the lists printed *)
(* are hits this run found, and there is one.  The one exception is the    *)
(* list of private terms in a run that had none to scan for: it is an      *)
(* earlier run's.                                                          *)
Unscanned(r) == IF r.terms = <<>> THEN {Private} ELSE {}

ShownIsFound ==
    \A s \in Alone :
        /\ run[s].shown \subseteq run[s].found \cup Unscanned(run[s])
        /\ run[s].code = 1 <=> run[s].shown # {}

-----------------------------------------------------------------------------
(* The scan as those see it who only wait for its exit code.               *)
PrivateRead(r) == \E i \in DOMAIN Classes : Classes[i] = Private /\ i < r.at

Stage(r) ==
    IF r.shared \/ r.at = Listing THEN "none"
    ELSE IF r.at # 0 THEN IF PrivateRead(r) THEN "loaded" ELSE "listed"
    ELSE IF r.code = 0 THEN "passed"
    ELSE IF r.code \in {1, 2} /\ r.listed # {} THEN "refused" ELSE "none"

Edited(r) == ~(r.listed \subseteq r.steady)

Seen(r) ==
    IF Stage(r) \in {"none", "refused"}
    THEN [pc |-> Stage(r), terms |-> {}, steady |-> {}, edited |-> FALSE]
    ELSE [pc |-> Stage(r), terms |-> Range(r.terms), steady |-> r.listed \cap r.steady,
          edited |-> Edited(r)]

Scans == [s \in Scanners |-> Seen(run[s])]

Public == Range(Classes) \ (Low \cup {Private})
Terms  == {Range(l) : l \in Alternatives}

Promise == INSTANCE ScanPromise WITH Unfit <- {Bad, Empty}, scan <- Scans

(* The script keeps ScanPromise: its greps, each at a time of its own over *)
(* files that change between them, amount to one look at the listed files  *)
(* nobody touched, taken as it exits; a PASS needs all of them there and   *)
(* clean, and if none was touched, a FAIL or BROKEN needs one that is not. *)
ScansAtOnce == Promise!Spec

-----------------------------------------------------------------------------
(* What a comment of the script says: "a scan of nothing must not pass".   *)
NothingDoesNotPass == \A s \in Scanners : run[s].nothing => run[s].code # 0
=============================================================================
