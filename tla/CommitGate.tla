----------------------------- MODULE CommitGate -----------------------------
(***************************************************************************)
(* The commit gate of one clone: setup-private-terms.sh fetches the list   *)
(* of private terms and installs the pre-commit hook; the hook runs        *)
(* ip_scan.sh with --require-private; git commits the index when it        *)
(* passes.  The script runs without "set -e", and it, the scan, the editor *)
(* and git are processes of their own, with a working directory and an     *)
(* environment that the caller chooses.                                    *)
(*                                                                         *)
(* Of the scan this module takes the steps of ScanPromise, which is what   *)
(* IpScan is shown to keep.  A file's content is the set of marks in it,   *)
(* public ones or terms.                                                   *)
(***************************************************************************)
EXTENDS Integers

CONSTANTS
    Files,          \* what the repository may track, all of it text
    NamedAsText,    \* those that file(1)'s filter lets pass when deleted
    Contents,       \* what a file may contain, sets of marks
    Absent,         \* no such file, or not in the index
    Public,         \* the marks of the public HIGH and MED classes
    Served,         \* lists that common.private held, as sets of terms
    Torn,           \* what a copy of such a list may hold that stopped
    Envs,           \* what IP_SCAN_PRIVATE_TERMS may hold, sets of terms
    Empty,          \* the alternative that is the empty expression
    SameDevice,     \* whether mv renames, or copies from another device
    Places,         \* directories that the script may be run from
    Root            \* the clone's root, where git looks for the hook

ASSUME ContentsAssumption == Absent \notin Contents \cup Served \cup Torn
ASSUME DeviceAssumption   == SameDevice \in BOOLEAN
ASSUME FilesAssumption    == NamedAsText \subseteq Files
ASSUME PlacesAssumption   == Root \in Places

VARIABLES
    work, index,    \* file |-> its content in the work tree and in the index
    private,        \* scripts/ip_scan.private: its terms, or Absent
    ignored,        \* whether .gitignore names it
    tracked,        \* whether it is in the index
    hooks,          \* place |-> its .git/hooks/pre-commit
    setup,          \* the script's variables and history
    commit,         \* git commit
    scan            \* the scan of its hook, as git sees it

vars == <<work, index, private, ignored, tracked, hooks, setup, commit, scan>>

(* The terms of the variable and of the file, joined by a bar: with no     *)
(* term in the file, that leaves an empty alternative, which every line    *)
(* matches.                                                                *)
PRIV_TERMS(env, file) ==
    IF file = Absent THEN env
    ELSE IF env # {} /\ file = {} THEN env \cup {Empty} ELSE env \cup file

Loadable == {PRIV_TERMS(e, l) : e \in Envs, l \in Served \cup Torn \cup {Absent}}

Scan == INSTANCE ScanPromise WITH Scanners <- {"hook"}, tree <- work,
                                  Terms <- Loadable, Unfit <- {Empty}

Armed == [text |-> "scan", exec |-> TRUE]

NoSetup == [pc     |-> "ended",
            at     |-> Root,        \* its working directory
            said   |-> "nothing",   \* what the last run ended with
            hook   |-> TRUE,        \* INSTALL_HOOK
            tmp    |-> {},          \* TMP
            sound  |-> TRUE,        \* history: no command of the run failed
            alone  |-> TRUE,        \* history: nobody else wrote its hook since its look
            loaded |-> FALSE,       \* history: some run said it loaded terms
            torn   |-> FALSE]       \* history: the last copy is under way, stopped or failed

NoCommit == [pc   |-> "none",
             env  |-> {},        \* IP_SCAN_PRIVATE_TERMS, as the hook read it
             part |-> FALSE]     \* history: terms from a copy under way, stopped or failed

Pending == commit.pc # "none"

Init ==
    /\ Scan!Init
    /\ index = work
    /\ private = Absent
    /\ ignored \in BOOLEAN
    /\ tracked = FALSE
    /\ hooks \in [Places -> [text: {"none", "foreign"}, exec: {FALSE}]]
    /\ setup = NoSetup
    /\ commit = NoCommit

-----------------------------------------------------------------------------
(* setup-private-terms.sh.  Its commands may fail, and it goes on.         *)
Outside == <<work, index, ignored, tracked, commit, scan>>

Goes(next) == setup' = [setup EXCEPT !.pc = next]

\* The EXIT trap removes TMP.
Ends(said) == setup' = [setup EXCEPT !.pc = "ended", !.said = said, !.hook = TRUE,
                                     !.tmp = {}, !.sound = @ \/ said = "nothing",
                                     !.alone = @ \/ said = "nothing"]

Start ==
    /\ setup.pc = "ended"
    /\ \E h \in BOOLEAN, p \in Places :
         setup' = [setup EXCEPT !.pc = "fetch", !.at = p, !.said = "nothing",
                                !.hook = h, !.sound = TRUE, !.alone = TRUE]
    /\ UNCHANGED <<private, hooks, Outside>>

\* Mutant: what gh wrote before it failed is taken for the list.
DownloadedPart == Served \cup Torn

Downloaded == Served

(* gh auth status, the login and gh api: somebody else's clone, a failure  *)
(* and an empty answer keep the list there is.                             *)
Fetch ==
    /\ setup.pc = "fetch"
    /\ \/ Ends("nothing")
       \/ \E l \in Downloaded : setup' = [setup EXCEPT !.pc = "move", !.tmp = l]
    /\ UNCHANGED <<private, hooks, Outside>>

(* mv to scripts/ip_scan.private: a rename, or from another device a       *)
(* removal and a copy.                                                     *)
Move ==
    /\ setup.pc = "move"
    /\ IF SameDevice
       THEN private' = setup.tmp /\ Goes("ignored")
       ELSE /\ private' \in Torn \cup {Absent}
            /\ setup' = [setup EXCEPT !.pc = "copying", !.torn = TRUE]
    /\ UNCHANGED <<hooks, Outside>>

Copied ==
    /\ setup.pc = "copying"
    /\ private' = setup.tmp
    /\ setup' = [setup EXCEPT !.pc = "ignored", !.torn = FALSE]
    /\ UNCHANGED <<hooks, Outside>>

MoveFails ==
    /\ setup.pc \in {"move", "copying"}
    /\ setup' = [setup EXCEPT !.pc = "ignored", !.sound = FALSE]
    /\ UNCHANGED <<private, hooks, Outside>>

\* Mutant: the answer of check-ignore is not looked at.
PassesAlways == TRUE

Passes == ignored

(* git check-ignore, after the list is in place; "loaded ... terms".       *)
CheckIgnored ==
    /\ setup.pc = "ignored"
    /\ IF ~Passes THEN Ends("nothing")
       ELSE setup' = [setup EXCEPT !.pc = IF setup.hook THEN "look" ELSE "ended",
                                   !.said = "loaded", !.loaded = TRUE, !.tmp = {},
                                   !.hook = TRUE]
    /\ UNCHANGED <<private, hooks, Outside>>

(* HOOK.  Line 43 has git print .git/hooks, relative to ROOT, and the      *)
(* script takes it relative to its own directory.  (Absolute where the     *)
(* clone is a linked work tree or core.hooksPath is: as if run at Root.)   *)
hook == hooks[setup.at]

Put(h) == hooks' = [hooks EXCEPT ![setup.at] = h]

\* Mutant: a hook that is not executable is nobody's.
OursUnlessExec == hook.text \in {"none", "scan"} \/ ~hook.exec

\* No hook, or one with the MARK.
Ours == hook.text \in {"none", "scan"}

(* "... already exists; not overwriting it" ends the run.                  *)
Look ==
    /\ setup.pc = "look"
    /\ setup' = [setup EXCEPT !.pc   = IF Ours THEN "write" ELSE "ended",
                              !.said = IF Ours THEN @ ELSE "kept"]
    /\ UNCHANGED <<private, hooks, Outside>>

(* mkdir -p; cat > $HOOK: the shell truncates or creates the file, cat     *)
(* fills it.                                                               *)
Truncate ==
    /\ setup.pc = "write"
    /\ Put([hook EXCEPT !.text = "empty"])
    /\ Goes("fill")
    /\ UNCHANGED <<private, Outside>>

Fill ==
    /\ setup.pc = "fill"
    /\ Put([hook EXCEPT !.text = "scan"])
    /\ Goes("chmod")
    /\ UNCHANGED <<private, Outside>>

WriteFails ==
    /\ setup.pc \in {"write", "fill"}
    /\ setup' = [setup EXCEPT !.pc = "chmod", !.sound = FALSE]
    /\ UNCHANGED <<private, hooks, Outside>>

\* Mutant: a hook that was there keeps its mode.
ModeKept == hook.exec

Mode == TRUE

(* chmod +x; "installed pre-commit hook".                                  *)
Chmod ==
    /\ setup.pc = "chmod" /\ hook.text # "none"
    /\ Put([hook EXCEPT !.exec = Mode])
    /\ Ends("installed")
    /\ UNCHANGED <<private, Outside>>

(* The message is the same.                                                *)
ChmodFails ==
    /\ setup.pc = "chmod"
    /\ setup' = [setup EXCEPT !.pc = "ended", !.said = "installed", !.sound = FALSE]
    /\ UNCHANGED <<private, hooks, Outside>>

Kill ==
    /\ setup.pc # "ended"
    /\ Ends("nothing")
    /\ UNCHANGED <<private, hooks, Outside>>

Setup == \/ Start \/ Fetch \/ Move \/ Copied \/ MoveFails \/ CheckIgnored
         \/ Look \/ Truncate \/ Fill \/ WriteFails \/ Chmod \/ ChmodFails \/ Kill

-----------------------------------------------------------------------------
(* git commit and the hook.                                                *)
Unmoved == <<work, index, private, ignored, tracked, hooks, setup>>

\* git ls-files, through the filter on file(1)'s line.
Listed == {f \in Files : index[f] # Absent /\ (work[f] # Absent \/ f \in NamedAsText)}

(* The hook lists the files; a scan of nothing is refused.  Without an     *)
(* executable hook, or with --no-verify, nothing is scanned; an empty      *)
(* script succeeds, and somebody else's may.                               *)
Commit ==
    /\ ~Pending
    /\ \/ /\ hooks[Root] = Armed
          /\ Scan!List("hook", Listed)
          /\ commit' = [NoCommit EXCEPT !.pc = "scanning"]
       \/ commit' = [NoCommit EXCEPT !.pc = "passed"] /\ UNCHANGED scan
    /\ UNCHANGED Unmoved

Gone == commit' = NoCommit /\ Scan!End({"hook"})

\* Mutant: zero terms are only warned of.
RequirePrivateNot(terms) == TRUE

RequirePrivate(terms) == terms # {}

(* The private terms are read, from the environment that the hook inherits *)
(* and from the file; --require-private wants one at least.                *)
LoadTerms ==
    /\ scan["hook"].pc = "listed"
    /\ \E env \in Envs :
         LET terms == PRIV_TERMS(env, private) IN
         IF RequirePrivate(terms)
         THEN /\ Scan!Load("hook", terms)
              /\ commit' = [commit EXCEPT !.env = env, !.part = setup.torn]
         ELSE Gone
    /\ UNCHANGED Unmoved

(* The verdict.                                                            *)
Judge ==
    /\ \/ Scan!Pass("hook") /\ commit' = [commit EXCEPT !.pc = "passed"]
       \/ Scan!Refuse("hook") /\ commit' = NoCommit
    /\ UNCHANGED Unmoved

(* git reads the index again after the hook and commits it; the commit is  *)
(* what the properties say of the index at this step.                      *)
Make ==
    /\ commit.pc = "passed"
    /\ Gone
    /\ UNCHANGED Unmoved

Abort ==
    /\ Pending
    /\ Gone
    /\ UNCHANGED Unmoved

-----------------------------------------------------------------------------
(* An editor, git add, and somebody who installs or removes a hook.        *)
Edit(f) ==
    /\ Scan!Edit(f)
    /\ UNCHANGED <<index, private, ignored, tracked, hooks, setup, commit>>

Add(f) ==
    /\ index' = [index EXCEPT ![f] = work[f]]
    /\ UNCHANGED <<work, private, ignored, tracked, hooks, setup, commit, scan>>

AddAll ==
    /\ index' = work
    /\ tracked' = (private # Absent /\ (tracked \/ ~ignored))
    /\ UNCHANGED <<work, private, ignored, hooks, setup, commit, scan>>

Looked == setup.pc \in {"write", "fill", "chmod"} \/ setup.said \in {"kept", "installed"}

OwnHook(p) ==
    /\ \E h \in [text: {"foreign"}, exec: BOOLEAN] \cup {[text |-> "none", exec |-> FALSE]} :
         hooks' = [hooks EXCEPT ![p] = h]
    /\ setup' = [setup EXCEPT !.alone = @ /\ ~(Looked /\ p = setup.at)]
    /\ UNCHANGED <<work, index, private, ignored, tracked, commit, scan>>

Next == \/ Setup
        \/ Commit \/ LoadTerms \/ Judge \/ Make \/ Abort
        \/ \E f \in Files : Edit(f) \/ Add(f)
        \/ AddAll
        \/ \E p \in Places : OwnHook(p)

Spec == Init /\ [][Next]_vars

-----------------------------------------------------------------------------
\* The step that makes a commit the hook let through, and what it scanned.
Gated   == commit.pc = "passed" /\ scan["hook"].pc = "passed"
Scanned == scan["hook"]

Script == [pc: {"ended", "fetch", "move", "copying", "ignored",
                "look", "write", "fill", "chmod"},
           at: Places, said: {"nothing", "loaded", "kept", "installed"}, hook: BOOLEAN,
           tmp: Served \cup {{}}, sound: BOOLEAN, alone: BOOLEAN,
           loaded: BOOLEAN, torn: BOOLEAN]

Attempt == [pc: {"none", "scanning", "passed"}, env: Envs \cup {{}}, part: BOOLEAN]

(* Types; and a hook is written only over a list that git ignores.         *)
TypeOK ==
    /\ work \in [Files -> Contents \cup {Absent}]
    /\ index \in [Files -> Contents \cup {Absent}]
    /\ private \in Served \cup Torn \cup {Absent}
    /\ ignored \in BOOLEAN /\ tracked \in BOOLEAN
    /\ hooks \in [Places -> [text: {"none", "foreign", "empty", "scan"}, exec: BOOLEAN]]
    /\ setup \in Script
    /\ commit \in Attempt
    /\ scan \in [{"hook"} ->
                 [pc: {"none", "listed", "loaded", "passed", "refused"},
                  terms: Loadable \cup {{}},
                  steady: SUBSET Files, edited: BOOLEAN]]
    /\ setup.pc \in {"look", "write", "fill", "chmod"} => ignored

(* A commit the hook let through is clean wherever it is what lay in the   *)
(* work tree: no file that the index follows carries a public mark or a    *)
(* loaded term into the commit if nobody edited it since the scan listed   *)
(* it, whoever edits, stages, fetches or installs around it.               *)
FollowedIsClean ==
    Gated => \A f \in Scanned.steady : index[f] = work[f] =>
                 index[f] # Absent /\ index[f] \cap (Public \cup Scanned.terms) = {}

(* Private terms required: a commit that the hook let through was scanned  *)
(* for a list that the repository served, and not for nothing or for part  *)
(* of a list, unless a copy was under way, stopped or failed.  The terms   *)
(* of the committer's own IP_SCAN_PRIVATE_TERMS come on top; with it set,  *)
(* the hook is content with them alone (l = Absent).                       *)
ScannedForAList ==
    Gated => /\ Scanned.terms # {}
             /\ \/ commit.part
                \/ \E l \in Served \cup {Absent} : Scanned.terms = PRIV_TERMS(commit.env, l)

(* "Loaded ... (git-ignored)": once a run has said it, no git add puts the *)
(* list into the index.  A run that refuses leaves the list where it is,   *)
(* for the next git add to take.                                           *)
LoadedStaysOut == setup.loaded => ~tracked

(* "Installed pre-commit hook at $HOOK": a run that ends with it, and none *)
(* of whose commands failed, leaves a list of the repository's in place    *)
(* and the hook armed at the place it names, whatever earlier runs were    *)
(* killed at and wherever they ran; the hook stays so until someone else   *)
(* writes it or the script is run again.  The place it names is the        *)
(* clone's own for runs from its root only: see RunArms.                   *)
InstalledIsArmed ==
    (setup.pc = "ended" /\ setup.said # "nothing" /\ setup.sound) =>
        /\ private \in Served
        /\ setup.said = "installed" /\ setup.alone => hook = Armed

(* "An existing pre-commit hook that this script did not write is never    *)
(* overwritten", wherever the script is run: of its own steps, those that  *)
(* change setup, none writes such a hook, unless it was installed after    *)
(* the script looked.                                                      *)
ForeignHookKept ==
    [][\A p \in Places : (hooks[p].text = "foreign" /\ setup.alone
                              /\ setup'.alone /\ setup' # setup) => hooks'[p] = hooks[p]]_vars

-----------------------------------------------------------------------------
(* What the documents say of the gate.                                     *)

(* README.md:236-238 of the hook, for a commit during whose scan nobody    *)
(* edits: nothing private gets in.                                         *)
HookedIsClean ==
    (Gated /\ ~Scanned.edited) => \A f \in Files : index[f] # Absent =>
                 index[f] \cap (Public \cup Scanned.terms) = {}

(* setup-private-terms.sh:2-3, "fetch the author's private scan terms and  *)
(* install the pre-commit scan hook.  Safe to run in any clone", and its   *)
(* last messages: a run without a failing command, and without another     *)
(* writer of its hook, that says it installed the hook leaves the clone's  *)
(* hook armed; and one that says that a hook it did not write exists (line *)
(* 46) has found somebody else's in the clone.                             *)
RunArms ==
    (setup.pc = "ended" /\ setup.sound /\ setup.alone) =>
        /\ setup.said = "installed" => hooks[Root] = Armed
        /\ setup.said = "kept" => hooks[Root].text = "foreign"
=============================================================================
