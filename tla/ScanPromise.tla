---------------------------- MODULE ScanPromise ----------------------------
(***************************************************************************)
(* What ip_scan.sh promises to those who go by its exit code, the hook of  *)
(* a commit for one: however many steps a scan takes, and whatever goes on *)
(* beside it, it decides in one of them, by what the listed files that     *)
(* nobody touched since the listing contain at that moment.                *)
(***************************************************************************)
CONSTANTS
    Scanners,   \* those who scan
    Files,      \* what there may be
    Contents,   \* what a file may contain, sets of marks
    Absent,     \* no such file
    Public,     \* the marks that fail every scan
    Terms,      \* the sets of private marks a scan may load
    Unfit       \* private marks that no scan passes with

VARIABLES
    tree,       \* file |-> its content
    scan        \* scanner |-> how far its scan is

None == [pc     |-> "none",
         terms  |-> {},     \* private marks loaded
         steady |-> {},     \* listed files not edited since
         edited |-> FALSE]  \* some listed file was

Init ==
    /\ tree \in [Files -> Contents \cup {Absent}]
    /\ scan = [s \in Scanners |-> None]

(* The files are listed; a scan of nothing does not start.                 *)
List(s, listed) ==
    /\ UNCHANGED tree
    /\ scan[s].pc \notin {"listed", "loaded"}
    /\ listed # {}
    /\ scan' = [scan EXCEPT ![s] = [None EXCEPT !.pc = "listed", !.steady = listed]]

(* The private terms are read.                                             *)
Load(s, terms) ==
    /\ UNCHANGED tree
    /\ scan[s].pc = "listed"
    /\ scan' = [scan EXCEPT ![s].pc = "loaded", ![s].terms = terms]

Clean(s) ==
    /\ scan[s].terms \cap Unfit = {}
    /\ \A f \in scan[s].steady :
         tree[f] # Absent /\ tree[f] \cap (Public \cup scan[s].terms) = {}

(* PASS; of a file that was edited it may have seen either content.        *)
Pass(s) ==
    /\ UNCHANGED tree
    /\ scan[s].pc = "loaded"
    /\ Clean(s)
    /\ scan' = [scan EXCEPT ![s].pc = "passed"]

(* FAIL or BROKEN.                                                         *)
Refuse(s) ==
    /\ UNCHANGED tree
    /\ scan[s].pc = "loaded"
    /\ ~Clean(s) \/ scan[s].edited
    /\ scan' = [scan EXCEPT ![s] = [None EXCEPT !.pc = "refused"]]

(* Scans that end without a verdict, or whose verdict is done with.        *)
End(S) ==
    /\ UNCHANGED tree
    /\ scan' = [s \in Scanners |-> IF s \in S THEN None ELSE scan[s]]

\* Mutant: a file edited during the scan counts as scanned.
StillSteady(s, f) == scan[s].steady

Unsteadied(s, f) == scan[s].steady \ {f}

Edit(f) ==
    /\ \E c \in (Contents \cup {Absent}) \ {tree[f]} : tree' = [tree EXCEPT ![f] = c]
    /\ scan' = [s \in Scanners |->
                  [scan[s] EXCEPT !.steady = Unsteadied(s, f),
                                  !.edited = @ \/ f \in scan[s].steady]]

Next == \/ \E S \in SUBSET Scanners : End(S)
        \/ \E s \in Scanners : \/ \E listed \in SUBSET Files : List(s, listed)
                               \/ \E terms \in Terms : Load(s, terms)
                               \/ Pass(s) \/ Refuse(s)
        \/ \E f \in Files : Edit(f)

Spec == Init /\ [][Next]_<<tree, scan>>
=============================================================================
