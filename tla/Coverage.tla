------------------------------ MODULE Coverage ------------------------------
(***************************************************************************)
(* coverage.py: what the loaded rules tag is counted against a declared    *)
(* scope, and printed as a matrix of tactics and techniques.  The rules    *)
(* are loaded first and the scope file is read after them, while an editor *)
(* or a checkout may be changing it; a consumer may pass a scope of his    *)
(* own and ask again in the same process.                                  *)
(*                                                                         *)
(* Titles, names and the width of columns are left out.  The order of the  *)
(* printed tactics is that of their first mention and is left out too.     *)
(***************************************************************************)
EXTENDS Integers, Sequences, FiniteSets, Functions

CONSTANTS
    Rules,       \* rule ids
    Techniques,
    Tactics,
    RuleSets,    \* what load_rules may return: sequences of metadata
    Scopes,      \* what a scope file may hold: sequences of entries
    Unreadable,  \* no scope file, or one that is not a scope
    MaxEdits     \* bound: edits of the scope file

\* RuleMeta and TechniqueRef, as far as coverage looks at them.
Meta  == [rule_id: Rules, techniques: Seq(Techniques), tactics: Seq(Tactics)]
Entry == [technique: Techniques, tactics: SUBSET Tactics]

ASSUME InputsAssumption ==
    /\ \A ms \in RuleSets : ms \in Seq(Meta)
    /\ \A sc \in Scopes : sc \in Seq(Entry)
    /\ Unreadable \notin Scopes
    /\ MaxEdits \in Nat

VARIABLES
    file,        \* coverage/attack_scope.yml
    edits,
    pc,          \* "idle", "loaded", "tagging", "printed", "raised"
    metas,       \* the loaded rules
    scope,
    next,        \* index of the rule to be counted
    by_technique, by_tactic, out_of_scope,      \* name |-> rule ids
    matrix       \* the header's numbers and the printed lines

report == <<by_technique, by_tactic, out_of_scope>>
vars == <<file, edits, pc, metas, scope, next, report, matrix>>

Nobody(names) == [n \in names |-> <<>>]
NoMatrix == [covered |-> 0, scope |-> 0, gaps |-> 0, lines |-> {}, outside |-> {}]

-----------------------------------------------------------------------------
(* coverage_report.                                                        *)
in_scope == {scope[i].technique : i \in DOMAIN scope}

Times(x, s) == Cardinality({i \in DOMAIN s : s[i] = x})

\* One entry for every time a tag is there: a tag twice, the rule twice.
Again(n, m, names) == [k \in 1..Times(n, names) |-> m.rule_id]

Named(who, m, names) == [n \in DOMAIN who |-> who[n] \o Again(n, m, names)]

\* Mutant: a rule is outside the scope only when none of its techniques is in.
OutsideWhole(m) ==
    IF Range(m.techniques) \cap in_scope # {} THEN out_of_scope
    ELSE Named(out_of_scope, m, m.techniques)

Outside(m) == [t \in Techniques |-> IF t \in in_scope THEN out_of_scope[t]
                                    ELSE out_of_scope[t] \o Again(t, m, m.techniques)]

TacticsOf(m) == Named(by_tactic, m, m.tactics)

(* The loop over metas, one rule at a time.                                *)
CountRule ==
    LET m == metas[next] IN
    /\ pc = "tagging" /\ next \in DOMAIN metas
    /\ by_technique' = Named(by_technique, m, m.techniques)
    /\ by_tactic' = TacticsOf(m)
    /\ out_of_scope' = Outside(m)
    /\ next' = next + 1
    /\ UNCHANGED <<file, edits, pc, metas, scope, matrix>>

\* CoverageReport.gaps and .covered, as positions in the scope.
gaps    == {i \in DOMAIN scope : by_technique[scope[i].technique] = <<>>}
covered == {i \in DOMAIN scope : by_technique[scope[i].technique] # <<>>}

(* render_matrix: a line for every tactic and entry that lists it.         *)
\* Mutant: only the first entry's tactics are printed.
TacticsOfFirst == UNION {scope[i].tactics : i \in DOMAIN scope \cap {1}}

tactics == UNION {scope[i].tactics : i \in DOMAIN scope}

Line(tac, i) == [tactic |-> tac, entry |-> i, rules |-> by_technique[scope[i].technique]]

Lines == {Line(x[1], x[2]) : x \in {y \in tactics \X DOMAIN scope : y[1] \in scope[y[2]].tactics}}

Matrix == [covered |-> Cardinality(covered), scope |-> Len(scope), gaps |-> Cardinality(gaps),
           lines |-> Lines, outside |-> {t \in Techniques : out_of_scope[t] # <<>>}]

Render ==
    /\ pc = "tagging" /\ next \notin DOMAIN metas
    /\ matrix' = Matrix
    /\ pc' = "printed"
    /\ UNCHANGED <<file, edits, metas, scope, next, report>>

-----------------------------------------------------------------------------
Init ==
    /\ file \in Scopes \cup {Unreadable}
    /\ edits = 0
    /\ pc = "idle"
    /\ metas = <<>> /\ scope = <<>> /\ next = 1
    /\ by_technique = Nobody(Techniques)
    /\ by_tactic = Nobody(Tactics)
    /\ out_of_scope = Nobody(Techniques)
    /\ matrix = NoMatrix

\* Mutant: the lists of the last call are a module's, and stay.
Kept(who) == who

Emptied(who) == Nobody(DOMAIN who)

Resting == pc \in {"idle", "printed", "raised"}

(* cmd_coverage, or a consumer's call: the rules are at hand or refused.   *)
Load ==
    /\ Resting
    /\ \/ metas' \in RuleSets /\ pc' = "loaded"
       \/ metas' = <<>> /\ pc' = "raised"
    /\ scope' = <<>> /\ matrix' = NoMatrix /\ next' = 1
    /\ by_technique' = Emptied(by_technique)
    /\ by_tactic' = Emptied(by_tactic)
    /\ out_of_scope' = Emptied(out_of_scope)
    /\ UNCHANGED <<file, edits>>

Scope(sc) ==
    /\ pc = "loaded"
    /\ scope' = sc
    /\ pc' = "tagging"
    /\ UNCHANGED <<file, edits, metas, next, report, matrix>>

\* Mutant: without a scope file the call waits for one.
LoadScopePatient == file # Unreadable /\ Scope(file)

(* load_scope, the file of this moment.                                    *)
LoadScope ==
    \/ file # Unreadable /\ Scope(file)
    \/ /\ pc = "loaded" /\ file = Unreadable
       /\ pc' = "raised"
       /\ UNCHANGED <<file, edits, metas, scope, next, report, matrix>>

(* A scope the caller passes, also an empty one.                           *)
GivenScope == \E sc \in Scopes \cup {<<>>} : Scope(sc)

(* Outside: the file is written, removed or broken.                        *)
EditScope ==
    /\ edits < MaxEdits
    /\ file' \in (Scopes \cup {Unreadable}) \ {file}
    /\ edits' = edits + 1
    /\ UNCHANGED <<pc, metas, scope, next, report, matrix>>

Next == Load \/ LoadScope \/ GivenScope \/ CountRule \/ Render \/ EditScope

(* Once called, coverage runs on: nothing in it waits for anybody.         *)
Spec == Init /\ [][Next]_vars /\ WF_vars(LoadScope) /\ WF_vars(CountRule) /\ WF_vars(Render)

-----------------------------------------------------------------------------
(* The lists hold rule ids of loaded rules only, the numbers are of the    *)
(* scope, and nothing is printed before the end.                           *)
TypeOK ==
    /\ file \in Scopes \cup {Unreadable} /\ edits \in 0..MaxEdits
    /\ pc \in {"idle", "loaded", "tagging", "printed", "raised"}
    /\ metas \in RuleSets \cup {<<>>}
    /\ scope \in Scopes \cup {<<>>}
    /\ next \in 1..Len(metas) + 1
    /\ by_technique \in [Techniques -> Seq(Rules)]
    /\ by_tactic \in [Tactics -> Seq(Rules)]
    /\ out_of_scope \in [Techniques -> Seq(Rules)]
    /\ pc # "printed" => matrix = NoMatrix

\* What the rules say, without the lists.
Tagging(t) == {m \in Range(metas) : t \in Range(m.techniques)}
Filed(tac) == {m \in Range(metas) : tac \in Range(m.tactics)}
Ids(ms)    == {m.rule_id : m \in ms}

Printed == pc = "printed"

(* The gaps are the untagged entries, and with the covered ones they add   *)
(* up to the scope.                                                        *)
GapsAreUntagged ==
    Printed => /\ gaps = {i \in DOMAIN scope : Tagging(scope[i].technique) = {}}
               /\ matrix.gaps = Cardinality(gaps)
               /\ matrix.covered + matrix.gaps = matrix.scope

(* The lines marked GAP are the gaps of the header, once for each tactic   *)
(* of the entry: the two never come from different scopes or counts.       *)
GapLinesAreTheGaps ==
    Printed => {<<l.tactic, l.entry>> : l \in {x \in matrix.lines : x.rules = <<>>}}
                   = {x \in Tactics \X gaps : x[1] \in scope[x[2]].tactics}

(* The gaps of a finished report, in its numbers and on its lines marked   *)
(* GAP, are the entries of the scope that no loaded rule tags, and the     *)
(* covered ones are the others: no rule is left out of the count and none  *)
(* of an earlier report is left in it, whatever happens to the scope file  *)
(* once it is read.                                                        *)
GapsAgree == GapsAreUntagged /\ GapLinesAreTheGaps

(* Each list holds the rules that carry the tag.                           *)
ListsNameTheTaggers ==
    Printed =>
        /\ \A t \in Techniques : Range(by_technique[t]) = Ids(Tagging(t))
        /\ \A tac \in Tactics : Range(by_tactic[tac]) = Ids(Filed(tac))

(* Outside is what is tagged and not in the scope.                         *)
OutsideIsTheRest ==
    Printed =>
        /\ matrix.outside = {t \in Techniques : Tagging(t) # {}} \ in_scope
        /\ \A t \in matrix.outside : out_of_scope[t] = by_technique[t]

(* The lists of the JSON form name exactly the rules that carry the tag;   *)
(* and a technique stands outside the scope when a rule tags it and the    *)
(* scope has it not, with the same list of rules: never in both, never in  *)
(* none.                                                                   *)
ListsAgree == ListsNameTheTaggers /\ OutsideIsTheRest

\* A scope entry without tactics is printed nowhere.
NoLine(t) == \E i \in DOMAIN scope : scope[i].technique = t /\ scope[i].tactics = {}

(* Every loaded rule is seen in the matrix, on a line or in the list of    *)
(* what is outside the scope, if its technique's entry has a line at all.  *)
EveryRuleShown ==
    Printed => \A m \in Range(metas) : \A t \in Range(m.techniques) :
        \/ \E l \in matrix.lines : scope[l.entry].technique = t /\ m.rule_id \in Range(l.rules)
        \/ t \in matrix.outside
        \/ NoLine(t)

(* A report that was asked for is printed or refused.                      *)
ReportEnds == pc = "loaded" ~> pc \in {"printed", "raised"}
=============================================================================
