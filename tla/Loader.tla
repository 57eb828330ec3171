------------------------------- MODULE Loader -------------------------------
(***************************************************************************)
(* loader.py: rule files on disk become loaded rules, all of them or none. *)
(* load_rules lists the files first and then reads one after the other,    *)
(* while an editor or a checkout may still be writing them.                *)
(*                                                                         *)
(* A file's content is a record of the facts the contract looks at.  A     *)
(* Sigma id is the stem it is the uuid5 of (uuid5 is taken as injective)   *)
(* and how it is written.                                                  *)
(***************************************************************************)
EXTENDS Integers, Sequences, FiniteSets

CONSTANTS
    Paths,      \* rule file paths
    Stem,       \* path |-> file stem, the rule id
    Contents,   \* what a rule file may contain
    Absent,     \* no such file
    Stray,      \* an id that is the uuid5 of no stem
    MaxEdits    \* bound: edits after load_rules began

Stems == {Stem[p] : p \in Paths}

-----------------------------------------------------------------------------
(* The facts.                                                              *)
Technique == "attack.t1078"
Tactic    == "attack.persistence"
Software  == "attack.s0002"
Other     == "cve.2026.1"

Ids == [of: Stems \cup {Stray}, form: {"hex", "hyphens"}]
NoId == [of |-> Stray, form |-> "missing"]

Doc == [kind: {"rule", "correlation"}, id: Ids \cup {NoId}]

Custom == [data_sources      : {"list", "null", "absent"},
           do_not_alert_when : {"text", "blank", "null", "absent"},
           detection_health  : {"ordered", "reversed", "absent"}]

Content == [parse       : {"ok", "raises", "errors"},  \* YAML and pySigma
            docs        : Seq(Doc),                    \* in file order
            conditions  : Nat \ {0},                   \* entries of detection.condition
            type        : {"event_count", "value_count", "temporal"},
            refs        : {"own", "several"},          \* what the correlation names
            generate    : BOOLEAN,
            group_by    : BOOLEAN,                     \* non-empty
            fields      : SUBSET {"status", "level", "date"},
            tags        : SUBSET {Technique, Tactic, Software, Other},
            custom      : Custom,
            positives   : BOOLEAN]                     \* falsepositives non-empty

ASSUME ContentsAssumption ==
    \A c \in Contents :
        /\ DOMAIN c = {"parse", "docs", "conditions", "type", "refs", "generate", "group_by",
                       "fields", "tags", "custom", "positives"}
        /\ c.docs \in Seq(Doc)
        /\ c.conditions \in Nat \ {0}
        /\ c.generate \in BOOLEAN
        /\ c.custom \in Custom

ASSUME AbsentAssumption == Absent \notin Contents

VARIABLES
    disk,       \* path |-> content
    todo,       \* files listed and not yet read
    loaded,     \* what load_rule returned so far
    outcome,    \* "idle", "reading", "loaded", "contract", "other"
    steady,     \* history: paths not edited since the listing
    edits

vars == <<disk, todo, loaded, outcome, steady, edits>>

-----------------------------------------------------------------------------
(* load_rule.                                                              *)
OfKind(c, kind) == {i \in DOMAIN c.docs : c.docs[i].kind = kind}

HasCorrelation(c) == OfKind(c, "correlation") # {}

RuleDoc(c) == c.docs[CHOOSE i \in OfKind(c, "rule") : TRUE]

\* _tags: whatever is in the attack namespace and no technique is a tactic.
techniques(c) == c.tags \cap {Technique}
tactics(c)    == c.tags \cap {Tactic, Software}

BadShape(c) ==
    \/ Cardinality(OfKind(c, "rule")) # 1
    \/ Cardinality(OfKind(c, "correlation")) > 1

\* Mutant: a correlation may leave its rule's own output on.
BadCorrelationButGenerate(c) ==
    HasCorrelation(c) /\ \/ c.type \notin {"event_count", "value_count"}
                         \/ c.refs # "own"
                         \/ ~c.group_by

BadCorrelation(c) ==
    HasCorrelation(c) /\ \/ c.type \notin {"event_count", "value_count"}
                         \/ c.refs # "own"
                         \/ c.generate
                         \/ ~c.group_by

\* The rule's id by value, and the first document's as it is written.
BadId(c, stem) ==
    \/ RuleDoc(c).id.of # stem
    \/ c.docs[1].id # [of |-> stem, form |-> "hex"]

BadMetadata(c) ==
    \/ c.fields # {"status", "level", "date"}
    \/ techniques(c) = {}
    \/ tactics(c) = {}
    \/ \E k \in DOMAIN c.custom : c.custom[k] = "absent"
    \/ c.custom.do_not_alert_when = "blank"       \* str(None) is not blank
    \/ ~c.positives

\* What building RuleMeta raises on: iterating over None, or pydantic.
BadMeta(c) == \/ c.custom.data_sources = "null"
              \/ c.custom.detection_health = "reversed"

load_rule(c, stem) ==
    IF c.parse = "raises" THEN "other"
    ELSE IF \/ BadShape(c) \/ BadCorrelation(c) \/ c.parse = "errors"
            \/ BadId(c, stem) \/ BadMetadata(c) THEN "contract"
    ELSE IF BadMeta(c) THEN "other" ELSE "accepted"

-----------------------------------------------------------------------------
Init ==
    /\ disk \in [Paths -> Contents \cup {Absent}]
    /\ todo = {}
    /\ loaded = {}
    /\ outcome = "idle"
    /\ steady = {}
    /\ edits = 0

(* rule_files: the paths of this moment.                                   *)
ListFiles ==
    /\ outcome = "idle"
    /\ todo' = {p \in Paths : disk[p] # Absent}
    /\ outcome' = "reading"
    /\ steady' = Paths
    /\ UNCHANGED <<disk, loaded, edits>>

\* Mutant: a file that vanished counts as loaded.
ReadLenient(p) == IF disk[p] = Absent THEN "accepted" ELSE load_rule(disk[p], Stem[p])

Read(p) == IF disk[p] = Absent THEN "other" ELSE load_rule(disk[p], Stem[p])

Accept(p) == /\ loaded' = loaded \cup {[path |-> p, content |-> disk[p]]}
             /\ todo' = todo \ {p}
             /\ UNCHANGED outcome

\* Mutant: a bad file is skipped.
Skip(p) == /\ todo' = todo \ {p}
           /\ UNCHANGED <<loaded, outcome>>

\* Mutant: whatever load_rule raises is reported as a broken contract.
RefuseAsContract(p) == /\ outcome' = "contract"
                       /\ loaded' = {}
                       /\ todo' = {}

Refuse(p) == /\ outcome' = Read(p)
             /\ loaded' = {}
             /\ todo' = {}

(* load_rule on the next file; the first refusal ends the load.  The order *)
(* of the sorted paths is any order here.                                  *)
ReadFile(p) ==
    /\ outcome = "reading" /\ p \in todo
    /\ IF Read(p) = "accepted" THEN Accept(p) ELSE Refuse(p)
    /\ UNCHANGED <<disk, steady, edits>>

Duplicates(rules) == \E a, b \in rules : a # b /\ Stem[a.path] = Stem[b.path]

\* Mutant: the duplicate check is left out.
VerdictUnchecked(rules) == IF rules = {} THEN "contract" ELSE "loaded"

Verdict(rules) == IF rules = {} \/ Duplicates(rules) THEN "contract" ELSE "loaded"

(* Every file read: duplicate stems and an empty directory are refused.    *)
Finish ==
    /\ outcome = "reading" /\ todo = {}
    /\ outcome' = Verdict(loaded)
    /\ loaded' = IF outcome' = "loaded" THEN loaded ELSE {}
    /\ UNCHANGED <<disk, todo, steady, edits>>

(* Outside, while the load runs: a file is written or removed.             *)
Edit(p) ==
    /\ outcome = "reading" /\ edits < MaxEdits
    /\ \E c \in Contents \cup {Absent} : disk' = [disk EXCEPT ![p] = c]
    /\ steady' = steady \ {p}
    /\ edits' = edits + 1
    /\ UNCHANGED <<todo, loaded, outcome>>

Next == \/ ListFiles
        \/ \E p \in Paths : ReadFile(p) \/ Edit(p)
        \/ Finish

Spec == Init /\ [][Next]_vars

-----------------------------------------------------------------------------
(* Only read content is loaded, and only a completed load leaves any.      *)
TypeOK ==
    /\ disk \in [Paths -> Contents \cup {Absent}]
    /\ todo \subseteq Paths /\ steady \subseteq Paths
    /\ loaded \subseteq [path: Paths, content: Contents]
    /\ outcome \in {"idle", "reading", "loaded", "contract", "other"}
    /\ outcome \notin {"reading", "loaded"} => loaded = {}

(* No two loaded rules carry the same Sigma id: the id is tied to the stem *)
(* file by file, and stems are compared only when every file is read.      *)
SigmaIdsDistinct ==
    outcome = "loaded" =>
        \A a, b \in loaded : a # b => RuleDoc(a.content).id.of # RuleDoc(b.content).id.of

(* Every rule that stayed put while the load ran is in it, as it was: a    *)
(* load that succeeds never leaves a rule out, whatever is edited beside.  *)
LoadedCoversSteady ==
    outcome = "loaded" =>
        \A p \in steady : disk[p] # Absent => [path |-> p, content |-> disk[p]] \in loaded

(* compile_rule raises for a rule that pySigma gives any number of queries *)
(* for but one (compile.py:106-108).  It gives one for the correlation and *)
(* one for each condition of a rule that puts out its own.  The loader     *)
(* leaves one cause of that RuntimeError: no correlation, and a list of    *)
(* conditions, which nothing in load_rule looks at.  That one query can be *)
(* had does not mean that no target refuses the rule: see Compile.         *)
Queries(c) ==
    LET muted == HasCorrelation(c) /\ ~c.generate
    IN  Cardinality(OfKind(c, "correlation"))
            + IF muted THEN 0 ELSE Cardinality(OfKind(c, "rule")) * c.conditions

OnlyListsSplit ==
    \A r \in loaded :
        Queries(r.content) # 1 => ~HasCorrelation(r.content) /\ r.content.conditions > 1

(* A load that fails while nothing is edited fails for a reason found in   *)
(* the directory: a broken contract is one file's, or a stem twice, or no  *)
(* file; any other exception is one that reading some file raises.  What   *)
(* was read of one file is never held against another.                     *)
Present == {p \in Paths : disk[p] # Absent}

RefusalHasCause ==
    steady = Paths =>
        /\ outcome = "contract" =>
               \/ Present = {}
               \/ \E p, q \in Present : p # q /\ Stem[p] = Stem[q]
               \/ \E p \in Present : load_rule(disk[p], Stem[p]) = "contract"
        /\ outcome = "other" =>
               \E p \in Present : load_rule(disk[p], Stem[p]) = "other"

=============================================================================
