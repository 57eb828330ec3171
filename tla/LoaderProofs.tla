---------------------------- MODULE LoaderProofs ----------------------------
(***************************************************************************)
(* What a completed load promises for every directory, every content and   *)
(* every number of edits meanwhile.                                        *)
(***************************************************************************)
EXTENDS Loader, FiniteSetTheorems, TLAPS

\* Whatever is loaded was accepted under its own path; while files are read,
\* those left alone are loaded as they are or still to be read.
Covered(p) == disk[p] # Absent => [path |-> p, content |-> disk[p]] \in loaded

\* The loaded rules and the files to come are those of the steady files.
AsOnDisk ==
    /\ \A p \in steady \cap todo : disk[p] # Absent
    /\ \A r \in loaded : r.path \in steady => r.content = disk[r.path]

IInv ==
    /\ TypeOK
    /\ \A r \in loaded : load_rule(r.content, Stem[r.path]) = "accepted"
    /\ outcome = "reading" => \A p \in steady : p \in todo \/ Covered(p)
    /\ outcome = "reading" => AsOnDisk
    /\ outcome = "loaded" => LoadedCoversSteady /\ ~Duplicates(loaded)
    /\ RefusalHasCause

LEMMA InitIInv == Init => IInv
BY DEF Init, IInv, TypeOK, RefusalHasCause

LEMMA ListFilesIInv == IInv /\ ListFiles => IInv'
BY DEF IInv, TypeOK, ListFiles, Covered, AsOnDisk, RefusalHasCause

LEMMA ReadFileIInv ==
  ASSUME IInv, NEW p \in Paths, ReadFile(p)
  PROVE  IInv'
<1>1. outcome = "reading" /\ p \in todo /\ UNCHANGED <<disk, steady, edits>>
  BY DEF ReadFile
<1>2. CASE Read(p) = "accepted"
  <2>1. Accept(p)
    BY <1>2 DEF ReadFile
  <2>2. /\ disk[p] # Absent
        /\ load_rule(disk[p], Stem[p]) = "accepted"
    BY <1>2 DEF Read
  <2>3. /\ loaded' = loaded \cup {[path |-> p, content |-> disk[p]]}
        /\ todo' = todo \ {p}
        /\ outcome' = outcome
    BY <2>1 DEF Accept
  <2>4. disk[p] \in Contents
    BY <2>2 DEF IInv, TypeOK
  <2>5. TypeOK'
    BY <1>1, <2>3, <2>4 DEF IInv, TypeOK
  <2>6. \A r \in loaded' : load_rule(r.content, Stem[r.path]) = "accepted"
    BY <2>2, <2>3 DEF IInv
  <2>7. \A q \in steady' : q \in todo' \/ Covered(q)'
    BY <1>1, <2>3 DEF IInv, Covered
  <2>8. AsOnDisk'
    BY <1>1, <2>3 DEF IInv, AsOnDisk
  <2> QED
    BY <1>1, <2>3, <2>5, <2>6, <2>7, <2>8 DEF IInv, RefusalHasCause
<1>3. CASE Read(p) # "accepted"
  <2>1. /\ outcome' = Read(p)
        /\ loaded' = {} /\ todo' = {}
    BY <1>3 DEF ReadFile, Refuse
  <2>2. Read(p) \in {"other", "contract"}
    BY <1>3 DEF Read, load_rule
  <2>3. RefusalHasCause'
    <3> SUFFICES ASSUME steady = Paths
                 PROVE  p \in Present /\ load_rule(disk[p], Stem[p]) = Read(p)
      BY <1>1, <2>1, <2>2 DEF RefusalHasCause, Present
    <3>1. disk[p] # Absent
      BY <1>1 DEF IInv, AsOnDisk
    <3> QED
      BY <3>1 DEF Present, Read
  <2> QED
    BY <1>1, <2>1, <2>2, <2>3 DEF IInv, TypeOK
<1> QED
  BY <1>2, <1>3

LEMMA FinishIInv == IInv /\ Finish => IInv'
<1> SUFFICES ASSUME IInv, Finish PROVE IInv'
  OBVIOUS
<1>1. /\ outcome = "reading" /\ todo = {}
      /\ outcome' = Verdict(loaded)
      /\ loaded' = IF outcome' = "loaded" THEN loaded ELSE {}
      /\ UNCHANGED <<disk, todo, steady, edits>>
  BY DEF Finish
<1>2. \A p \in steady : Covered(p)
  BY <1>1 DEF IInv
<1>3. CASE outcome' = "loaded"
  <2>1. ~Duplicates(loaded)
    BY <1>1, <1>3 DEF Verdict
  <2> QED
    BY <1>1, <1>2, <1>3, <2>1
       DEF IInv, TypeOK, Covered, LoadedCoversSteady, Duplicates, RefusalHasCause
<1>4. CASE outcome' = "contract"
  <2>1. RefusalHasCause'
    <3> SUFFICES ASSUME steady = Paths, Present # {}
                 PROVE  \E p, q \in Present : p # q /\ Stem[p] = Stem[q]
      BY <1>1, <1>4 DEF RefusalHasCause, Present
    <3>1. loaded # {}
      BY <1>2 DEF Present, Covered
    <3>2. Duplicates(loaded)
      BY <1>1, <1>4, <3>1 DEF Verdict
    <3>3. PICK a, b \in loaded : a # b /\ Stem[a.path] = Stem[b.path]
      BY <3>2 DEF Duplicates
    <3>4. /\ a \in [path: Paths, content: Contents]
          /\ b \in [path: Paths, content: Contents]
          /\ a.content = disk[a.path] /\ b.content = disk[b.path]
      BY <1>1 DEF IInv, TypeOK, AsOnDisk
    <3>5. a.path \in Present /\ b.path \in Present
      BY <3>4, AbsentAssumption DEF Present
    <3>6. a.path # b.path
      BY <3>3, <3>4
    <3> QED
      BY <3>3, <3>5, <3>6
  <2> QED
    BY <1>1, <1>4, <2>1 DEF IInv, TypeOK
<1> QED
  BY <1>1, <1>3, <1>4 DEF Verdict

LEMMA EditIInv ==
  ASSUME IInv, NEW p \in Paths, Edit(p)
  PROVE  IInv'
<1>1. /\ outcome = "reading"
      /\ steady' = steady \ {p}
      /\ UNCHANGED <<todo, loaded, outcome>>
  BY DEF Edit
<1>2. PICK c \in Contents \cup {Absent} : disk' = [disk EXCEPT ![p] = c]
  BY DEF Edit
<1>3. TypeOK'
  BY <1>1, <1>2 DEF IInv, TypeOK
<1>4. \A q \in steady' : disk'[q] = disk[q]
  BY <1>1, <1>2 DEF IInv, TypeOK
<1>5. AsOnDisk'
  BY <1>1, <1>4 DEF IInv, AsOnDisk
<1> QED
  BY <1>1, <1>3, <1>4, <1>5 DEF IInv, Covered, RefusalHasCause

LEMMA NextIInv == IInv /\ [Next]_vars => IInv'
<1> SUFFICES ASSUME IInv, [Next]_vars PROVE IInv'
  OBVIOUS
<1>1. CASE ListFiles
  BY <1>1, ListFilesIInv
<1>2. ASSUME NEW p \in Paths, ReadFile(p) PROVE IInv'
  BY <1>2, ReadFileIInv
<1>3. ASSUME NEW p \in Paths, Edit(p) PROVE IInv'
  BY <1>3, EditIInv
<1>4. CASE Finish
  BY <1>4, FinishIInv
<1>5. CASE UNCHANGED vars
  BY <1>5 DEF vars, IInv, TypeOK, Covered, LoadedCoversSteady, Duplicates, AsOnDisk,
              RefusalHasCause, Present
<1> QED
  BY <1>1, <1>2, <1>3, <1>4, <1>5 DEF Next

(* A load in progress or completed keeps its books straight.               *)
THEOREM Invariance == Spec => []IInv
BY InitIInv, NextIInv, PTL DEF Spec

(* Only content that was on disk is loaded, and a failed load leaves none. *)
THEOREM TypeCorrect == Spec => []TypeOK
<1>1. IInv => TypeOK
  BY DEF IInv
<1> QED
  BY <1>1, Invariance, PTL

(* A completed load has every rule file that was left alone, as it was.    *)
THEOREM CoversSteady == Spec => []LoadedCoversSteady
<1>1. IInv => LoadedCoversSteady
  BY DEF IInv, LoadedCoversSteady
<1> QED
  BY <1>1, Invariance, PTL

\* An accepted rule's id is derived from its stem.
LEMMA AcceptedId ==
  ASSUME NEW c, NEW stem, load_rule(c, stem) = "accepted"
  PROVE  RuleDoc(c).id.of = stem
BY DEF load_rule, BadId

(* No two rules of a completed load share a Sigma id.                      *)
THEOREM IdsDistinct == Spec => []SigmaIdsDistinct
<1>1. IInv => SigmaIdsDistinct
  BY AcceptedId DEF IInv, SigmaIdsDistinct, Duplicates
<1> QED
  BY <1>1, Invariance, PTL

(* A load that fails over a directory nobody edits fails for a cause in it. *)
THEOREM RefusalCaused == Spec => []RefusalHasCause
<1>1. IInv => RefusalHasCause
  BY DEF IInv
<1> QED
  BY <1>1, Invariance, PTL

\* What load_rule lets through is one rule, with its conditions or muted by a
\* correlation.
LEMMA AcceptedQueries ==
  ASSUME NEW c \in Contents, NEW stem, load_rule(c, stem) = "accepted"
  PROVE  Queries(c) = IF HasCorrelation(c) THEN 1 ELSE c.conditions
<1>1. /\ Cardinality(OfKind(c, "rule")) = 1
      /\ ~(Cardinality(OfKind(c, "correlation")) > 1)
      /\ HasCorrelation(c) => ~c.generate
  BY DEF load_rule, BadShape, BadCorrelation
<1>2. IsFiniteSet(OfKind(c, "correlation"))
  <2>1. c.docs \in Seq(Doc)
    BY ContentsAssumption
  <2>2. DOMAIN c.docs = 1..Len(c.docs) /\ Len(c.docs) \in Nat
    BY <2>1
  <2>3. IsFiniteSet(1..Len(c.docs))
    BY <2>2, FS_Interval
  <2> QED
    BY <2>2, <2>3, FS_Subset DEF OfKind
<1>3. /\ Cardinality(OfKind(c, "correlation")) \in Nat
      /\ Cardinality(OfKind(c, "correlation")) = 0 <=> ~HasCorrelation(c)
  BY <1>2, FS_CardinalityType, FS_EmptySet DEF HasCorrelation
<1>4. CASE HasCorrelation(c)
  BY <1>1, <1>3, <1>4 DEF Queries
<1>5. CASE ~HasCorrelation(c)
  <2>1. c.conditions \in Nat
    BY ContentsAssumption
  <2> QED
    BY <1>1, <1>3, <1>5, <2>1 DEF Queries
<1> QED
  BY <1>4, <1>5

(* A loaded rule has one query, unless it is without a correlation and its *)
(* condition is a list.                                                    *)
THEOREM QueriesCounted == Spec => []OnlyListsSplit
<1>1. IInv => OnlyListsSplit
  <2> SUFFICES ASSUME IInv, NEW r \in loaded, Queries(r.content) # 1
               PROVE  ~HasCorrelation(r.content) /\ r.content.conditions > 1
    BY DEF OnlyListsSplit
  <2>1. r.content \in Contents /\ load_rule(r.content, Stem[r.path]) = "accepted"
    BY DEF IInv, TypeOK
  <2>2. Queries(r.content) = IF HasCorrelation(r.content) THEN 1 ELSE r.content.conditions
    BY <2>1, AcceptedQueries
  <2>3. r.content.conditions \in Nat \ {0}
    BY <2>1, ContentsAssumption
  <2> QED
    BY <2>2, <2>3
<1> QED
  BY <1>1, Invariance, PTL
=============================================================================
