--------------------------- MODULE CoverageProofs ---------------------------
(***************************************************************************)
(* What a printed report says of the loaded rules and the scope, for all   *)
(* rules, tags and scopes and however the scope file changes.              *)
(***************************************************************************)
EXTENDS Coverage, FiniteSetTheorems, TLAPS

Types ==
    /\ metas \in Seq(Meta) /\ scope \in Seq(Entry)
    /\ next \in 1..Len(metas) + 1
    /\ by_technique \in [Techniques -> Seq(Rules)]
    /\ by_tactic \in [Tactics -> Seq(Rules)]
    /\ out_of_scope \in [Techniques -> Seq(Rules)]

(* The list of a name holds the rules before the next one that carry it.   *)
Before(i) == i \in DOMAIN metas /\ i < next

NamesTechnique(t) ==
    Range(by_technique[t]) = {metas[i].rule_id : i \in {j \in DOMAIN metas :
        Before(j) /\ t \in Range(metas[j].techniques)}}

NamesTactic(tac) ==
    Range(by_tactic[tac]) = {metas[i].rule_id : i \in {j \in DOMAIN metas :
        Before(j) /\ tac \in Range(metas[j].tactics)}}

SplitByScope(t) == out_of_scope[t] = IF t \in in_scope THEN <<>> ELSE by_technique[t]

Counted ==
    /\ \A t \in Techniques : NamesTechnique(t) /\ SplitByScope(t)
    /\ \A tac \in Tactics : NamesTactic(tac)

IInv ==
    /\ TypeOK
    /\ Types
    /\ pc \in {"loaded", "tagging", "printed"} => Counted
    /\ pc = "loaded" => next = 1 /\ scope = <<>>
    /\ pc = "printed" => next \notin DOMAIN metas /\ matrix = Matrix

-----------------------------------------------------------------------------
(* Lists.                                                                  *)
LEMMA RangeOfConcatenation ==
  ASSUME NEW S, NEW s \in Seq(S), NEW u \in Seq(S)
  PROVE  s \o u \in Seq(S) /\ Range(s \o u) = Range(s) \cup Range(u)
<1>1. /\ s \o u \in Seq(S) /\ Len(s \o u) = Len(s) + Len(u)
      /\ \A i \in 1..Len(s) : (s \o u)[i] = s[i]
      /\ \A i \in 1..Len(u) : (s \o u)[Len(s) + i] = u[i]
  OBVIOUS
<1>2. ASSUME NEW i \in 1..Len(s \o u) PROVE (s \o u)[i] \in Range(s) \cup Range(u)
  <2>1. CASE i <= Len(s)
    BY <1>1, <2>1 DEF Range
  <2>2. CASE i > Len(s)
    <3>1. i - Len(s) \in 1..Len(u) /\ i = Len(s) + (i - Len(s))
      BY <1>1, <2>2
    <3>2. (s \o u)[i] = u[i - Len(s)]
      BY <1>1, <3>1
    <3> QED
      BY <3>1, <3>2 DEF Range
  <2> QED
    BY <1>1, <2>1, <2>2
<1>3. ASSUME NEW i \in 1..Len(s) PROVE s[i] \in Range(s \o u)
  BY <1>1 DEF Range
<1>4. ASSUME NEW i \in 1..Len(u) PROVE u[i] \in Range(s \o u)
  <2>1. Len(s) + i \in 1..Len(s \o u)
    BY <1>1
  <2> QED
    BY <1>1, <2>1 DEF Range
<1>5. /\ DOMAIN s = 1..Len(s) /\ DOMAIN u = 1..Len(u)
      /\ DOMAIN (s \o u) = 1..Len(s \o u)
  BY <1>1
<1>6. Range(s \o u) \subseteq Range(s) \cup Range(u)
  BY <1>2, <1>5 DEF Range
<1>7. Range(s) \subseteq Range(s \o u) /\ Range(u) \subseteq Range(s \o u)
  BY <1>3, <1>4, <1>5 DEF Range
<1> QED
  BY <1>1, <1>6, <1>7

LEMMA EmptyRange ==
  ASSUME NEW S, NEW s \in Seq(S)
  PROVE  s = <<>> <=> Range(s) = {}
<1>1. CASE s = <<>>
  BY <1>1 DEF Range
<1>2. CASE s # <<>>
  <2>1. 1 \in DOMAIN s
    BY <1>2
  <2> QED
    BY <1>2, <2>1 DEF Range
<1> QED
  BY <1>1, <1>2

LEMMA TimesCounts ==
  ASSUME NEW S, NEW s \in Seq(S), NEW x
  PROVE  Times(x, s) \in Nat /\ (Times(x, s) = 0 <=> x \notin Range(s))
<1> DEFINE at == {i \in DOMAIN s : s[i] = x}
<1>1. IsFiniteSet(at)
  <2>1. DOMAIN s = 1..Len(s) /\ Len(s) \in Nat
    OBVIOUS
  <2>2. IsFiniteSet(1..Len(s))
    BY <2>1, FS_Interval
  <2> QED
    BY <2>1, <2>2, FS_Subset
<1>2. Cardinality(at) \in Nat /\ (Cardinality(at) = 0 <=> at = {})
  BY <1>1, FS_CardinalityType, FS_EmptySet
<1> QED
  BY <1>2 DEF Times, Range

\* Appending a rule for its tags adds it to the list of each of them.
LEMMA AgainNames ==
  ASSUME NEW S, NEW names \in Seq(S), NEW m, m.rule_id \in Rules, NEW n
  PROVE  /\ Again(n, m, names) \in Seq(Rules)
         /\ Range(Again(n, m, names)) = {r \in {m.rule_id} : n \in Range(names)}
<1> DEFINE k == Times(n, names)
<1>1. k \in Nat /\ (k = 0 <=> n \notin Range(names))
  BY TimesCounts
<1> HIDE DEF k
<1>2. Again(n, m, names) = [i \in 1..k |-> m.rule_id]
  BY DEF Again, k
<1>3. DOMAIN Again(n, m, names) = 1..k /\ Again(n, m, names) \in Seq(Rules)
  BY <1>1, <1>2
<1>4. CASE k = 0
  BY <1>1, <1>2, <1>4 DEF Range
<1>5. CASE k # 0
  <2>1. 1 \in 1..k
    BY <1>1, <1>5
  <2> QED
    BY <1>1, <1>2, <2>1, <1>5 DEF Range
<1> QED
  BY <1>1, <1>3, <1>4, <1>5

-----------------------------------------------------------------------------
LEMMA InitIInv == Init => IInv
<1> SUFFICES ASSUME Init PROVE IInv
  OBVIOUS
<1>1. <<>> \in Seq(Meta) /\ <<>> \in Seq(Entry) /\ <<>> \in Seq(Rules) /\ Len(<<>>) = 0
  OBVIOUS
<1>2. Types
  BY <1>1 DEF Init, Types, Nobody
<1>3. TypeOK
  BY <1>1, <1>2, InputsAssumption DEF Init, Types, TypeOK
<1> QED
  BY <1>2, <1>3 DEF Init, IInv

LEMMA LoadIInv == IInv /\ Load => IInv'
<1> SUFFICES ASSUME IInv, Load PROVE IInv'
  OBVIOUS
<1>1. <<>> \in Seq(Meta) /\ <<>> \in Seq(Entry) /\ <<>> \in Seq(Rules) /\ Range(<<>>) = {}
  BY DEF Range
<1>2. /\ by_technique' = Nobody(Techniques) /\ by_tactic' = Nobody(Tactics)
      /\ out_of_scope' = Nobody(Techniques)
      /\ scope' = <<>> /\ matrix' = NoMatrix /\ next' = 1
      /\ pc' \in {"loaded", "raised"}
      /\ metas' \in RuleSets \cup {<<>>}
      /\ UNCHANGED <<file, edits>>
  BY DEF Load, Emptied, IInv, Types
<1>3. metas' \in Seq(Meta)
  BY <1>1, <1>2, InputsAssumption
<1>4. Types'
  <2>1. next' \in 1..Len(metas') + 1
    BY <1>2, <1>3
  <2> QED
    BY <1>1, <1>2, <1>3, <2>1 DEF Types, Nobody
<1>5. TypeOK'
  BY <1>2, <1>4 DEF IInv, TypeOK, Types
<1>6. Counted'
  <2>1. \A i \in DOMAIN metas' : ~(i < next')
    BY <1>2, <1>3
  <2>2. \A i : ~Before(i)'
    BY <2>1 DEF Before
  <2>3. ASSUME NEW t \in Techniques PROVE NamesTechnique(t)' /\ SplitByScope(t)'
    BY <1>1, <1>2, <2>2, <2>3 DEF NamesTechnique, SplitByScope, Nobody
  <2>4. ASSUME NEW tac \in Tactics PROVE NamesTactic(tac)'
    BY <1>1, <1>2, <2>2, <2>4 DEF NamesTactic, Nobody
  <2> QED
    BY <2>3, <2>4 DEF Counted
<1> QED
  BY <1>2, <1>4, <1>5, <1>6 DEF IInv

\* Where the scope comes from does not matter: nothing is counted yet.
LEMMA ScopeIInv ==
  ASSUME IInv, NEW sc \in Scopes \cup {<<>>}, Scope(sc)
  PROVE  IInv'
<1>1. /\ pc = "loaded" /\ scope' = sc /\ pc' = "tagging" /\ next = 1
      /\ UNCHANGED <<file, edits, metas, next, matrix, by_technique, by_tactic, out_of_scope>>
  BY DEF Scope, report, IInv
<1>2. sc \in Seq(Entry)
  <2>1. <<>> \in Seq(Entry)
    OBVIOUS
  <2> QED
    BY <2>1, InputsAssumption
<1>3. Types'
  BY <1>1, <1>2 DEF IInv, Types
<1>4. TypeOK'
  BY <1>1 DEF IInv, TypeOK
<1>5. \A i : ~Before(i)
  BY <1>1 DEF IInv, Types, Before
<1>6. ASSUME NEW t \in Techniques
      PROVE  by_technique[t] = <<>> /\ out_of_scope[t] = <<>>
  <2>1. Range(by_technique[t]) = {}
    BY <1>1, <1>5 DEF IInv, Counted, NamesTechnique
  <2>2. by_technique[t] = <<>>
    BY <2>1, EmptyRange DEF IInv, Types
  <2> QED
    BY <1>1, <2>2 DEF IInv, Counted, SplitByScope
<1>7. Counted'
  <2>1. \A t \in Techniques : NamesTechnique(t)'
    BY <1>1 DEF IInv, Counted, NamesTechnique, Before
  <2>2. \A tac \in Tactics : NamesTactic(tac)'
    BY <1>1 DEF IInv, Counted, NamesTactic, Before
  <2>3. \A t \in Techniques : SplitByScope(t)'
    BY <1>1, <1>6 DEF SplitByScope
  <2> QED
    BY <2>1, <2>2, <2>3 DEF Counted
<1> QED
  BY <1>1, <1>3, <1>4, <1>7 DEF IInv

LEMMA CountIInv == IInv /\ CountRule => IInv'
<1> SUFFICES ASSUME IInv, CountRule PROVE IInv'
  OBVIOUS
<1> DEFINE m == metas[next]
<1>1. /\ pc = "tagging" /\ next \in DOMAIN metas
      /\ by_technique' = Named(by_technique, m, m.techniques)
      /\ by_tactic' = Named(by_tactic, m, m.tactics)
      /\ out_of_scope' = [t \in Techniques |-> IF t \in in_scope THEN out_of_scope[t]
                              ELSE out_of_scope[t] \o Again(t, m, m.techniques)]
      /\ next' = next + 1
      /\ UNCHANGED <<file, edits, pc, metas, scope, matrix>>
      /\ Types /\ Counted
  BY DEF CountRule, TacticsOf, Outside, IInv
<1>2. /\ m \in Meta /\ m.rule_id \in Rules
      /\ m.techniques \in Seq(Techniques) /\ m.tactics \in Seq(Tactics)
      /\ next + 1 \in 1..Len(metas) + 1 /\ next \in Nat
      /\ DOMAIN metas = 1..Len(metas)
  <2>1. /\ metas \in Seq(Meta) /\ next \in 1..Len(metas) + 1
        /\ Len(metas) \in Nat /\ DOMAIN metas = 1..Len(metas) /\ next \in 1..Len(metas)
    BY <1>1 DEF Types
  <2>2. m \in Meta
    BY <2>1
  <2> HIDE DEF m
  <2>3. m.rule_id \in Rules /\ m.techniques \in Seq(Techniques) /\ m.tactics \in Seq(Tactics)
    BY <2>2 DEF Meta
  <2> QED
    BY <2>1, <2>2, <2>3
<1> HIDE DEF m
<1>3. ASSUME NEW t \in Techniques
      PROVE  /\ by_technique'[t] = by_technique[t] \o Again(t, m, m.techniques)
             /\ by_technique'[t] \in Seq(Rules)
             /\ Range(by_technique'[t]) = Range(by_technique[t])
                    \cup {r \in {m.rule_id} : t \in Range(m.techniques)}
  <2>1. by_technique[t] \in Seq(Rules)
    BY <1>1 DEF Types
  <2>2. by_technique'[t] = by_technique[t] \o Again(t, m, m.techniques)
    BY <1>1 DEF Named, Types
  <2> QED
    BY <1>2, <2>1, <2>2, AgainNames, RangeOfConcatenation
<1>4. ASSUME NEW tac \in Tactics
      PROVE  /\ by_tactic'[tac] \in Seq(Rules)
             /\ Range(by_tactic'[tac]) = Range(by_tactic[tac])
                    \cup {r \in {m.rule_id} : tac \in Range(m.tactics)}
  <2>1. by_tactic[tac] \in Seq(Rules)
    BY <1>1 DEF Types
  <2>2. by_tactic'[tac] = by_tactic[tac] \o Again(tac, m, m.tactics)
    BY <1>1 DEF Named, Types
  <2> QED
    BY <1>2, <2>1, <2>2, AgainNames, RangeOfConcatenation
<1>5. in_scope' = in_scope
  BY <1>1 DEF in_scope
<1>6. ASSUME NEW t \in Techniques
      PROVE  out_of_scope'[t] \in Seq(Rules) /\ SplitByScope(t)'
  <2>1. out_of_scope'[t] = IF t \in in_scope THEN out_of_scope[t]
                           ELSE out_of_scope[t] \o Again(t, m, m.techniques)
    BY <1>1
  <2>2. out_of_scope[t] = IF t \in in_scope THEN <<>> ELSE by_technique[t]
    BY <1>1 DEF Counted, SplitByScope
  <2>3. out_of_scope'[t] = IF t \in in_scope THEN <<>> ELSE by_technique'[t]
    BY <1>3, <2>1, <2>2
  <2>4. <<>> \in Seq(Rules)
    OBVIOUS
  <2> QED
    BY <1>3, <1>5, <2>3, <2>4 DEF SplitByScope
<1>7. /\ by_technique' \in [Techniques -> Seq(Rules)]
      /\ by_tactic' \in [Tactics -> Seq(Rules)]
      /\ out_of_scope' \in [Techniques -> Seq(Rules)]
  <2>1. /\ by_technique' = [t \in Techniques |-> by_technique'[t]]
        /\ by_tactic' = [tac \in Tactics |-> by_tactic'[tac]]
        /\ out_of_scope' = [t \in Techniques |-> out_of_scope'[t]]
    BY <1>1 DEF Named, Types
  <2> QED
    BY <1>3, <1>4, <1>6, <2>1
<1>8. Types'
  BY <1>1, <1>2, <1>7 DEF Types
<1>9. TypeOK'
  BY <1>1, <1>2, <1>8 DEF IInv, TypeOK, Types
<1>10. \A i : Before(i)' <=> Before(i) \/ i = next
  BY <1>1, <1>2 DEF Before
<1>11. ASSUME NEW t \in Techniques PROVE NamesTechnique(t)'
  <2>1. Range(by_technique[t]) = {metas[i].rule_id : i \in {j \in DOMAIN metas :
            Before(j) /\ t \in Range(metas[j].techniques)}}
    BY <1>1 DEF Counted, NamesTechnique
  <2>2. metas' = metas
    BY <1>1
  <2>3. Range(by_technique'[t]) = {metas[i].rule_id : i \in {j \in DOMAIN metas :
            (Before(j) \/ j = next) /\ t \in Range(metas[j].techniques)}}
    BY <1>1, <1>3, <2>1 DEF m
  <2> QED
    BY <1>10, <2>2, <2>3 DEF NamesTechnique
<1>12. ASSUME NEW tac \in Tactics PROVE NamesTactic(tac)'
  <2>1. Range(by_tactic[tac]) = {metas[i].rule_id : i \in {j \in DOMAIN metas :
            Before(j) /\ tac \in Range(metas[j].tactics)}}
    BY <1>1 DEF Counted, NamesTactic
  <2>2. metas' = metas
    BY <1>1
  <2>3. Range(by_tactic'[tac]) = {metas[i].rule_id : i \in {j \in DOMAIN metas :
            (Before(j) \/ j = next) /\ tac \in Range(metas[j].tactics)}}
    BY <1>1, <1>4, <2>1 DEF m
  <2> QED
    BY <1>10, <2>2, <2>3 DEF NamesTactic
<1>13. Counted'
  BY <1>6, <1>11, <1>12 DEF Counted
<1> QED
  BY <1>1, <1>8, <1>9, <1>13 DEF IInv

LEMMA RenderIInv == IInv /\ Render => IInv'
<1> SUFFICES ASSUME IInv, Render PROVE IInv'
  OBVIOUS
<1>1. /\ pc = "tagging" /\ next \notin DOMAIN metas /\ matrix' = Matrix /\ pc' = "printed"
      /\ UNCHANGED <<file, edits, metas, scope, next, by_technique, by_tactic, out_of_scope>>
  BY DEF Render, report
<1>2. Matrix' = Matrix
  BY <1>1 DEF Matrix, covered, gaps, Lines, Line, tactics
<1>3. Types' /\ TypeOK'
  BY <1>1 DEF IInv, Types, TypeOK
<1>4. Counted'
  BY <1>1 DEF IInv, Counted, NamesTechnique, NamesTactic, SplitByScope, Before, in_scope
<1> QED
  BY <1>1, <1>2, <1>3, <1>4 DEF IInv

\* The report is not the file's: an edit leaves it, as does a failed read.
LEMMA Aside ==
  ASSUME IInv, UNCHANGED <<metas, scope, next, report, matrix>>,
         file' \in Scopes \cup {Unreadable}, edits' \in 0..MaxEdits,
         pc' = pc \/ (pc = "loaded" /\ pc' = "raised")
  PROVE  IInv'
<1>1. UNCHANGED <<by_technique, by_tactic, out_of_scope>>
  BY DEF report
<1>2. Types' /\ TypeOK'
  BY <1>1 DEF IInv, Types, TypeOK
<1>3. Counted => Counted'
  BY <1>1 DEF Counted, NamesTechnique, NamesTactic, SplitByScope, Before, in_scope
<1>4. Matrix' = Matrix
  BY <1>1 DEF Matrix, covered, gaps, Lines, Line, tactics
<1> QED
  BY <1>2, <1>3, <1>4 DEF IInv

LEMMA NextIInv == IInv /\ [Next]_vars => IInv'
<1> SUFFICES ASSUME IInv, [Next]_vars PROVE IInv'
  OBVIOUS
<1>1. file \in Scopes \cup {Unreadable} /\ edits \in 0..MaxEdits
  BY DEF IInv, TypeOK
<1>2. CASE Load
  BY <1>2, LoadIInv
<1>3. CASE LoadScope
  <2>1. CASE file # Unreadable /\ Scope(file)
    BY <1>1, <2>1, ScopeIInv
  <2>2. CASE file = Unreadable
    BY <1>1, <1>3, <2>2, Aside DEF LoadScope
  <2> QED
    BY <1>3, <2>1, <2>2 DEF LoadScope
<1>4. CASE GivenScope
  BY <1>4, ScopeIInv DEF GivenScope
<1>5. CASE CountRule
  BY <1>5, CountIInv
<1>6. CASE Render
  BY <1>6, RenderIInv
<1>7. CASE EditScope
  <2>1. edits' \in 0..MaxEdits
    BY <1>1, <1>7, InputsAssumption DEF EditScope
  <2> QED
    BY <1>7, <2>1, Aside DEF EditScope
<1>8. CASE UNCHANGED vars
  BY <1>1, <1>8, Aside DEF vars
<1> QED
  BY <1>2, <1>3, <1>4, <1>5, <1>6, <1>7, <1>8 DEF Next

(* The loop over the rules keeps the lists to the rules it has passed.     *)
THEOREM Invariance == Spec => []IInv
BY InitIInv, NextIInv, PTL DEF Spec

-----------------------------------------------------------------------------
(* Types; nothing is printed before the report is made.                    *)
THEOREM TypeCorrect == Spec => []TypeOK
<1>1. IInv => TypeOK
  BY DEF IInv
<1> QED
  BY <1>1, Invariance, PTL

\* In a printed report every rule is behind.
LEMMA AllBefore ==
  ASSUME IInv, Printed
  PROVE  /\ \A i : Before(i) <=> i \in DOMAIN metas
         /\ \A t \in Techniques : Range(by_technique[t]) = Ids(Tagging(t))
         /\ \A tac \in Tactics : Range(by_tactic[tac]) = Ids(Filed(tac))
<1>1. /\ pc = "printed" /\ next \notin DOMAIN metas /\ Counted /\ Types
  BY DEF IInv, Printed
<1>2. \A i : Before(i) <=> i \in DOMAIN metas
  <2>1. /\ DOMAIN metas = 1..Len(metas) /\ Len(metas) \in Nat
        /\ next \in 1..Len(metas) + 1
    BY <1>1 DEF Types
  <2>2. next = Len(metas) + 1
    BY <1>1, <2>1
  <2> QED
    BY <2>1, <2>2 DEF Before
<1>3. ASSUME NEW t \in Techniques PROVE Range(by_technique[t]) = Ids(Tagging(t))
  <2>1. Range(by_technique[t]) = {metas[i].rule_id : i \in {j \in DOMAIN metas :
            t \in Range(metas[j].techniques)}}
    BY <1>1, <1>2 DEF Counted, NamesTechnique
  <2>2. /\ \A m \in Tagging(t) : \E i \in DOMAIN metas :
                m = metas[i] /\ t \in Range(metas[i].techniques)
        /\ \A i \in DOMAIN metas :
                t \in Range(metas[i].techniques) => metas[i] \in Tagging(t)
    BY DEF Tagging, Range
  <2>3. \A r : r \in Ids(Tagging(t)) <=>
               \E i \in DOMAIN metas : t \in Range(metas[i].techniques) /\ r = metas[i].rule_id
    BY <2>2 DEF Ids
  <2> QED
    BY <2>1, <2>3
<1>4. ASSUME NEW tac \in Tactics PROVE Range(by_tactic[tac]) = Ids(Filed(tac))
  <2>1. Range(by_tactic[tac]) = {metas[i].rule_id : i \in {j \in DOMAIN metas :
            tac \in Range(metas[j].tactics)}}
    BY <1>1, <1>2 DEF Counted, NamesTactic
  <2>2. /\ \A m \in Filed(tac) : \E i \in DOMAIN metas :
                m = metas[i] /\ tac \in Range(metas[i].tactics)
        /\ \A i \in DOMAIN metas :
                tac \in Range(metas[i].tactics) => metas[i] \in Filed(tac)
    BY DEF Filed, Range
  <2>3. \A r : r \in Ids(Filed(tac)) <=>
               \E i \in DOMAIN metas : tac \in Range(metas[i].tactics) /\ r = metas[i].rule_id
    BY <2>2 DEF Ids
  <2> QED
    BY <2>1, <2>3
<1> QED
  BY <1>2, <1>3, <1>4

LEMMA EmptyWhenUntagged ==
  ASSUME IInv, Printed, NEW t \in Techniques
  PROVE  by_technique[t] = <<>> <=> Tagging(t) = {}
<1>1. by_technique[t] \in Seq(Rules)
  BY DEF IInv, Types
<1>2. by_technique[t] = <<>> <=> Ids(Tagging(t)) = {}
  BY <1>1, EmptyRange, AllBefore
<1> QED
  BY <1>2 DEF Ids

LEMMA ScopeEntries ==
  ASSUME IInv, NEW i \in DOMAIN scope
  PROVE  scope[i].technique \in Techniques /\ scope[i].tactics \subseteq Tactics
<1>1. scope[i] \in Entry
  BY DEF IInv, Types
<1> QED
  BY <1>1 DEF Entry

LEMMA ScopeSplits ==
  ASSUME IInv
  PROVE  Cardinality(covered) + Cardinality(gaps) = Len(scope)
<1>1. DOMAIN scope = 1..Len(scope) /\ Len(scope) \in Nat
  BY DEF IInv, Types
<1>2. IsFiniteSet(DOMAIN scope) /\ Cardinality(DOMAIN scope) = Len(scope)
  <2>1. ASSUME NEW n \in Nat PROVE IsFiniteSet(1..n) /\ Cardinality(1..n) = n
    <3>1. /\ IsFiniteSet(1..n)
          /\ Cardinality(1..n) = IF 1 > n THEN 0 ELSE n - 1 + 1
      BY FS_Interval
    <3> QED
      BY <3>1
  <2> QED
    BY <1>1, <2>1
<1>3. /\ covered \cup gaps = DOMAIN scope /\ covered \cap gaps = {}
      /\ covered \subseteq DOMAIN scope /\ gaps \subseteq DOMAIN scope
  BY DEF covered, gaps
<1>4. IsFiniteSet(covered) /\ IsFiniteSet(gaps)
  BY <1>2, <1>3, FS_Subset
<1>5. /\ Cardinality(covered \cup gaps)
           = Cardinality(covered) + Cardinality(gaps) - Cardinality(covered \cap gaps)
      /\ Cardinality(covered) \in Nat /\ Cardinality(gaps) \in Nat
  BY <1>4, FS_Union, FS_CardinalityType
<1>6. Cardinality(covered \cap gaps) = 0
  BY <1>3, FS_EmptySet
<1> QED
  BY <1>2, <1>3, <1>5, <1>6

(* The gaps of a printed report are the scope's entries no rule tags.      *)
THEOREM GapsCorrect == Spec => []GapsAreUntagged
<1>1. IInv => GapsAreUntagged
  <2> SUFFICES ASSUME IInv, Printed
               PROVE  /\ gaps = {i \in DOMAIN scope : Tagging(scope[i].technique) = {}}
                      /\ matrix.gaps = Cardinality(gaps)
                      /\ matrix.covered + matrix.gaps = matrix.scope
    BY DEF GapsAreUntagged
  <2>1. gaps = {i \in DOMAIN scope : Tagging(scope[i].technique) = {}}
    BY EmptyWhenUntagged, ScopeEntries DEF gaps
  <2>2. /\ matrix.gaps = Cardinality(gaps) /\ matrix.covered = Cardinality(covered)
        /\ matrix.scope = Len(scope)
    BY DEF IInv, Printed, Matrix
  <2> QED
    BY <2>1, <2>2, ScopeSplits
<1> QED
  BY <1>1, Invariance, PTL

(* The lists by technique and by tactic name exactly the tagging rules.    *)
THEOREM ListsCorrect == Spec => []ListsNameTheTaggers
<1>1. IInv => ListsNameTheTaggers
  BY AllBefore DEF ListsNameTheTaggers
<1> QED
  BY <1>1, Invariance, PTL

LEMMA OutsideSplit == IInv => OutsideIsTheRest
<1> SUFFICES ASSUME IInv, Printed
             PROVE  /\ matrix.outside = {t \in Techniques : Tagging(t) # {}} \ in_scope
                    /\ \A t \in matrix.outside : out_of_scope[t] = by_technique[t]
  BY DEF OutsideIsTheRest
<1>1. matrix.outside = {t \in Techniques : out_of_scope[t] # <<>>}
  BY DEF IInv, Printed, Matrix
<1>2. \A t \in Techniques :
        out_of_scope[t] = IF t \in in_scope THEN <<>> ELSE by_technique[t]
  BY DEF IInv, Printed, Counted, SplitByScope
<1> QED
  BY <1>1, <1>2, EmptyWhenUntagged

(* Tagged techniques are in the scope or listed as outside, never both.    *)
THEOREM OutsideCorrect == Spec => []OutsideIsTheRest
BY OutsideSplit, Invariance, PTL

\* A line is printed for each tactic of each entry.
LEMMA LinesOfEntries ==
  ASSUME IInv, Printed
  PROVE  /\ \A l \in matrix.lines : /\ l.entry \in DOMAIN scope
                                    /\ l.tactic \in scope[l.entry].tactics
                                    /\ l.rules = by_technique[scope[l.entry].technique]
         /\ \A i \in DOMAIN scope : \A tac \in scope[i].tactics :
                Line(tac, i) \in matrix.lines
<1>1. matrix.lines = Lines
  BY DEF IInv, Printed, Matrix
<1>2. \A i \in DOMAIN scope : \A tac \in scope[i].tactics : tac \in tactics
  BY DEF tactics
<1>3. ASSUME NEW l \in Lines
      PROVE  /\ l.entry \in DOMAIN scope /\ l.tactic \in scope[l.entry].tactics
             /\ l.rules = by_technique[scope[l.entry].technique]
  <2>1. PICK y \in tactics \X DOMAIN scope :
               y[1] \in scope[y[2]].tactics /\ l = Line(y[1], y[2])
    BY DEF Lines
  <2> QED
    BY <2>1 DEF Line
<1>4. ASSUME NEW i \in DOMAIN scope, NEW tac \in scope[i].tactics
      PROVE  Line(tac, i) \in Lines
  <2>1. <<tac, i>> \in tactics \X DOMAIN scope
    BY <1>2
  <2> QED
    BY <2>1 DEF Lines
<1> QED
  BY <1>1, <1>3, <1>4

(* Every loaded rule is in the matrix, unless its entries have no tactic.  *)
THEOREM ShownCorrect == Spec => []EveryRuleShown
<1>1. IInv => EveryRuleShown
  <2> SUFFICES ASSUME IInv, Printed, NEW m \in Range(metas), NEW t \in Range(m.techniques),
                      t \notin matrix.outside, ~NoLine(t)
               PROVE  \E l \in matrix.lines : /\ scope[l.entry].technique = t
                                              /\ m.rule_id \in Range(l.rules)
    BY DEF EveryRuleShown
  <2>1. t \in Techniques
    <3>1. m \in Meta
      BY DEF IInv, Types, Range
    <3> QED
      BY <3>1 DEF Meta, Range
  <2>2. m \in Tagging(t)
    BY DEF Tagging
  <2>3. t \in in_scope
    BY <2>1, <2>2, OutsideSplit DEF OutsideIsTheRest
  <2>4. PICK i \in DOMAIN scope : t = scope[i].technique
    BY <2>3 DEF in_scope
  <2>5. PICK tac \in scope[i].tactics : TRUE
    BY <2>4 DEF NoLine
  <2>6. Line(tac, i) \in matrix.lines
    BY <2>5, LinesOfEntries
  <2>7. m.rule_id \in Range(by_technique[t])
    BY <2>1, <2>2, AllBefore DEF Ids
  <2>8. Line(tac, i).entry = i /\ Line(tac, i).rules = by_technique[t]
    BY <2>4 DEF Line
  <2> QED
    BY <2>4, <2>6, <2>7, <2>8
<1> QED
  BY <1>1, Invariance, PTL

(* The lines marked GAP are those of the gaps in the header.               *)
THEOREM GapLinesCorrect == Spec => []GapLinesAreTheGaps
<1>1. IInv => GapLinesAreTheGaps
  <2> SUFFICES ASSUME IInv, Printed
               PROVE  {<<l.tactic, l.entry>> : l \in {x \in matrix.lines : x.rules = <<>>}}
                        = {x \in Tactics \X gaps : x[1] \in scope[x[2]].tactics}
    BY DEF GapLinesAreTheGaps
  <2>1. ASSUME NEW l \in matrix.lines, l.rules = <<>>
        PROVE  /\ <<l.tactic, l.entry>> \in Tactics \X gaps
               /\ l.tactic \in scope[l.entry].tactics
    BY <2>1, LinesOfEntries, ScopeEntries DEF gaps
  <2>2. ASSUME NEW tac \in Tactics, NEW i \in gaps, tac \in scope[i].tactics
        PROVE  /\ Line(tac, i) \in matrix.lines /\ Line(tac, i).rules = <<>>
               /\ Line(tac, i).tactic = tac /\ Line(tac, i).entry = i
    BY <2>2, LinesOfEntries DEF gaps, Line
  <2> QED
    BY <2>1, <2>2
<1> QED
  BY <1>1, Invariance, PTL

(* Numbers and lines of a printed report speak of the same gaps.           *)
THEOREM GapsAgreeCorrect == Spec => []GapsAgree
BY GapsCorrect, GapLinesCorrect, PTL DEF GapsAgree

(* The lists name the tagging rules, in the scope or outside of it.        *)
THEOREM ListsAgreeCorrect == Spec => []ListsAgree
BY ListsCorrect, OutsideCorrect, PTL DEF ListsAgree

-----------------------------------------------------------------------------
(* What ReportEnds rests on.  The steps a report has left, at most: to     *)
(* take its scope, one for each rule not counted yet, to render.           *)
Left == CASE pc = "loaded"  -> Len(metas) + 2
          [] pc = "tagging" -> Len(metas) + 2 - next
          [] OTHER -> 0

(* A report is under way as long as it has steps left, and each of its own *)
(* steps leaves it fewer; an edit of the scope file neither adds to them   *)
(* nor touches what the report has counted.                                *)
THEOREM ReportRunsDown ==
    Spec => /\ [](Left \in Nat /\ (~Resting <=> Left > 0))
            /\ [][~Resting => UNCHANGED <<pc, metas, scope, next, report>> \/ Left' < Left]_vars
<1>1. TypeOK => Left \in Nat /\ (~Resting <=> Left > 0)
  <2> SUFFICES ASSUME TypeOK PROVE Left \in Nat /\ (~Resting <=> Left > 0)
    OBVIOUS
  <2>1. Len(metas) \in Nat
    BY InputsAssumption DEF TypeOK
  <2> QED
    BY <2>1 DEF Left, Resting, TypeOK
<1>2. TypeOK /\ [Next]_vars =>
        [~Resting => UNCHANGED <<pc, metas, scope, next, report>> \/ Left' < Left]_vars
  <2> SUFFICES ASSUME TypeOK, Next, ~Resting
               PROVE  UNCHANGED <<pc, metas, scope, next, report>> \/ Left' < Left
    OBVIOUS
  <2>1. Len(metas) \in Nat /\ next \in 1..Len(metas) + 1 /\ Left \in Nat /\ Left > 0
    BY <1>1, InputsAssumption DEF TypeOK
  <2>2. ASSUME NEW sc, Scope(sc) PROVE Left' < Left
    BY <2>1, <2>2 DEF Scope, Left
  <2>3. CASE LoadScope
    BY <2>1, <2>2, <2>3 DEF LoadScope, Left
  <2>4. CASE GivenScope
    BY <2>2, <2>4 DEF GivenScope
  <2>5. CASE CountRule
    BY <2>1, <2>5 DEF CountRule, Left
  <2>6. CASE Render
    BY <2>1, <2>6 DEF Render, Left
  <2>7. CASE EditScope
    BY <2>7 DEF EditScope
  <2>8. ~Load
    BY DEF Load
  <2> QED
    BY <2>3, <2>4, <2>5, <2>6, <2>7, <2>8 DEF Next
<1> QED
  BY <1>1, <1>2, TypeCorrect, PTL DEF Spec
=============================================================================
