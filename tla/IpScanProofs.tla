---------------------------- MODULE IpScanProofs ----------------------------
(***************************************************************************)
(* What the exit code of a scanner means that nobody joined in its result  *)
(* directory, for all files, classes and terms, whatever is edited         *)
(* meanwhile, whatever earlier runs left behind and however many others    *)
(* run beside it in directories of their own.                              *)
(***************************************************************************)
EXTENDS IpScan, TLAPS

Positions == 1..Len(Classes)

\* The class at i is behind a scanner that is at "at".
Behind(i, at) == at = Judging \/ (at \in Positions /\ i < at)

(* What one run knows of the files that were left alone.                   *)
ListsSteady(s) ==
    /\ files[Out[s]] # {} /\ files[Out[s]] = run[s].listed
    /\ \A f \in run[s].steady : tree[f] # Absent => f \in files[Out[s]]

Catches(s, c) ==
    \A f \in run[s].steady :
        tree[f] # Absent /\ Matches(c, run[s].terms, tree[f]) => run[s].fail

CatchesBehind(s) ==
    \A i \in Positions :
        Behind(i, run[s].at) /\ Classes[i] \notin Low => Catches(s, Classes[i])

(* What it has not come to, it has not touched.                            *)
AheadUntouched(s) ==
    \A i \in Positions : ~Behind(i, run[s].at) =>
        /\ Classes[i] \notin run[s].found
        /\ Classes[i] = Private => run[s].terms = <<>>

(* Its result directory is its own.                                        *)
OwnResults(s) ==
    /\ run[s].fail => run[s].found \ Low # {}
    /\ run[s].found \subseteq lists[Out[s]]
    /\ run[s].unread <=> errors[Out[s]]
    /\ Bad \in Range(run[s].terms) => errors[Out[s]]
    /\ Empty \in Range(run[s].terms) => errors[Out[s]] \/ run[s].fail

(* A class behind it that is always scanned has failed over a missing file.*)
MissingBreaks(s) ==
    \A i \in Positions : Behind(i, run[s].at) /\ Classes[i] # Private =>
        \A f \in run[s].listed \cap run[s].steady : tree[f] = Absent => errors[Out[s]]

(* Without private terms it is past their class only if none are required. *)
RequiresTerms(s) ==
    \A i \in Positions :
        (Behind(i, run[s].at) /\ Classes[i] = Private /\ run[s].terms = <<>>)
            => ~run[s].require

(* A list behind it is its own, or the private one it had no terms for.    *)
ListsOwn(s) ==
    \A i \in Positions : Behind(i, run[s].at) /\ Classes[i] \in lists[Out[s]] =>
        Classes[i] \in run[s].found \cup Unscanned(run[s])

Sound(s) ==
    /\ ListsSteady(s) /\ CatchesBehind(s) /\ AheadUntouched(s) /\ OwnResults(s)
    /\ ListsOwn(s) /\ MissingBreaks(s) /\ RequiresTerms(s)
    /\ run[s].code = -1 /\ run[s].shown = {}

Begun(s) ==
    /\ ~run[s].fail /\ ~run[s].unread /\ ~errors[Out[s]] /\ run[s].code = -1
    /\ run[s].terms = <<>> /\ run[s].found = {} /\ run[s].shown = {}

CleanOf(s) ==
    \A f \in run[s].steady : tree[f] # Absent =>
        /\ tree[f] \cap (Range(Classes) \ Low) \subseteq {Private}
        /\ tree[f] \cap Range(run[s].terms) = {}

Judged(s) ==
    /\ run[s].unread => run[s].code \notin {0, 1}
    /\ run[s].code = 0 => CleanOf(s)
    /\ run[s].code = 1 => run[s].found \ Low # {}
    /\ run[s].code = 1 <=> run[s].shown # {}
    /\ run[s].shown \subseteq run[s].found \cup Unscanned(run[s])

RunInv(s) ==
    /\ run[s].at = 0 => Judged(s)
    /\ run[s].at = Listing => Begun(s)
    /\ run[s].at \in Positions \cup {Judging} => Sound(s)

(* What a run has seen so far is still there if nobody edited a listed     *)
(* file, and its list is the one of now if nobody edited any.              *)
Missing(listed) == \E f \in listed : tree[f] = Absent

Dirty(listed, terms) ==
    \E c \in Range(Classes) \ Low, f \in listed :
        tree[f] # Absent /\ Matches(c, terms, tree[f])

Told(s) ==
    /\ run[s].fail => Dirty(run[s].listed, run[s].terms)
    /\ errors[Out[s]] => Missing(run[s].listed) \/ Bad \in Range(run[s].terms)

TreeInv(s) ==
    /\ run[s].at \in Positions \cup {Judging} =>
         /\ run[s].listed \subseteq run[s].steady => Told(s)
         /\ run[s].steady = Files => run[s].listed = Listed
    /\ (run[s].steady = Files /\ run[s].at = 0 /\ run[s].code \in {0, 1, 2, 3})
         => run[s].code = Judge(run[s])

(* Who runs alone is the only one at work in its directory.                *)
Apart ==
    \A s \in Alone, t \in Scanners :
        Running(s) /\ Running(t) /\ s # t => Out[s] # Out[t]

IInv == TypeOK /\ Apart /\ \A s \in Alone : RunInv(s) /\ TreeInv(s)

-----------------------------------------------------------------------------
LEMMA ClassPositions ==
  /\ Len(Classes) \in Nat /\ DOMAIN Classes = Positions /\ 1 \in Positions
  /\ Listing = Len(Classes) + 1 /\ Judging = Len(Classes) + 2
  /\ 0..Judging = {0, Listing, Judging} \cup Positions
  /\ 0 \notin Positions /\ Listing \notin Positions /\ Judging \notin Positions
  /\ Listing # 0 /\ Judging # 0 /\ Listing # Judging
<1>1. Len(Classes) \in Nat /\ DOMAIN Classes = 1..Len(Classes)
  BY ClassesAssumption
<1>2. Len(Classes) >= 1
  <2>1. PICK i \in DOMAIN Classes : Classes[i] = Private
    BY ClassesAssumption DEF Range
  <2>2. i \in 1..Len(Classes)
    BY <1>1
  <2> QED
    BY <1>1, <2>2
<1>3. 0..(Len(Classes) + 2)
        = {0, Len(Classes) + 1, Len(Classes) + 2} \cup 1..Len(Classes)
  BY <1>1
<1> QED
  BY <1>1, <1>2, <1>3 DEF Listing, Judging, Positions

LEMMA ClassFacts ==
  /\ \A i, j \in Positions : Classes[i] = Classes[j] => i = j
  /\ \A c \in Range(Classes) : \E i \in Positions : c = Classes[i]
  /\ \A i \in Positions : Classes[i] \in Range(Classes)
  /\ Private \notin Low /\ Private \in Range(Classes) /\ Low \subseteq Range(Classes)
  /\ Range(<<>>) = {}
BY ClassPositions, ClassesAssumption DEF Range

LEMMA NextPosition ==
  ASSUME NEW k \in Positions
  PROVE  /\ Next_at(k) \in Positions \cup {Judging}
         /\ ~Behind(k, k)
         /\ \A i \in Positions : Behind(i, Next_at(k)) <=> Behind(i, k) \/ i = k
<1>1. /\ Len(Classes) \in Nat /\ k \in 1..Len(Classes) /\ Positions = 1..Len(Classes)
      /\ k # Judging
  BY ClassPositions DEF Positions
<1>2. CASE k = Len(Classes)
  <2>1. Next_at(k) = Judging
    BY <1>2 DEF Next_at
  <2>2. \A i \in 1..Len(Classes) : i < k \/ i = k
    BY <1>1, <1>2
  <2> QED
    BY <1>1, <2>1, <2>2 DEF Behind
<1>3. CASE k # Len(Classes)
  <2>1. Next_at(k) = k + 1 /\ k + 1 \in Positions
    BY <1>1, <1>3 DEF Next_at
  <2>2. \A i \in 1..Len(Classes) : i < k + 1 <=> i < k \/ i = k
    BY <1>1
  <2>3. k + 1 # Judging
    BY <2>1, ClassPositions
  <2> QED
    BY <1>1, <2>1, <2>2, <2>3 DEF Behind
<1> QED
  BY <1>2, <1>3

LEMMA IdleIsRun == Idle \in Run
<1>1. PRIV_TERMS(<<>>, Absent) = <<>>
  BY DEF PRIV_TERMS
<1>2. <<>> \in Alternatives
  BY <1>1, TermsAssumption DEF Alternatives
<1>3. 0 \in 0..Judging
  BY ClassPositions
<1> QED
  BY <1>2, <1>3, TermsAssumption DEF Idle, Run

\* What the steps assign to the fields of a run.
LEMMA RunFields ==
  ASSUME NEW x \in Run
  PROVE  /\ \A at \in 0..Judging : [x EXCEPT !.at = at] \in Run
         /\ \A f \in SUBSET Files : /\ [x EXCEPT !.steady = f] \in Run
                                    /\ [x EXCEPT !.listed = f] \in Run
         /\ \A c \in {-1, 0, 1, 2, 3, 130} : Exit(x, c) \in Run
         /\ \A l \in SUBSET Range(Classes) : [x EXCEPT !.shown = l] \in Run
         /\ \A b \in BOOLEAN : [x EXCEPT !.shared = b] \in Run
<1>1. 0 \in 0..Judging
  BY ClassPositions
<1>2. ASSUME NEW at \in 0..Judging PROVE [x EXCEPT !.at = at] \in Run
  BY DEF Run
<1>3. ASSUME NEW f \in SUBSET Files
      PROVE  [x EXCEPT !.steady = f] \in Run /\ [x EXCEPT !.listed = f] \in Run
  BY DEF Run
<1>4. ASSUME NEW c \in {-1, 0, 1, 2, 3, 130}
      PROVE  Exit(x, c) \in Run
  BY <1>1 DEF Exit, Run
<1>5. ASSUME NEW l \in SUBSET Range(Classes) PROVE [x EXCEPT !.shown = l] \in Run
  BY DEF Run
<1>6. ASSUME NEW b \in BOOLEAN PROVE [x EXCEPT !.shared = b] \in Run
  BY DEF Run
<1> QED
  BY <1>2, <1>3, <1>4, <1>5, <1>6

-----------------------------------------------------------------------------
(* What a step of a scanner leaves in its own variables, and that it has a *)
(* type.                                                                   *)
LEMMA BeginFields ==
  ASSUME NEW me \in Scanners, TypeOK, Begin(me)
  PROVE  /\ TypeOK'
         /\ run'[me].at = Listing /\ run'[me].code = -1 /\ run'[me].shown = {}
         /\ run'[me].terms = <<>> /\ run'[me].found = {}
         /\ ~run'[me].fail /\ ~run'[me].unread
         /\ run'[me].shared <=> In(Out[me]) # {}
         /\ \A t \in Scanners : t # me =>
              run'[t] = [run[t] EXCEPT !.shared = run[t].shared \/ t \in In(Out[me])]
         /\ ~errors'[Out[me]]
<1> DEFINE others == In(Out[me])
<1>1. PICK env \in TermLists, require \in BOOLEAN :
        run' = [t \in Scanners |->
                  IF t = me
                  THEN [Idle EXCEPT !.at = Listing, !.env = env,
                                    !.require = require, !.shared = others # {}]
                  ELSE [run[t] EXCEPT !.shared = run[t].shared \/ t \in others]]
  BY DEF Begin
<1> DEFINE x == [Idle EXCEPT !.at = Listing, !.env = env,
                             !.require = require, !.shared = others # {}]
           y(t) == [run[t] EXCEPT !.shared = run[t].shared \/ t \in others]
<1>2. x \in Run
  <2>1. Listing \in 0..Judging /\ (others # {}) \in BOOLEAN
    BY ClassPositions
  <2> QED
    BY <2>1, IdleIsRun DEF Run
<1>3. \A t \in Scanners : y(t) \in Run
  <2> TAKE t \in Scanners
  <2>1. run[t] \in Run /\ (run[t].shared \/ t \in others) \in BOOLEAN
    BY DEF TypeOK
  <2> QED
    BY <2>1, RunFields
<1>4. /\ run' \in [Scanners -> Run] /\ run'[me] = x
      /\ \A t \in Scanners : t # me => run'[t] = y(t)
  BY <1>1, <1>2, <1>3
<1>5. Out[me] \in OutDirs
  BY OutAssumption
<1>6. TypeOK' /\ ~errors'[Out[me]]
  BY <1>4, <1>5 DEF Begin, TypeOK
<1>7. /\ x.at = Listing /\ x.code = -1 /\ x.shown = {} /\ x.terms = <<>>
      /\ x.found = {} /\ ~x.fail /\ ~x.unread /\ x.shared = (others # {})
  BY DEF Idle
<1> HIDE DEF x
<1> QED
  BY <1>4, <1>6, <1>7

LEMMA ListFields ==
  ASSUME NEW me \in Scanners, TypeOK, ListFiles(me)
  PROVE  LET x == run[me]  y == run'[me] IN
         /\ TypeOK'
         /\ y.steady = Files /\ y.listed = Listed
         /\ y.at = (IF Listed = {} THEN 0 ELSE 1)
         /\ y.code = (IF Listed = {} THEN 2 ELSE x.code)
         /\ y.fail = x.fail /\ y.unread = x.unread /\ y.terms = x.terms
         /\ y.found = x.found /\ y.shown = x.shown
         /\ files'[Out[me]] = Listed
         /\ UNCHANGED <<tree, private, lists, errors>>
<1> DEFINE x == run[me]
           z == IF Listed = {} THEN Exit(x, 2) ELSE [x EXCEPT !.at = 1]
           w == [z EXCEPT !.listed = Listed]
           y == [w EXCEPT !.steady = Files]
<1>1. x \in Run /\ 1 \in 0..Judging /\ Out[me] \in OutDirs
  BY ClassPositions, OutAssumption DEF TypeOK
<1>2. z \in Run
  BY <1>1, RunFields
<1>3. w \in Run /\ y \in Run
  <2>1. Listed \in SUBSET Files
    BY DEF Listed
  <2>2. w \in Run
    BY <1>2, <2>1, RunFields
  <2> QED
    BY <2>2, RunFields
<1>4. /\ z.at = (IF Listed = {} THEN 0 ELSE 1)
      /\ z.code = (IF Listed = {} THEN 2 ELSE x.code)
      /\ z.fail = x.fail /\ z.unread = x.unread /\ z.terms = x.terms
      /\ z.found = x.found /\ z.shown = x.shown
  BY <1>1 DEF Exit, Run
<1>5. /\ y.steady = Files /\ y.listed = Listed /\ y.at = z.at
      /\ y.code = z.code /\ y.fail = z.fail /\ y.unread = z.unread
      /\ y.terms = z.terms /\ y.found = z.found /\ y.shown = z.shown
  <2>1. /\ w.listed = Listed /\ w.at = z.at
        /\ w.code = z.code /\ w.fail = z.fail /\ w.unread = z.unread
        /\ w.terms = z.terms /\ w.found = z.found /\ w.shown = z.shown
    BY <1>2 DEF Run
  <2> HIDE DEF w, z
  <2> QED
    BY <1>3, <2>1 DEF Run
<1>6. run' \in [Scanners -> Run] /\ run'[me] = y
  <2>1. y = [z EXCEPT !.listed = Listed, !.steady = Files]
    OBVIOUS
  <2> QED
    BY <1>3, <2>1 DEF ListFiles, TypeOK
<1> HIDE DEF y, z, w
<1>7. TypeOK' /\ files'[Out[me]] = Listed
  BY <1>1, <1>6 DEF ListFiles, TypeOK, Listed
<1> QED
  BY <1>4, <1>5, <1>6, <1>7 DEF ListFiles

LEMMA ScanFields ==
  ASSUME NEW me \in Scanners, TypeOK, run[me].at \in DOMAIN Classes,
         NEW terms \in Alternatives, Scan(me, Classes[run[me].at], terms)
  PROVE  LET x      == run[me]
             y      == run'[me]
             c      == Classes[x.at]
             out    == Out[me]
             hit    == Hit(c, terms, files[out])
             failed == Fails(c, terms, files[out])
         IN  /\ TypeOK'
             /\ y.at = Next_at(x.at)
             /\ y.fail <=> x.fail \/ (hit /\ c \notin Low)
             /\ y.terms = (IF c = Private THEN terms ELSE x.terms)
             /\ y.found = (IF hit THEN x.found \cup {c} ELSE x.found)
             /\ y.unread <=> x.unread \/ failed
             /\ y.code = x.code /\ y.shown = x.shown /\ y.steady = x.steady
             /\ y.require = x.require /\ y.listed = x.listed
             /\ lists'[out] = (IF hit THEN lists[out] \cup {c} ELSE lists[out] \ {c})
             /\ errors'[out] <=> errors[out] \/ failed
             /\ UNCHANGED <<tree, private, files>>
<1> DEFINE x == run[me]
           k == x.at
           c == Classes[k]
           out == Out[me]
           hit == Hit(c, terms, files[out])
           failed == Fails(c, terms, files[out])
           fail    == x.fail \/ (hit /\ c \notin Low)
           scanned == IF c = Private THEN terms ELSE x.terms
           found   == IF hit THEN x.found \cup {c} ELSE x.found
           unread  == x.unread \/ failed
           nothing == x.nothing \/ files[out] = {}
           list    == IF hit THEN lists[out] \cup {c} ELSE lists[out] \ {c}
           error   == errors[out] \/ failed
           y == [x EXCEPT !.at = Next_at(x.at), !.fail = fail, !.terms = scanned,
                          !.found = found, !.unread = unread, !.nothing = nothing]
<1>1. x \in Run /\ k \in Positions /\ c \in Range(Classes) /\ out \in OutDirs
  BY ClassPositions, ClassFacts, OutAssumption DEF TypeOK
<1>2. /\ run' = [run EXCEPT ![me] = y]
      /\ lists' = [lists EXCEPT ![out] = list]
      /\ errors' = [errors EXCEPT ![out] = error]
      /\ UNCHANGED <<tree, private, files>>
  BY DEF Scan, Raise, FailsGate, Rewrite, Collect
<1>3. hit \in BOOLEAN /\ failed \in BOOLEAN
  BY DEF Hit, Fails
<1>4. Next_at(k) \in 0..Judging
  BY <1>1, NextPosition, ClassPositions
<1>5. /\ fail \in BOOLEAN /\ unread \in BOOLEAN /\ nothing \in BOOLEAN
      /\ scanned \in Alternatives /\ found \in SUBSET Range(Classes)
      /\ list \in SUBSET Range(Classes) /\ error \in BOOLEAN
  BY <1>1, <1>3 DEF Run, TypeOK
<1> HIDE DEF fail, scanned, found, unread, nothing, list, error, hit, failed, y, k, out,
             x, c
<1>6. x = [at |-> x.at, env |-> x.env, require |-> x.require, fail |-> x.fail,
           code |-> x.code, shown |-> x.shown, terms |-> x.terms,
           listed |-> x.listed, steady |-> x.steady, found |-> x.found, unread |-> x.unread,
           nothing |-> x.nothing, shared |-> x.shared]
  BY <1>1 DEF Run, x
<1>7. y = [at |-> Next_at(k), env |-> x.env, require |-> x.require, fail |-> fail,
           code |-> x.code, shown |-> x.shown, terms |-> scanned,
           listed |-> x.listed, steady |-> x.steady, found |-> found, unread |-> unread,
           nothing |-> nothing, shared |-> x.shared]
  <2>1. y = [x EXCEPT !.at = Next_at(k), !.fail = fail, !.terms = scanned,
                      !.found = found, !.unread = unread, !.nothing = nothing]
    BY DEF y, k
  <2> QED
    BY <1>6, <2>1
<1>8. y \in Run
  BY <1>1, <1>4, <1>5, <1>7 DEF Run
<1>9. /\ run' \in [Scanners -> Run] /\ run'[me] = y
      /\ lists' \in [OutDirs -> SUBSET Range(Classes)] /\ lists'[out] = list
      /\ errors' \in [OutDirs -> BOOLEAN] /\ errors'[out] = error
  BY <1>1, <1>2, <1>5, <1>8 DEF TypeOK
<1>10. TypeOK'
  BY <1>2, <1>9 DEF TypeOK
<1>11. (y.fail <=> fail) /\ (y.unread <=> unread) /\ (errors'[out] <=> error)
  BY <1>7, <1>9
<1> QED
  BY <1>2, <1>7, <1>9, <1>10, <1>11 DEF fail, scanned, found, unread, list, error,
                                        hit, failed, k, out, x, c

LEMMA SkipFields ==
  ASSUME NEW me \in Scanners, TypeOK, SkipPrivate(me)
  PROVE  LET x == run[me]  y == run'[me] IN
         /\ TypeOK'
         /\ x.at \in Positions /\ Classes[x.at] = Private
         /\ y.code = (IF x.require THEN 3 ELSE x.code)
         /\ y.at = (IF x.require THEN 0 ELSE Next_at(x.at))
         /\ y.fail = x.fail /\ y.terms = x.terms /\ y.found = x.found
         /\ y.unread = x.unread /\ y.shown = x.shown /\ y.steady = x.steady
         /\ y.require = x.require /\ y.listed = x.listed
         /\ UNCHANGED <<tree, private, files, lists, errors>>
<1> DEFINE x == run[me]
           y == IF x.require THEN Exit(x, 3) ELSE [x EXCEPT !.at = Next_at(x.at)]
<1>1. /\ x \in Run /\ x.at \in Positions /\ Classes[x.at] = Private
      /\ UNCHANGED <<tree, private, files, lists, errors>>
      /\ run' = [run EXCEPT ![me] = y]
  BY ClassPositions DEF SkipPrivate, TypeOK
<1>2. Next_at(x.at) \in 0..Judging
  BY <1>1, NextPosition, ClassPositions
<1>3. y \in Run
  BY <1>1, <1>2, RunFields
<1>4. /\ y.code = (IF x.require THEN 3 ELSE x.code)
      /\ y.at = (IF x.require THEN 0 ELSE Next_at(x.at))
      /\ y.fail = x.fail /\ y.terms = x.terms /\ y.found = x.found
      /\ y.unread = x.unread /\ y.shown = x.shown /\ y.steady = x.steady
      /\ y.require = x.require /\ y.listed = x.listed
  BY <1>1 DEF Exit, Run
<1>5. run' \in [Scanners -> Run] /\ run'[me] = y
  BY <1>1, <1>3 DEF TypeOK
<1> HIDE DEF y
<1>6. TypeOK'
  BY <1>1, <1>5 DEF TypeOK
<1> QED
  BY <1>1, <1>4, <1>5, <1>6

LEMMA VerdictFields ==
  ASSUME NEW me \in Scanners, TypeOK, Verdict(me)
  PROVE  LET x == run[me]  y == run'[me] IN
         /\ TypeOK'
         /\ y.at = 0 /\ y.code = Code(me)
         /\ y.shown = (IF Code(me) = 1 THEN lists[Out[me]] \ Low ELSE {})
         /\ y.terms = x.terms /\ y.steady = x.steady /\ y.found = x.found
         /\ y.unread = x.unread /\ y.require = x.require /\ y.listed = x.listed
         /\ UNCHANGED <<tree, private, files, lists, errors>>
<1> DEFINE x == run[me]
           list == IF Code(me) = 1 THEN lists[Out[me]] \ Low ELSE {}
           z == Exit(x, Code(me))
           y == [z EXCEPT !.shown = list]
<1>1. /\ x \in Run
      /\ UNCHANGED <<tree, private, files, lists, errors>>
      /\ run' = [run EXCEPT ![me] = y]
  BY DEF Verdict, TypeOK
<1>2. Code(me) \in {-1, 0, 1, 2, 3, 130} /\ list \in SUBSET Range(Classes)
  BY <1>1, OutAssumption DEF TypeOK, Code
<1>3. z \in Run
  BY <1>1, <1>2, RunFields
<1>4. y \in Run
  BY <1>2, <1>3, RunFields
<1>5. /\ z.at = 0 /\ z.code = Code(me) /\ z.terms = x.terms
      /\ z.steady = x.steady /\ z.found = x.found /\ z.unread = x.unread
      /\ z.require = x.require /\ z.listed = x.listed
  BY <1>1 DEF Exit, Run
<1>6. /\ y.at = z.at /\ y.code = z.code /\ y.shown = list /\ y.terms = z.terms
      /\ y.steady = z.steady /\ y.found = z.found /\ y.unread = z.unread
      /\ y.require = z.require /\ y.listed = z.listed
  BY <1>3 DEF Run
<1>7. run' \in [Scanners -> Run] /\ run'[me] = y
  BY <1>1, <1>4 DEF TypeOK
<1> HIDE DEF y, z
<1>8. TypeOK'
  BY <1>1, <1>7 DEF TypeOK
<1> QED
  BY <1>1, <1>5, <1>6, <1>7, <1>8

LEMMA InterruptFields ==
  ASSUME NEW me \in Scanners, TypeOK, Interrupt(me)
  PROVE  LET x == run[me]  y == run'[me] IN
         /\ TypeOK'
         /\ y.at = 0 /\ y.code = 130 /\ y.shown = x.shown /\ y.unread = x.unread
         /\ UNCHANGED <<tree, private, files, lists, errors>>
<1> DEFINE x == run[me]
           y == Exit(x, 130)
<1>1. /\ x \in Run
      /\ UNCHANGED <<tree, private, files, lists, errors>>
      /\ run' = [run EXCEPT ![me] = y]
  BY DEF Interrupt, TypeOK
<1>2. y \in Run
  BY <1>1, RunFields
<1>3. y.at = 0 /\ y.code = 130 /\ y.shown = x.shown /\ y.unread = x.unread
  BY <1>1 DEF Exit, Run
<1>4. run' \in [Scanners -> Run] /\ run'[me] = y
  BY <1>1, <1>2 DEF TypeOK
<1> HIDE DEF y
<1>5. TypeOK'
  BY <1>1, <1>4 DEF TypeOK
<1> QED
  BY <1>1, <1>3, <1>4, <1>5

LEMMA EditFields ==
  ASSUME TypeOK, NEW f \in Files, Edit(f)
  PROVE  /\ TypeOK'
         /\ \A t \in Scanners :
              LET x == run[t]  y == run'[t] IN
              /\ y.at = x.at /\ y.code = x.code /\ y.shown = x.shown
              /\ y.terms = x.terms /\ y.found = x.found /\ y.unread = x.unread
              /\ y.fail = x.fail /\ y.shared = x.shared
              /\ y.listed = x.listed /\ y.require = x.require
              /\ y.steady = x.steady \ {f} /\ x.steady \subseteq Files
         /\ \A g \in Files : g # f => tree'[g] = tree[g]
         /\ UNCHANGED <<private, files, lists, errors>>
<1> DEFINE y(t) == [run[t] EXCEPT !.steady = run[t].steady \ {f}]
<1>1. /\ UNCHANGED <<private, files, lists, errors>>
      /\ tree' \in [Files -> Contents \cup {Absent}]
      /\ run' = [t \in Scanners |-> y(t)]
      /\ \A g \in Files : g # f => tree'[g] = tree[g]
  BY DEF Edit, TypeOK
<1>2. ASSUME NEW t \in Scanners
      PROVE  /\ y(t) \in Run
             /\ y(t).at = run[t].at /\ y(t).code = run[t].code
             /\ y(t).shown = run[t].shown /\ y(t).terms = run[t].terms
             /\ y(t).found = run[t].found /\ y(t).unread = run[t].unread
             /\ y(t).fail = run[t].fail /\ y(t).shared = run[t].shared
             /\ y(t).listed = run[t].listed /\ y(t).require = run[t].require
             /\ y(t).steady = run[t].steady \ {f} /\ run[t].steady \subseteq Files
  <2>1. run[t] \in Run
    BY DEF TypeOK
  <2>2. run[t].steady \ {f} \in SUBSET Files
    BY <2>1 DEF Run
  <2>3. y(t) \in Run
    BY <2>1, <2>2, RunFields
  <2> QED
    BY <2>1, <2>3 DEF Run
<1> HIDE DEF y
<1>3. run' \in [Scanners -> Run] /\ \A t \in Scanners : run'[t] = y(t)
  BY <1>1, <1>2
<1>4. TypeOK'
  BY <1>1, <1>3 DEF TypeOK
<1> QED
  BY <1>1, <1>2, <1>3, <1>4

-----------------------------------------------------------------------------
(* A scanner that is alone in its directory: what its own steps leave of   *)
(* what it knows.                                                          *)
LEMMA ListRun ==
  ASSUME NEW me \in Scanners, TypeOK, RunInv(me), ListFiles(me)
  PROVE  RunInv(me)'
<1> DEFINE x == run[me]
           y == run'[me]
<1>1. x \in Run /\ Begun(me)
  BY DEF ListFiles, TypeOK, RunInv
<1>2. /\ y.steady = Files /\ y.listed = Listed
      /\ y.at = (IF Listed = {} THEN 0 ELSE 1)
      /\ y.code = (IF Listed = {} THEN 2 ELSE x.code)
      /\ y.fail = x.fail /\ y.unread = x.unread /\ y.terms = x.terms
      /\ y.found = x.found /\ y.shown = x.shown
      /\ files'[Out[me]] = Listed
      /\ UNCHANGED <<tree, private, lists, errors>>
  BY ListFields
<1> HIDE DEF y
<1>5. CASE Listed = {}
  <2>1. Judged(me)'
    BY <1>1, <1>2, <1>5 DEF Judged, Begun, y
  <2>2. y.at = 0
    BY <1>2, <1>5
  <2> QED
    BY <2>1, <2>2, ClassPositions DEF RunInv, y
<1>6. CASE Listed # {}
  <2>1. y.at = 1 /\ \A i \in Positions : ~Behind(i, 1)
    BY <1>2, <1>6, ClassPositions DEF Behind, Positions
  <2>2. ListsSteady(me)'
    BY <1>2, <1>6 DEF ListsSteady, Listed, y
  <2>3. CatchesBehind(me)'
    BY <2>1 DEF CatchesBehind, y
  <2>4. AheadUntouched(me)'
    BY <1>1, <1>2 DEF AheadUntouched, Begun, y
  <2>5. OwnResults(me)'
    BY <1>1, <1>2, ClassFacts DEF OwnResults, Begun, y
  <2>6. ListsOwn(me)'
    BY <2>1 DEF ListsOwn, y
  <2>8. MissingBreaks(me)' /\ RequiresTerms(me)'
    BY <2>1 DEF MissingBreaks, RequiresTerms, y
  <2>7. Sound(me)'
    BY <1>1, <1>2, <1>6, <2>2, <2>3, <2>4, <2>5, <2>6, <2>8 DEF Sound, Begun, y
  <2> QED
    BY <2>1, <2>7, ClassPositions DEF RunInv, y
<1> QED
  BY <1>5, <1>6

\* One class over the files: what it finds is found, what fails is recorded.
LEMMA ScanRun ==
  ASSUME NEW me \in Scanners, TypeOK, RunInv(me), run[me].at \in DOMAIN Classes,
         NEW terms \in Alternatives, Classes[run[me].at] = Private => terms # <<>>,
         Scan(me, Classes[run[me].at], terms)
  PROVE  RunInv(me)'
<1> DEFINE x == run[me]
           y == run'[me]
           k == x.at
           c == Classes[k]
           listed == files[Out[me]]
           hit == Hit(c, terms, listed)
           failed == Fails(c, terms, listed)
<1>1. x \in Run /\ k \in Positions /\ Sound(me) /\ c \in Range(Classes)
  BY ClassPositions, ClassFacts DEF TypeOK, RunInv
<1>3. /\ lists'[Out[me]] = (IF hit THEN lists[Out[me]] \cup {c}
                            ELSE lists[Out[me]] \ {c})
      /\ errors'[Out[me]] <=> errors[Out[me]] \/ failed
      /\ tree' = tree /\ private' = private /\ files' = files
  BY ScanFields
<1>4. hit \in BOOLEAN /\ failed \in BOOLEAN
  BY DEF Hit, Fails
<1>5. /\ y.at = Next_at(k)
      /\ y.fail <=> x.fail \/ (hit /\ c \notin Low)
      /\ y.terms = (IF c = Private THEN terms ELSE x.terms)
      /\ y.found = (IF hit THEN x.found \cup {c} ELSE x.found)
      /\ y.unread <=> x.unread \/ failed
      /\ y.code = x.code /\ y.shown = x.shown /\ y.steady = x.steady
      /\ y.listed = x.listed /\ y.require = x.require
  BY ScanFields
<1>6. run[me]' = y
  OBVIOUS
<1> HIDE DEF y
<1>8. ListsSteady(me)'
  BY <1>1, <1>3, <1>5, <1>6 DEF Sound, ListsSteady
<1>9. /\ y.at \in Positions \cup {Judging} /\ ~Behind(k, k)
      /\ \A i \in Positions : Behind(i, y.at) <=> Behind(i, k) \/ i = k
  BY <1>1, <1>5, NextPosition
<1>10. CatchesBehind(me)'
  <2> SUFFICES ASSUME NEW i \in Positions, Behind(i, y.at), Classes[i] \notin Low,
                      NEW f \in y.steady, tree[f] # Absent,
                      Matches(Classes[i], y.terms, tree[f])
               PROVE  y.fail
    BY <1>3, <1>6 DEF CatchesBehind, Catches, Matches
  <2>1. CASE i = k
    <3>1. f \in files[Out[me]]
      BY <1>1, <1>5 DEF Sound, ListsSteady
    <3>2. Matches(c, terms, tree[f])
      BY <1>5, <2>1 DEF Matches
    <3>3. hit
      BY <3>1, <3>2 DEF Hit
    <3> QED
      BY <1>5, <2>1, <3>3
  <2>2. CASE i # k
    <3>1. Behind(i, x.at)
      BY <1>9, <2>2
    <3>2. Classes[i] # c
      BY <1>1, <2>2, ClassFacts
    <3>3. Matches(Classes[i], x.terms, tree[f])
      <4>1. CASE c = Private
        BY <3>2, <4>1 DEF Matches
      <4>2. CASE c # Private
        BY <1>5, <4>2
      <4> QED
        BY <4>1, <4>2
    <3>4. x.fail
      BY <1>1, <1>5, <3>1, <3>3 DEF Sound, CatchesBehind, Catches
    <3> QED
      BY <1>5, <3>4
  <2> QED
    BY <2>1, <2>2
<1>11. AheadUntouched(me)'
  <2> SUFFICES ASSUME NEW i \in Positions, ~Behind(i, y.at)
               PROVE  /\ Classes[i] \notin y.found
                      /\ Classes[i] = Private => y.terms = <<>>
    BY <1>6 DEF AheadUntouched
  <2>1. ~Behind(i, x.at) /\ i # k
    BY <1>9
  <2>2. Classes[i] # c
    BY <1>1, <2>1, ClassFacts
  <2> QED
    BY <1>1, <1>5, <2>1, <2>2 DEF Sound, AheadUntouched
<1>12. OwnResults(me)'
  <2>1. y.fail => y.found \ Low # {}
    BY <1>1, <1>5 DEF Sound, OwnResults
  <2>2. y.found \subseteq lists'[Out[me]]
    <3>1. c \notin x.found
      BY <1>1, <1>9 DEF Sound, AheadUntouched
    <3> QED
      BY <1>1, <1>3, <1>5, <3>1 DEF Sound, OwnResults
  <2>3. y.unread <=> errors'[Out[me]]
    BY <1>1, <1>3, <1>4, <1>5 DEF Sound, OwnResults
  <2>4. Bad \in Range(y.terms) => errors'[Out[me]]
    <3>1. CASE c = Private
      BY <1>1, <1>3, <1>5, <3>1 DEF Sound, ListsSteady, Fails
    <3>2. CASE c # Private
      BY <1>1, <1>3, <1>5, <3>2 DEF Sound, OwnResults
    <3> QED
      BY <3>1, <3>2
  <2>5. Empty \in Range(y.terms) => errors'[Out[me]] \/ y.fail
    <3>1. CASE c = Private /\ Empty \in Range(terms) /\ Bad \notin Range(terms)
      <4>1. PICK f \in listed : TRUE
        BY <1>1 DEF Sound, ListsSteady
      <4>2. CASE tree[f] = Absent
        BY <1>3, <4>1, <4>2 DEF Fails
      <4>3. CASE tree[f] # Absent
        <5>1. Matches(c, terms, tree[f])
          BY <3>1 DEF Matches
        <5> QED
          BY <1>5, <3>1, <4>1, <4>3, <5>1, ClassFacts DEF Hit
      <4> QED
        BY <4>2, <4>3
    <3>2. CASE c = Private /\ Bad \in Range(terms)
      BY <1>3, <3>2, <1>1 DEF Sound, ListsSteady, Fails
    <3>3. CASE c # Private
      BY <1>1, <1>3, <1>5, <3>3 DEF Sound, OwnResults
    <3> QED
      BY <1>5, <3>1, <3>2, <3>3
  <2> QED
    BY <1>6, <2>1, <2>2, <2>3, <2>4, <2>5 DEF OwnResults
<1>13. ListsOwn(me)'
  <2> SUFFICES ASSUME NEW i \in Positions, Behind(i, y.at), Classes[i] \in lists'[Out[me]]
               PROVE  Classes[i] \in y.found \cup Unscanned(y)
    BY <1>6 DEF ListsOwn
  <2>1. CASE i = k
    BY <1>3, <1>5, <2>1
  <2>2. CASE i # k
    <3>1. Behind(i, x.at) /\ Classes[i] # c
      BY <1>1, <1>9, <2>2, ClassFacts
    <3>2. Classes[i] \in x.found \cup Unscanned(x)
      BY <1>1, <1>3, <3>1 DEF Sound, ListsOwn
    <3>3. x.found \subseteq y.found
      BY <1>5
    <3>4. Classes[i] \in Unscanned(x) => Classes[i] \in Unscanned(y)
      BY <1>5, <3>1 DEF Unscanned
    <3> QED
      BY <3>2, <3>3, <3>4
  <2> QED
    BY <2>1, <2>2
<1>14. MissingBreaks(me)'
  <2> SUFFICES ASSUME NEW i \in Positions, Behind(i, y.at), Classes[i] # Private,
                      NEW f \in y.listed \cap y.steady, tree[f] = Absent
               PROVE  errors'[Out[me]]
    BY <1>3, <1>6 DEF MissingBreaks
  <2>1. CASE i = k
    <3>1. f \in listed
      BY <1>1, <1>5 DEF Sound, ListsSteady
    <3>2. failed
      BY <3>1 DEF Fails
    <3> QED
      BY <1>3, <3>2
  <2>2. CASE i # k
    BY <1>1, <1>3, <1>5, <1>9, <2>2 DEF Sound, MissingBreaks
  <2> QED
    BY <2>1, <2>2
<1>16. RequiresTerms(me)'
  <2> SUFFICES ASSUME NEW i \in Positions, Behind(i, y.at), Classes[i] = Private,
                      y.terms = <<>>
               PROVE  ~y.require
    BY <1>6 DEF RequiresTerms
  <2>1. c # Private
    BY <1>1, <1>5
  <2>2. Behind(i, k)
    BY <1>9, <2>1
  <2> QED
    BY <1>1, <1>5, <2>1, <2>2 DEF Sound, RequiresTerms
<1>15. Sound(me)'
  BY <1>1, <1>5, <1>6, <1>8, <1>10, <1>11, <1>12, <1>13, <1>14, <1>16 DEF Sound
<1> QED
  BY <1>6, <1>9, <1>15, ClassPositions DEF RunInv

LEMMA SkipRun ==
  ASSUME NEW me \in Scanners, TypeOK, RunInv(me), SkipPrivate(me)
  PROVE  RunInv(me)'
<1> DEFINE x == run[me]
           k == x.at
           y == run'[me]
<1>1. /\ k \in Positions /\ Classes[k] = Private
      /\ UNCHANGED <<tree, private, files, lists, errors>>
  BY SkipFields
<1>2. Next_at(k) \in Positions \cup {Judging} /\ Sound(me)
  BY <1>1, NextPosition DEF RunInv
<1>4. /\ y.code = (IF x.require THEN 3 ELSE x.code)
      /\ y.at = (IF x.require THEN 0 ELSE Next_at(k))
      /\ y.fail = x.fail /\ y.terms = x.terms /\ y.found = x.found
      /\ y.unread = x.unread /\ y.shown = x.shown /\ y.steady = x.steady
      /\ y.listed = x.listed /\ y.require = x.require
  BY SkipFields
<1>5. run[me]' = y
  OBVIOUS
<1> HIDE DEF y
<1>7. CASE x.require
  <2>1. y.at = 0 /\ Judged(me)'
    BY <1>1, <1>2, <1>4, <1>5, <1>7 DEF Judged, Sound
  <2> QED
    BY <1>5, <2>1, ClassPositions DEF RunInv
<1>8. CASE ~x.require
  <2>1. /\ y.at = Next_at(k) /\ x.terms = <<>>
        /\ \A i \in Positions : Behind(i, y.at) <=> Behind(i, k) \/ i = k
    BY <1>1, <1>2, <1>4, <1>8, NextPosition DEF Sound, AheadUntouched
  <2>2. CatchesBehind(me)'
    <3> SUFFICES ASSUME NEW i \in Positions, Behind(i, y.at), Classes[i] \notin Low,
                        NEW f \in y.steady, tree[f] # Absent,
                        Matches(Classes[i], y.terms, tree[f])
                 PROVE  y.fail
      BY <1>1, <1>5 DEF CatchesBehind, Catches, Matches
    <3>1. CASE i = k
      <4>1. Range(y.terms) = {} /\ Classes[i] = Private
        BY <1>1, <1>2, <1>4, <2>1, <3>1, ClassFacts
      <4> QED
        BY <4>1 DEF Matches
    <3>2. CASE i # k
      BY <1>1, <1>2, <1>4, <2>1, <3>2 DEF Sound, CatchesBehind, Catches
    <3> QED
      BY <3>1, <3>2
  <2>3. ListsSteady(me)' /\ AheadUntouched(me)' /\ OwnResults(me)'
    BY <1>1, <1>2, <1>4, <1>5, <2>1 DEF Sound, ListsSteady, AheadUntouched, OwnResults
  <2>6. ListsOwn(me)'
    <3> SUFFICES ASSUME NEW i \in Positions, Behind(i, y.at), Classes[i] \in lists[Out[me]]
                 PROVE  Classes[i] \in y.found \cup Unscanned(y)
      BY <1>1, <1>5 DEF ListsOwn
    <3>1. CASE i = k
      BY <1>1, <1>2, <1>4, <2>1, <3>1 DEF Unscanned
    <3>2. CASE i # k
      BY <1>1, <1>2, <1>4, <2>1, <3>2 DEF Sound, ListsOwn, Unscanned
    <3> QED
      BY <3>1, <3>2
  <2>5. MissingBreaks(me)'
    BY <1>1, <1>2, <1>4, <1>5, <2>1 DEF Sound, MissingBreaks
  <2>7. RequiresTerms(me)'
    BY <1>4, <1>5, <1>8 DEF RequiresTerms
  <2>4. Sound(me)'
    BY <1>1, <1>2, <1>4, <1>5, <1>8, <2>2, <2>3, <2>5, <2>6, <2>7 DEF Sound
  <2> QED
    BY <1>2, <1>5, <2>1, <2>4, ClassPositions DEF RunInv
<1> QED
  BY <1>7, <1>8

\* Behind all classes, a run without FAIL and without errors saw no mark.
LEMMA PassClean ==
  ASSUME TypeOK, NEW me \in Scanners, Sound(me), run[me].at = Judging,
         ~errors[Out[me]], ~run[me].fail
  PROVE  CleanOf(me)
<1> SUFFICES ASSUME NEW f \in run[me].steady, tree[f] # Absent
             PROVE  /\ tree[f] \cap (Range(Classes) \ Low) \subseteq {Private}
                    /\ tree[f] \cap Range(run[me].terms) = {}
  BY DEF CleanOf
<1>1. \A i \in Positions :
         Classes[i] \notin Low => ~Matches(Classes[i], run[me].terms, tree[f])
  BY DEF Sound, CatchesBehind, Catches, Behind
<1>2. \A c \in Range(Classes) \ Low : ~Matches(c, run[me].terms, tree[f])
  BY <1>1, ClassFacts
<1>3. tree[f] \cap (Range(Classes) \ Low) \subseteq {Private}
  BY <1>2 DEF Matches
<1>4. Bad \notin Range(run[me].terms)
  BY DEF Sound, OwnResults
<1>5. ~Matches(Private, run[me].terms, tree[f])
  BY <1>2, ClassFacts
<1>6. tree[f] \cap Range(run[me].terms) = {}
  BY <1>4, <1>5 DEF Matches
<1> QED
  BY <1>3, <1>6

LEMMA VerdictRun ==
  ASSUME NEW me \in Scanners, TypeOK, RunInv(me), Verdict(me)
  PROVE  RunInv(me)'
<1> DEFINE x == run[me]
           y == run'[me]
           list == IF Code(me) = 1 THEN lists[Out[me]] \ Low ELSE {}
<1>1. /\ x.at = Judging /\ Sound(me) /\ lists[Out[me]] \subseteq Range(Classes)
      /\ UNCHANGED <<tree, private, files, lists, errors>>
  BY OutAssumption DEF Verdict, TypeOK, RunInv
<1>2. Code(me) = (IF errors[Out[me]] THEN 2 ELSE IF x.fail THEN 1 ELSE 0)
  BY DEF Code
<1>5. /\ y.at = 0 /\ y.code = Code(me) /\ y.shown = list /\ y.terms = x.terms
      /\ y.steady = x.steady /\ y.found = x.found /\ y.unread = x.unread
  BY VerdictFields
<1>6. run[me]' = y
  OBVIOUS
<1> HIDE DEF y
<1>8. Code(me) = 0 => CleanOf(me)
  BY <1>1, <1>2, PassClean
<1>9. Code(me) = 1 => x.found \ Low # {} /\ lists[Out[me]] \ Low # {} /\ ~x.unread
  BY <1>1, <1>2 DEF Sound, OwnResults
<1>10. x.unread => Code(me) = 2
  BY <1>1, <1>2 DEF Sound, OwnResults
<1>13. list \subseteq x.found \cup Unscanned(x)
  <2>1. \A c \in lists[Out[me]] : c \in x.found \cup Unscanned(x)
    <3> SUFFICES ASSUME NEW c \in lists[Out[me]] PROVE c \in x.found \cup Unscanned(x)
      OBVIOUS
    <3>1. PICK i \in Positions : c = Classes[i]
      BY <1>1, ClassFacts
    <3> QED
      BY <1>1, <3>1 DEF Sound, ListsOwn, Behind
  <2> QED
    BY <2>1
<1>11. Judged(me)'
  <2>1. y.unread => y.code \notin {0, 1}
    BY <1>5, <1>10
  <2>2. y.code = 0 => CleanOf(me)'
    BY <1>1, <1>5, <1>6, <1>8 DEF CleanOf
  <2>3. y.code = 1 => y.found \ Low # {}
    BY <1>5, <1>9
  <2>4. y.code = 1 <=> y.shown # {}
    BY <1>5, <1>9
  <2>5. y.shown \subseteq y.found \cup Unscanned(y)
    BY <1>5, <1>13 DEF Unscanned
  <2> QED
    BY <1>6, <2>1, <2>2, <2>3, <2>4, <2>5 DEF Judged
<1> QED
  BY <1>5, <1>6, <1>11, ClassPositions DEF RunInv

LEMMA InterruptRun ==
  ASSUME NEW me \in Scanners, TypeOK, RunInv(me), Interrupt(me)
  PROVE  RunInv(me)'
<1> DEFINE x == run[me]
           y == run'[me]
<1>1. x.at # 0 /\ x \in Run
  BY DEF Interrupt, Running, TypeOK
<1>2. x.shown = {}
  BY <1>1, ClassPositions DEF RunInv, Run, Sound, Begun
<1>3. y.at = 0 /\ y.code = 130 /\ y.shown = {} /\ y.unread = x.unread
  BY <1>2, InterruptFields
<1> HIDE DEF y
<1> QED
  BY <1>3, ClassPositions DEF RunInv, Judged, y

-----------------------------------------------------------------------------
(* The outside: an edited file is no longer left alone.                    *)
LEMMA EditRun ==
  ASSUME NEW me \in Scanners, TypeOK, RunInv(me), NEW f \in Files, Edit(f)
  PROVE  RunInv(me)'
<1> DEFINE x == run[me]
           y == run'[me]
<1>1. /\ UNCHANGED <<private, files, lists, errors>>
      /\ \A g \in Files : g # f => tree'[g] = tree[g]
  BY EditFields
<1>3. /\ y.at = x.at /\ y.code = x.code /\ y.shown = x.shown /\ y.terms = x.terms
      /\ y.found = x.found /\ y.unread = x.unread /\ y.fail = x.fail
      /\ y.steady = x.steady \ {f} /\ x.steady \subseteq Files
      /\ y.listed = x.listed /\ y.require = x.require
  BY EditFields
<1>4. run[me]' = y
  OBVIOUS
<1> HIDE DEF y
<1>5. \A g \in y.steady : g \in x.steady /\ tree'[g] = tree[g]
  BY <1>1, <1>3
<1>7. Judged(me) => Judged(me)'
  BY <1>3, <1>4, <1>5 DEF Judged, CleanOf, Unscanned
<1>8. Begun(me) => Begun(me)'
  BY <1>1, <1>3, <1>4 DEF Begun
<1>9. Sound(me) => Sound(me)'
  <2>1. ListsSteady(me) => ListsSteady(me)'
    BY <1>1, <1>3, <1>4, <1>5 DEF ListsSteady
  <2>2. CatchesBehind(me) => CatchesBehind(me)'
    BY <1>3, <1>4, <1>5 DEF CatchesBehind, Catches, Matches
  <2>3. AheadUntouched(me) => AheadUntouched(me)'
    BY <1>3, <1>4 DEF AheadUntouched
  <2>4. OwnResults(me) => OwnResults(me)'
    BY <1>1, <1>3, <1>4 DEF OwnResults
  <2>5. ListsOwn(me) => ListsOwn(me)'
    BY <1>1, <1>3, <1>4 DEF ListsOwn, Unscanned
  <2>6. MissingBreaks(me) => MissingBreaks(me)'
    BY <1>1, <1>3, <1>4, <1>5 DEF MissingBreaks
  <2>7. RequiresTerms(me) => RequiresTerms(me)'
    BY <1>3, <1>4 DEF RequiresTerms
  <2> QED
    BY <1>3, <1>4, <2>1, <2>2, <2>3, <2>4, <2>5, <2>6, <2>7 DEF Sound
<1> QED
  BY <1>3, <1>4, <1>7, <1>8, <1>9 DEF RunInv

-----------------------------------------------------------------------------
(* A run over files that nobody edits: its verdict is one of the tree.     *)
LEMMA JudgeIsOf ==
  ASSUME NEW r
  PROVE  Judge(r) = IF Listed = {} THEN 2
                    ELSE IF r.terms = <<>> /\ r.require THEN 3
                    ELSE IF Missing(Listed) \/ Bad \in Range(r.terms) THEN 2
                    ELSE IF Dirty(Listed, r.terms) THEN 1 ELSE 0
<1> DEFINE present == {f \in Files : tree[f] # Absent}
           ghosts  == IF InGit THEN NamedAsText \ present ELSE {}
           dirty   == \E c \in Range(Classes) \ Low, f \in present :
                         Matches(c, r.terms, tree[f])
<1>1. ghosts # {} <=> Missing(Listed)
  <2>1. CASE InGit
    BY <2>1, FilesAssumption DEF Missing, Listed
  <2>2. CASE ~InGit
    BY <2>2 DEF Missing, Listed
  <2> QED
    BY <2>1, <2>2, FilesAssumption
<1>2. dirty <=> Dirty(Listed, r.terms)
  BY DEF Dirty, Listed
<1>3. Judge(r) = IF Listed = {} THEN 2
                 ELSE IF r.terms = <<>> /\ r.require THEN 3
                 ELSE IF ghosts # {} \/ Bad \in Range(r.terms) THEN 2
                 ELSE IF dirty THEN 1 ELSE 0
  BY DEF Judge
<1> HIDE DEF ghosts, dirty
<1> QED
  BY <1>1, <1>2, <1>3

LEMMA ListTree ==
  ASSUME NEW me \in Scanners, TypeOK, RunInv(me), ListFiles(me)
  PROVE  TreeInv(me)'
<1> DEFINE x == run[me]
           y == run'[me]
<1>1. Begun(me)
  BY DEF ListFiles, RunInv
<1>3. /\ y.at = (IF Listed = {} THEN 0 ELSE 1)
      /\ y.code = (IF Listed = {} THEN 2 ELSE x.code)
      /\ y.fail = x.fail /\ y.listed = Listed
      /\ UNCHANGED <<tree, errors>>
  BY ListFields
<1>8. Listed' = Listed
  BY <1>3 DEF Listed
<1>4. run[me]' = y
  OBVIOUS
<1> HIDE DEF y
<1>5. CASE Listed = {}
  <2>1. Judge(run[me])' = 2
    BY <1>5, <1>8 DEF Judge
  <2> QED
    BY <1>3, <1>4, <1>5, <2>1, ClassPositions DEF TreeInv
<1>6. CASE Listed # {}
  <2>1. y.at = 1 /\ 1 # 0
    BY <1>3, <1>6
  <2>2. Told(me)'
    BY <1>1, <1>3, <1>4 DEF Told, Begun
  <2> QED
    BY <1>3, <1>4, <1>8, <2>1, <2>2 DEF TreeInv
<1> QED
  BY <1>5, <1>6

LEMMA ScanTree ==
  ASSUME NEW me \in Scanners, TypeOK, RunInv(me), TreeInv(me),
         run[me].at \in DOMAIN Classes,
         NEW terms \in Alternatives, Scan(me, Classes[run[me].at], terms)
  PROVE  TreeInv(me)'
<1> DEFINE x == run[me]
           k == x.at
           c == Classes[k]
           hit == Hit(c, terms, files[Out[me]])
           failed == Fails(c, terms, files[Out[me]])
           y == run'[me]
<1>1. /\ k \in Positions /\ Sound(me) /\ c \in Range(Classes)
      /\ files[Out[me]] = x.listed
  BY ClassPositions, ClassFacts DEF RunInv, Sound, ListsSteady
<1>2. /\ y.at = Next_at(k)
      /\ y.fail => x.fail \/ (hit /\ c \notin Low)
      /\ y.terms = (IF c = Private THEN terms ELSE x.terms)
      /\ y.steady = x.steady /\ y.listed = x.listed
      /\ tree' = tree /\ files' = files
  BY ScanFields
<1>3. errors'[Out[me]] <=> errors[Out[me]] \/ failed
  BY ScanFields
<1>4. y.at \in Positions \cup {Judging} /\ y.at # 0 /\ ~Behind(k, k)
  BY <1>1, <1>2, NextPosition, ClassPositions
<1>5. run[me]' = y
  OBVIOUS
<1> HIDE DEF y, hit, failed
<1>6. y.steady = Files => y.listed = Listed'
  BY <1>1, <1>2 DEF TreeInv, Listed
<1> SUFFICES ASSUME x.listed \subseteq x.steady PROVE Told(me)'
  BY <1>2, <1>4, <1>5, <1>6 DEF TreeInv
<1>7. Told(me)
  BY <1>1 DEF TreeInv
<1>8. c = Private => x.terms = <<>>
  BY <1>1, <1>4 DEF Sound, AheadUntouched
<1>10. y.fail => Dirty(x.listed, y.terms)
  <2>1. CASE x.fail
    <3>1. Dirty(x.listed, x.terms)
      BY <1>7, <2>1 DEF Told
    <3>2. PICK d \in Range(Classes) \ Low, f \in x.listed :
             tree[f] # Absent /\ Matches(d, x.terms, tree[f])
      BY <3>1 DEF Dirty
    <3>3. CASE c = Private
      <4>1. d # Private
        BY <1>8, <3>2, <3>3, ClassFacts DEF Matches
      <4>2. Matches(d, y.terms, tree[f])
        BY <3>2, <4>1 DEF Matches
      <4> QED
        BY <3>2, <4>2 DEF Dirty
    <3>4. CASE c # Private
      BY <1>2, <3>1, <3>4
    <3> QED
      BY <3>3, <3>4
  <2>2. CASE hit /\ c \notin Low
    <3>1. PICK f \in x.listed : tree[f] # Absent /\ Matches(c, terms, tree[f])
      BY <1>1, <2>2 DEF hit, Hit
    <3>2. Matches(c, y.terms, tree[f])
      BY <1>2, <3>1 DEF Matches
    <3> QED
      BY <1>1, <2>2, <3>1, <3>2 DEF Dirty
  <2> QED
    BY <1>2, <2>1, <2>2
<1>11. errors'[Out[me]] => Missing(x.listed) \/ Bad \in Range(y.terms)
  <2>1. failed => Missing(x.listed) \/ (c = Private /\ Bad \in Range(terms))
    BY <1>1 DEF failed, Fails, Missing
  <2>2. Bad \in Range(x.terms) => c # Private
    BY <1>8, ClassFacts
  <2> QED
    BY <1>2, <1>3, <1>7, <2>1, <2>2 DEF Told
<1> QED
  BY <1>2, <1>5, <1>10, <1>11 DEF Told, Dirty, Missing, Matches

LEMMA SkipTree ==
  ASSUME NEW me \in Scanners, TypeOK, RunInv(me), TreeInv(me), SkipPrivate(me)
  PROVE  TreeInv(me)'
<1> DEFINE x == run[me]
           k == x.at
           y == run'[me]
<1>1. /\ k \in Positions /\ Classes[k] = Private
      /\ UNCHANGED <<tree, private, files, lists, errors>>
  BY SkipFields
<1>2. /\ Next_at(k) \in Positions \cup {Judging} /\ Next_at(k) # 0
      /\ Sound(me) /\ ~Behind(k, k)
  BY <1>1, NextPosition, ClassPositions DEF RunInv
<1>3. /\ y.code = (IF x.require THEN 3 ELSE x.code)
      /\ y.at = (IF x.require THEN 0 ELSE Next_at(k))
      /\ y.fail = x.fail /\ y.terms = x.terms /\ y.require = x.require
      /\ y.steady = x.steady /\ y.listed = x.listed
  BY SkipFields
<1>4. run[me]' = y
  OBVIOUS
<1>5. x.terms = <<>> /\ files[Out[me]] # {} /\ files[Out[me]] = x.listed
  BY <1>1, <1>2 DEF Sound, AheadUntouched, ListsSteady
<1>6. Listed' = Listed /\ (x.steady = Files => x.listed = Listed)
  BY <1>1 DEF Listed, TreeInv
<1> HIDE DEF y
<1>7. CASE x.require
  <2>1. x.steady = Files => Judge(run[me])' = 3
    BY <1>3, <1>4, <1>5, <1>6, <1>7 DEF Judge
  <2> QED
    BY <1>3, <1>4, <1>7, <2>1, ClassPositions DEF TreeInv
<1>8. CASE ~x.require
  <2>1. Told(me) => Told(me)'
    BY <1>1, <1>3, <1>4 DEF Told, Dirty, Missing, Matches
  <2>2. x.listed \subseteq x.steady => Told(me)
    BY <1>1 DEF TreeInv
  <2> QED
    BY <1>2, <1>3, <1>4, <1>6, <1>8, <2>1, <2>2 DEF TreeInv
<1> QED
  BY <1>7, <1>8

\* At the verdict: what the flags say of the files and the terms.
LEMMA AtVerdict ==
  ASSUME NEW me \in Scanners, RunInv(me), TreeInv(me), run[me].at = Judging
  PROVE  LET x == run[me]  listed == x.listed IN
         /\ listed # {} /\ ~(x.terms = <<>> /\ x.require)
         /\ Bad \in Range(x.terms) => errors[Out[me]]
         /\ Empty \in Range(x.terms) => errors[Out[me]] \/ x.fail
         /\ Missing(listed \cap x.steady) => errors[Out[me]]
         /\ Dirty(listed \cap x.steady, x.terms) => x.fail
         /\ listed \subseteq x.steady => Told(me)
         /\ x.steady = Files => listed = Listed
<1> DEFINE x == run[me]
<1>1. Sound(me) /\ \A i \in Positions : Behind(i, x.at)
  BY DEF RunInv, Behind
<1>2. x.listed # {}
  BY <1>1 DEF Sound, ListsSteady
<1>3. ~(x.terms = <<>> /\ x.require)
  <2>1. PICK i \in Positions : Classes[i] = Private
    BY ClassFacts
  <2> QED
    BY <1>1, <2>1 DEF Sound, RequiresTerms
<1>4. Missing(x.listed \cap x.steady) => errors[Out[me]]
  <2>1. PICK i \in Positions : Classes[i] # Private
    <3>1. PICK c \in Range(Classes) : c # Private
      BY ClassesAssumption
    <3> QED
      BY <3>1, ClassFacts
  <2> QED
    BY <1>1, <2>1 DEF Sound, MissingBreaks, Missing
<1>5. ASSUME Dirty(x.listed \cap x.steady, x.terms) PROVE x.fail
  <2>1. PICK c \in Range(Classes) \ Low, f \in x.listed \cap x.steady :
           tree[f] # Absent /\ Matches(c, x.terms, tree[f])
    BY <1>5 DEF Dirty
  <2>2. PICK i \in Positions : c = Classes[i]
    BY <2>1, ClassFacts
  <2> QED
    BY <1>1, <2>1, <2>2 DEF Sound, CatchesBehind, Catches
<1>6. /\ Bad \in Range(x.terms) => errors[Out[me]]
      /\ Empty \in Range(x.terms) => errors[Out[me]] \/ x.fail
  BY <1>1 DEF Sound, OwnResults
<1>7. /\ x.listed \subseteq x.steady => Told(me)
      /\ x.steady = Files => x.listed = Listed
  BY DEF TreeInv
<1> QED
  BY <1>2, <1>3, <1>4, <1>5, <1>6, <1>7

LEMMA VerdictTree ==
  ASSUME NEW me \in Scanners, TypeOK, RunInv(me), TreeInv(me), Verdict(me)
  PROVE  TreeInv(me)'
<1> DEFINE x == run[me]
           y == run'[me]
<1>1. x.at = Judging
  BY DEF Verdict
<1>2. Code(me) = (IF errors[Out[me]] THEN 2 ELSE IF x.fail THEN 1 ELSE 0)
  BY DEF Code
<1>3. /\ y.at = 0 /\ y.code = Code(me) /\ y.terms = x.terms
      /\ y.require = x.require /\ y.steady = x.steady
      /\ UNCHANGED <<tree, private, files, lists, errors>>
  BY VerdictFields
<1>4. run[me]' = y
  OBVIOUS
<1> HIDE DEF y
<1> SUFFICES ASSUME x.steady = Files PROVE y.code = Judge(run[me])'
  BY <1>3, <1>4, ClassPositions DEF TreeInv
<1>5. Listed # {} /\ x.listed = Listed /\ Listed \cap x.steady = Listed
  BY <1>1, AtVerdict DEF Listed
<1>6. /\ ~(x.terms = <<>> /\ x.require) /\ Told(me)
      /\ Bad \in Range(x.terms) => errors[Out[me]]
      /\ Missing(Listed) => errors[Out[me]]
      /\ Dirty(Listed, x.terms) => x.fail
  BY <1>1, <1>5, AtVerdict
<1>7. /\ errors[Out[me]] <=> Missing(Listed) \/ Bad \in Range(x.terms)
      /\ x.fail <=> Dirty(Listed, x.terms)
  BY <1>5, <1>6 DEF Told
<1>8. Judge(x) = Code(me)
  BY <1>2, <1>5, <1>6, <1>7, JudgeIsOf
<1>9. Judge(run[me])' = Judge(x)
  BY <1>3, <1>4 DEF Judge, Listed, Matches
<1> QED
  BY <1>3, <1>8, <1>9

LEMMA EditTree ==
  ASSUME NEW me \in Scanners, TypeOK, TreeInv(me), NEW f \in Files, Edit(f)
  PROVE  TreeInv(me)'
<1> DEFINE x == run[me]
           y == run'[me]
<1>1. /\ y.at = x.at /\ y.fail = x.fail /\ y.terms = x.terms
      /\ y.listed = x.listed /\ y.steady = x.steady \ {f}
      /\ errors' = errors /\ \A g \in Files : g # f => tree'[g] = tree[g]
  BY EditFields
<1>2. x.listed \subseteq Files
  BY DEF TypeOK, Run
<1>3. run[me]' = y
  OBVIOUS
<1> HIDE DEF y
<1>4. y.steady # Files
  BY <1>1
<1>5. ASSUME x.at \in Positions \cup {Judging}, y.listed \subseteq y.steady
      PROVE  Told(me)'
  <2>1. x.listed \subseteq x.steady /\ f \notin x.listed
    BY <1>1, <1>5
  <2>2. \A g \in x.listed : tree'[g] = tree[g]
    BY <1>1, <1>2, <2>1
  <2>3. Told(me)
    BY <1>5, <2>1 DEF TreeInv
  <2> QED
    BY <1>1, <1>3, <2>2, <2>3 DEF Told, Dirty, Missing, Matches
<1> QED
  BY <1>1, <1>3, <1>4, <1>5 DEF TreeInv

-----------------------------------------------------------------------------
(* Several scanners.                                                       *)
Step(s) == \/ Begin(s) \/ ListFiles(s) \/ ScanClass(s) \/ ScanPrivate(s)
           \/ SkipPrivate(s) \/ Verdict(s) \/ Interrupt(s)

\* The terms that a scan is given are ones that can be.
LEMMA ScanSteps ==
  ASSUME NEW me \in Scanners, TypeOK, ScanClass(me) \/ ScanPrivate(me)
  PROVE  /\ run[me].at \in DOMAIN Classes
         /\ \E terms \in Alternatives :
              /\ Classes[run[me].at] = Private => terms # <<>>
              /\ Scan(me, Classes[run[me].at], terms)
<1>1. CASE ScanClass(me)
  <2>1. run[me].terms \in Alternatives
    BY DEF TypeOK, Run
  <2> QED
    BY <1>1, <2>1 DEF ScanClass
<1>2. CASE ScanPrivate(me)
  <2> DEFINE terms == PRIV_TERMS(run[me].env, private)
  <2>1. terms \in Alternatives
    BY DEF TypeOK, Run, Alternatives
  <2>2. /\ run[me].at \in DOMAIN Classes /\ terms # <<>>
        /\ Scan(me, Classes[run[me].at], terms)
    BY <1>2 DEF ScanPrivate
  <2> HIDE DEF terms
  <2> QED
    BY <2>1, <2>2
<1> QED
  BY <1>1, <1>2

LEMMA StepTypes ==
  ASSUME NEW me \in Scanners, TypeOK, Step(me)
  PROVE  TypeOK'
<1>1. CASE Begin(me)
  BY <1>1, BeginFields
<1>2. CASE ListFiles(me)
  BY <1>2, ListFields
<1>3. CASE ScanClass(me) \/ ScanPrivate(me)
  BY <1>3, ScanSteps, ScanFields
<1>4. CASE SkipPrivate(me)
  BY <1>4, SkipFields
<1>5. CASE Verdict(me)
  BY <1>5, VerdictFields
<1>6. CASE Interrupt(me)
  BY <1>6, InterruptFields
<1> QED
  BY <1>1, <1>2, <1>3, <1>4, <1>5, <1>6 DEF Step

\* A step past the first one leaves the runs of the others as they are.
LEMMA StepLeaves ==
  ASSUME NEW me \in Scanners, TypeOK, Step(me), ~Begin(me)
  PROVE  /\ Running(me) /\ run'[me].shared = run[me].shared
         /\ \A t \in Scanners : t # me => run'[t] = run[t]
<1>1. run[me] \in Run
  BY DEF TypeOK
<1>2. CASE ListFiles(me)
  <2> DEFINE z == IF Listed = {} THEN Exit(run[me], 2) ELSE [run[me] EXCEPT !.at = 1]
             w == [z EXCEPT !.listed = Listed]
             y == [w EXCEPT !.steady = Files]
  <2>1. run' = [run EXCEPT ![me] = y]
    BY <1>2 DEF ListFiles
  <2>2. 1 \in 0..Judging /\ Listing # 0
    BY ClassPositions
  <2>3. z \in Run
    BY <1>1, <2>2, RunFields
  <2>4. z.shared = run[me].shared
    BY <1>1 DEF Exit, Run
  <2>6. w \in Run /\ w.shared = run[me].shared
    BY <2>3, <2>4 DEF Run, Listed
  <2>5. y.shared = run[me].shared
    BY <2>6 DEF Run
  <2> HIDE DEF y, z, w
  <2> QED
    BY <1>2, <2>1, <2>2, <2>5 DEF ListFiles, Running, TypeOK
<1>3. CASE ScanClass(me) \/ ScanPrivate(me)
  <2>1. PICK terms : Scan(me, Classes[run[me].at], terms)
    BY <1>3, ScanSteps
  <2>2. run[me].at \in DOMAIN Classes
    BY <1>3, ScanSteps
  <2> QED
    BY <1>1, <2>1, <2>2, ClassPositions DEF Scan, Running, TypeOK, Run
<1>4. CASE SkipPrivate(me)
  <2> DEFINE y == IF run[me].require THEN Exit(run[me], 3)
                  ELSE [run[me] EXCEPT !.at = Next_at(run[me].at)]
  <2>1. run' = [run EXCEPT ![me] = y] /\ run[me].at # 0
    BY <1>4, ClassPositions DEF SkipPrivate
  <2>2. y.shared = run[me].shared
    BY <1>1 DEF Exit, Run
  <2> HIDE DEF y
  <2> QED
    BY <2>1, <2>2 DEF Running, TypeOK
<1>5. CASE Verdict(me)
  <2> DEFINE list == IF Code(me) = 1 THEN lists[Out[me]] \ Low ELSE {}
             y == [Exit(run[me], Code(me)) EXCEPT !.shown = list]
  <2>1. run' = [run EXCEPT ![me] = y] /\ run[me].at # 0
    BY <1>5, ClassPositions DEF Verdict
  <2>2. y.shared = run[me].shared
    BY <1>1 DEF Exit, Run
  <2> HIDE DEF y
  <2> QED
    BY <2>1, <2>2 DEF Running, TypeOK
<1>6. CASE Interrupt(me)
  BY <1>1, <1>6 DEF Interrupt, Running, TypeOK, Exit, Run
<1> QED
  BY <1>2, <1>3, <1>4, <1>5, <1>6 DEF Step

\* What a scanner is to leave alone of another one: its run and its files.
Aside(t) ==
    /\ run'[t] = run[t] /\ tree' = tree
    /\ Running(t) => /\ files'[Out[t]] = files[Out[t]]
                     /\ lists'[Out[t]] = lists[Out[t]]
                     /\ errors'[Out[t]] = errors[Out[t]]

\* A step of one does that, unless they are at work in the same directory.
LEMMA StepAside ==
  ASSUME NEW me \in Scanners, NEW t \in Scanners, t # me, TypeOK, Apart, Step(me),
         t \in Alone'
  PROVE  Aside(t) /\ t \in Alone
<1>1. run[t] \in Run /\ Out[me] \in OutDirs /\ Out[t] \in OutDirs
  BY OutAssumption DEF TypeOK
<1>2. tree' = tree
  BY ScanSteps DEF Step, Begin, ListFiles, Scan, SkipPrivate, Verdict, Interrupt
<1>3. CASE Begin(me)
  <2>1. run'[t] = [run[t] EXCEPT !.shared = run[t].shared \/ t \in In(Out[me])]
    BY <1>3, BeginFields
  <2>2. ~run[t].shared /\ t \notin In(Out[me])
    BY <1>1, <2>1 DEF Alone, Run
  <2>3. run'[t] = run[t]
    BY <1>1, <2>1, <2>2 DEF Run
  <2>4. Running(t) => Out[t] # Out[me]
    BY <2>2 DEF In
  <2> QED
    BY <1>1, <1>2, <1>3, <2>2, <2>3, <2>4 DEF Aside, Begin, TypeOK, Alone
<1>4. CASE ~Begin(me)
  <2>1. Running(me) /\ run'[t] = run[t]
    BY <1>4, StepLeaves
  <2>2. t \in Alone
    BY <2>1 DEF Alone
  <2>3. Running(t) => Out[t] # Out[me]
    BY <2>1, <2>2 DEF Apart
  <2>4. ASSUME Out[t] # Out[me]
        PROVE  /\ files'[Out[t]] = files[Out[t]]
               /\ lists'[Out[t]] = lists[Out[t]]
               /\ errors'[Out[t]] = errors[Out[t]]
    <3>1. CASE ListFiles(me)
      BY <1>1, <2>4, <3>1 DEF ListFiles, TypeOK
    <3>2. CASE ScanClass(me) \/ ScanPrivate(me)
      <4>1. PICK terms : Scan(me, Classes[run[me].at], terms)
        BY <3>2, ScanSteps
      <4> QED
        BY <1>1, <2>4, <4>1 DEF Scan, TypeOK
    <3>3. CASE SkipPrivate(me) \/ Verdict(me) \/ Interrupt(me)
      BY <3>3 DEF SkipPrivate, Verdict, Interrupt
    <3> QED
      BY <1>4, <3>1, <3>2, <3>3 DEF Step
  <2> QED
    BY <1>2, <2>1, <2>2, <2>3, <2>4 DEF Aside
<1> QED
  BY <1>3, <1>4

\* And so what it knows remains true.
LEMMA AsideKeeps ==
  ASSUME NEW t \in Scanners, TypeOK, Aside(t), RunInv(t), TreeInv(t)
  PROVE  RunInv(t)' /\ TreeInv(t)'
<1>1. CASE Running(t)
  BY <1>1 DEF Aside, RunInv, Judged, CleanOf, Begun, Sound, ListsSteady, CatchesBehind,
              Catches, Matches, AheadUntouched, OwnResults, ListsOwn, Unscanned,
              TreeInv, Told, Listed, Missing, Dirty, Judge,
              MissingBreaks, RequiresTerms
<1>2. CASE ~Running(t)
  <2>1. run[t].at = 0 /\ Judged(t)
    BY <1>2 DEF Running, RunInv
  <2>2. RunInv(t)'
    BY <2>1, ClassPositions DEF Aside, RunInv, Judged, CleanOf, Unscanned
  <2>3. Judge(run[t])' = Judge(run[t])
    BY DEF Aside, Judge, Listed, Matches
  <2>4. TreeInv(t)'
    BY <2>1, <2>3, ClassPositions DEF Aside, TreeInv
  <2> QED
    BY <2>2, <2>4
<1> QED
  BY <1>1, <1>2

\* A scanner's own step, when it is alone.
LEMMA StepKeeps ==
  ASSUME NEW me \in Scanners, TypeOK, Step(me), me \in Alone',
         me \in Alone => RunInv(me) /\ TreeInv(me)
  PROVE  RunInv(me)' /\ TreeInv(me)'
<1>1. CASE Begin(me)
  <2>1. Begun(me)' /\ run'[me].at = Listing
    BY <1>1, BeginFields DEF Begun
  <2> QED
    BY <2>1, ClassPositions DEF RunInv, TreeInv
<1>2. CASE ~Begin(me)
  <2>1. RunInv(me) /\ TreeInv(me)
    BY <1>2, StepLeaves DEF Alone
  <2>2. CASE ListFiles(me)
    BY <2>1, <2>2, ListRun, ListTree
  <2>3. CASE ScanClass(me) \/ ScanPrivate(me)
    BY <2>1, <2>3, ScanSteps, ScanRun, ScanTree
  <2>4. CASE SkipPrivate(me)
    BY <2>1, <2>4, SkipRun, SkipTree
  <2>5. CASE Verdict(me)
    BY <2>1, <2>5, VerdictRun, VerdictTree
  <2>6. CASE Interrupt(me)
    <3>1. run'[me].at = 0 /\ run'[me].code = 130
      BY <2>6, InterruptFields
    <3> QED
      BY <2>1, <2>6, <3>1, InterruptRun, ClassPositions DEF TreeInv
  <2> QED
    BY <1>2, <2>2, <2>3, <2>4, <2>5, <2>6 DEF Step
<1> QED
  BY <1>1, <1>2

\* Nobody joins a scanner in its directory without both being told.
LEMMA StepApart ==
  ASSUME NEW me \in Scanners, TypeOK, Apart, Step(me)
  PROVE  Apart'
<1> SUFFICES ASSUME NEW s \in Alone', NEW t \in Scanners, s # t,
                    Running(s)', Running(t)'
             PROVE  Out[s] # Out[t]
  BY DEF Apart, Alone
<1>1. s \in Scanners
  BY DEF Alone
<1>2. CASE ~Begin(me)
  <2>1. Running(s) /\ Running(t) /\ s \in Alone
    BY <1>1, <1>2, StepLeaves DEF Running, Alone
  <2> QED
    BY <2>1 DEF Apart
<1>3. CASE Begin(me)
  <2>1. CASE s = me
    <3>1. In(Out[me]) = {} /\ run'[t] = [run[t] EXCEPT !.shared = run[t].shared \/ t \in In(Out[me])]
      BY <1>3, <2>1, BeginFields DEF Alone
    <3>2. Running(t)
      BY <3>1 DEF Running, TypeOK, Run
    <3> QED
      BY <2>1, <3>1, <3>2 DEF In
  <2>2. CASE s # me
    <3>1. Aside(s) /\ s \in Alone
      BY <1>1, <1>3, <2>2, StepAside DEF Step
    <3>2. Running(s)
      BY <3>1 DEF Aside, Running
    <3>3. run'[s] = [run[s] EXCEPT !.shared = run[s].shared \/ s \in In(Out[me])]
      BY <1>1, <1>3, <2>2, BeginFields
    <3>4. s \notin In(Out[me])
      BY <1>1, <3>3, StepTypes DEF Alone, TypeOK, Run
    <3>5. CASE t = me
      BY <1>1, <3>2, <3>4, <3>5 DEF In
    <3>6. CASE t # me
      <4>1. run'[t] = [run[t] EXCEPT !.shared = run[t].shared \/ t \in In(Out[me])]
        BY <1>3, <3>6, BeginFields
      <4>2. Running(t)
        BY <4>1 DEF Running, TypeOK, Run
      <4> QED
        BY <3>1, <3>2, <4>2 DEF Apart
    <3> QED
      BY <3>5, <3>6
  <2> QED
    BY <2>1, <2>2
<1> QED
  BY <1>2, <1>3

-----------------------------------------------------------------------------
(* What runs know, and that the steps of all keep it.                      *)
THEOREM Invariance == Spec => []IInv
<1>1. Init => IInv
  <2> SUFFICES ASSUME Init PROVE IInv
    OBVIOUS
  <2>1. TypeOK
    BY IdleIsRun DEF Init, TypeOK
  <2>2. ASSUME NEW s \in Scanners
        PROVE  run[s].at = 0 /\ RunInv(s) /\ TreeInv(s)
    <3>1. run[s] = Idle
      BY DEF Init
    <3> QED
      BY <3>1, ClassPositions DEF RunInv, TreeInv, Judged, Idle
  <2>3. Apart
    BY <2>2 DEF Apart, Running, Alone
  <2> QED
    BY <2>1, <2>2, <2>3 DEF IInv, Alone
<1>2. IInv /\ [Next]_vars => IInv'
  <2> SUFFICES ASSUME IInv, [Next]_vars PROVE IInv'
    OBVIOUS
  <2>1. ASSUME NEW me \in Scanners, Step(me) PROVE IInv'
    <3>1. TypeOK' /\ Apart'
      BY <2>1, StepTypes, StepApart DEF IInv
    <3>2. ASSUME NEW t \in Alone' PROVE RunInv(t)' /\ TreeInv(t)'
      <4>1. t \in Scanners
        BY DEF Alone
      <4>2. CASE t = me
        BY <2>1, <3>2, <4>2, StepKeeps DEF IInv
      <4>3. CASE t # me
        <5>1. Aside(t) /\ t \in Alone
          BY <2>1, <3>2, <4>1, <4>3, StepAside DEF IInv
        <5> QED
          BY <4>1, <5>1, AsideKeeps DEF IInv
      <4> QED
        BY <4>2, <4>3
    <3> QED
      BY <3>1, <3>2 DEF IInv
  <2>2. ASSUME NEW f \in Files, Edit(f) PROVE IInv'
    <3>1. TypeOK' /\ \A t \in Scanners : /\ run'[t].at = run[t].at
                                         /\ run'[t].shared = run[t].shared
      BY <2>2, EditFields DEF IInv
    <3>2. Apart' /\ Alone' = Alone
      BY <3>1 DEF IInv, Apart, Alone, Running
    <3>3. ASSUME NEW t \in Alone PROVE RunInv(t)' /\ TreeInv(t)'
      BY <2>2, EditRun, EditTree DEF IInv, Alone
    <3> QED
      BY <3>1, <3>2, <3>3 DEF IInv
  <2>3. CASE SetTerms \/ UNCHANGED vars
    <3>1. /\ UNCHANGED <<tree, files, lists, errors, run>>
          /\ private' \in TermLists \cup {Absent}
      BY <2>3 DEF SetTerms, vars, IInv, TypeOK
    <3>2. TypeOK' /\ Apart' /\ Alone' = Alone
      BY <3>1 DEF IInv, TypeOK, Apart, Alone, Running
    <3>3. \A t \in Alone : t \in Scanners /\ Aside(t) /\ RunInv(t) /\ TreeInv(t)
      BY <3>1 DEF Aside, IInv, Alone
    <3>4. \A t \in Alone : RunInv(t)' /\ TreeInv(t)'
      BY <3>3, AsideKeeps DEF IInv
    <3> QED
      BY <3>2, <3>4 DEF IInv
  <2> QED
    BY <2>1, <2>2, <2>3 DEF Next, Step
<1> QED
  BY <1>1, <1>2, PTL DEF Spec

\* What the invariant says of a scanner that is not at work.
LEMMA Outcome ==
  ASSUME IInv, NEW s \in Alone
  PROVE  /\ Judged(s)
         /\ run[s].code # -1 => run[s].at = 0
<1>1. s \in Scanners /\ RunInv(s)
  BY DEF IInv, Alone
<1>2. run[s].at \in {0, Listing, Judging} \cup Positions
  BY <1>1, ClassPositions DEF IInv, TypeOK, Run
<1>3. CASE run[s].at = 0
  BY <1>1, <1>3 DEF RunInv
<1>4. CASE run[s].at # 0
  <2>1. run[s].code = -1 /\ run[s].shown = {}
    BY <1>1, <1>2, <1>4 DEF RunInv, Begun, Sound
  <2> QED
    BY <2>1 DEF Judged
<1> QED
  BY <1>3, <1>4

(* Every variable keeps its type, however many copies share a directory.   *)
THEOREM TypeCorrect == Spec => []TypeOK
<1>1. IInv => TypeOK
  BY DEF IInv
<1> QED
  BY <1>1, Invariance, PTL

(* A PASS means that no file left alone since the listing holds a HIGH or  *)
(* MED identifier or a loaded private term.                                *)
THEOREM PassSound == Spec => []PassIsClean
<1>1. IInv => PassIsClean
  BY Outcome DEF PassIsClean, Judged, CleanOf
<1> QED
  BY <1>1, Invariance, PTL

(* A run in which some grep failed never exits with 0 or 1.                *)
THEOREM BrokenSound == Spec => []BrokenWins
<1>1. IInv => BrokenWins
  BY Outcome DEF BrokenWins, Judged
<1> QED
  BY <1>1, Invariance, PTL

(* A FAIL comes of a HIGH or MED hit of the same run.                      *)
THEOREM FailSound == Spec => []FailIsFound
<1>1. IInv => FailIsFound
  BY Outcome DEF FailIsFound, Judged
<1> QED
  BY <1>1, Invariance, PTL

(* A FAIL prints hits of the same run, and the private list of an earlier  *)
(* one only when no private term was loaded.                               *)
THEOREM ShownSound == Spec => []ShownIsFound
<1>1. IInv => ShownIsFound
  BY Outcome DEF ShownIsFound, Judged
<1> QED
  BY <1>1, Invariance, PTL

(* The exit code of a run during which no listed file changed is what a    *)
(* look at the tree and the loaded terms gives, whatever earlier and       *)
(* interrupted runs left in the result directory.                          *)
THEOREM VerdictSound == Spec => []VerdictOfTheTree
<1>1. IInv => VerdictOfTheTree
  <2> SUFFICES ASSUME IInv, NEW s \in Alone, run[s].code \in {0, 1, 2, 3},
                      run[s].steady = Files
               PROVE  run[s].code = Judge(run[s])
    BY DEF VerdictOfTheTree
  <2>1. run[s].at = 0
    BY Outcome
  <2> QED
    BY <2>1 DEF IInv, TreeInv
<1> QED
  BY <1>1, Invariance, PTL

-----------------------------------------------------------------------------
(* The script keeps ScanPromise: what each step looks like to those who    *)
(* wait for the exit code.                                                 *)
Look(pc, terms, steady, edited) ==
    [pc |-> pc, terms |-> terms, steady |-> steady, edited |-> edited]

Unseen == Look("none", {}, {}, FALSE)

Gone == Look("refused", {}, {}, FALSE)

Open(r, pc) == Look(pc, Range(r.terms), r.listed \cap r.steady, Edited(r))

\* What ScanPromise assigns, field by field, is the look it then has.
LEMMA NoneIs ==
  /\ Promise!None = Unseen
  /\ [Promise!None EXCEPT !.pc = "refused"] = Gone
  /\ \A listed : [Promise!None EXCEPT !.pc = "listed", !.steady = listed]
                   = Look("listed", {}, listed, FALSE)
<1> DEFINE no == FALSE
           none == Promise!None
           a == [none EXCEPT !.pc = "listed"]
<1>1. none = [pc |-> "none", terms |-> {}, steady |-> {}, edited |-> no]
  BY DEF Promise!None
<1> HIDE DEF none, no
<1>2. [none EXCEPT !.pc = "refused"]
        = [pc |-> "refused", terms |-> {}, steady |-> {}, edited |-> no]
  BY <1>1
<1>3. a = [pc |-> "listed", terms |-> {}, steady |-> {}, edited |-> no]
  BY <1>1
<1>4. ASSUME NEW listed
      PROVE  [none EXCEPT !.pc = "listed", !.steady = listed] = [a EXCEPT !.steady = listed]
  OBVIOUS
<1> HIDE DEF a
<1>5. ASSUME NEW listed
      PROVE  [a EXCEPT !.steady = listed]
               = [pc |-> "listed", terms |-> {}, steady |-> listed, edited |-> no]
  BY <1>3
<1> QED
  BY <1>1, <1>2, <1>4, <1>5 DEF none, no, Unseen, Gone, Look

LEMMA LoadSeen ==
  ASSUME NEW me \in Scanners, NEW r, NEW terms, tree' = tree,
         Scans[me] = Open(r, "listed"), Scans = [s \in Scanners |-> Scans[s]],
         Scans' = [Scans EXCEPT ![me] = Look("loaded", terms, r.listed \cap r.steady,
                                             Edited(r))]
  PROVE  Promise!Load(me, terms)
<1> DEFINE o == Scans[me]
           a == [o EXCEPT !.pc = "loaded"]
           b == [a EXCEPT !.terms = terms]
<1>1. [Scans EXCEPT ![me].pc = "loaded", ![me].terms = terms] = [Scans EXCEPT ![me] = b]
  OBVIOUS
<1>2. o = Open(r, "listed") /\ Scans[me].pc = "listed"
  BY DEF Open, Look
<1> HIDE DEF o
<1>3. a = Look("loaded", Range(r.terms), r.listed \cap r.steady, Edited(r))
  BY <1>2 DEF Open, Look
<1> HIDE DEF a
<1>4. b = Look("loaded", terms, r.listed \cap r.steady, Edited(r))
  BY <1>3 DEF Look
<1> HIDE DEF b
<1> QED
  BY <1>1, <1>2, <1>4 DEF Promise!Load

LEMMA PassSeen ==
  ASSUME NEW me \in Scanners, NEW r, tree' = tree, Promise!Clean(me),
         Scans[me] = Open(r, "loaded"), Scans = [s \in Scanners |-> Scans[s]],
         Scans' = [Scans EXCEPT ![me] = Open(r, "passed")]
  PROVE  Promise!Pass(me)
<1> DEFINE o == Scans[me]
           a == [o EXCEPT !.pc = "passed"]
<1>1. [Scans EXCEPT ![me].pc = "passed"] = [Scans EXCEPT ![me] = a]
  OBVIOUS
<1>2. o = Open(r, "loaded") /\ Scans[me].pc = "loaded"
  BY DEF Open, Look
<1> HIDE DEF o
<1>3. a = Open(r, "passed")
  BY <1>2 DEF Open, Look
<1> HIDE DEF a
<1> QED
  BY <1>1, <1>2, <1>3 DEF Promise!Pass

\* The stages of a run.
LEMMA Stages ==
  ASSUME NEW r
  PROVE  /\ r.shared \/ r.at = Listing => Seen(r) = Unseen
         /\ r.at = 0 /\ r.code \notin {0, 1, 2} => Seen(r) = Unseen
         /\ r.at = 0 /\ r.code # 0 /\ r.listed = {} => Seen(r) = Unseen
         /\ (~r.shared /\ r.at = 0 /\ r.code \in {1, 2} /\ r.listed # {})
              => Seen(r) = Gone
         /\ ~r.shared /\ r.at = 0 /\ r.code = 0 => Seen(r) = Open(r, "passed")
<1>1. /\ r.shared \/ r.at = Listing => Stage(r) = "none"
      /\ r.at = 0 /\ r.code \notin {0, 1, 2} => Stage(r) = "none"
      /\ r.at = 0 /\ r.code # 0 /\ r.listed = {} => Stage(r) = "none"
      /\ (~r.shared /\ r.at = 0 /\ r.code \in {1, 2} /\ r.listed # {})
           => Stage(r) = "refused"
      /\ ~r.shared /\ r.at = 0 /\ r.code = 0 => Stage(r) = "passed"
  BY ClassPositions DEF Stage
<1>2. /\ Stage(r) = "none" => Seen(r) = Unseen
      /\ Stage(r) = "refused" => Seen(r) = Gone
      /\ Stage(r) = "passed" => Seen(r) = Open(r, "passed")
  BY DEF Seen, Unseen, Gone, Open, Look
<1> QED
  BY <1>1, <1>2

LEMMA StagesAtWork ==
  ASSUME NEW r, ~r.shared, r.at \in Positions \cup {Judging},
         NEW i \in Positions, Classes[i] = Private
  PROVE  Seen(r) = Open(r, IF Behind(i, r.at) THEN "loaded" ELSE "listed")
<1>1. r.at # 0 /\ r.at # Listing
  BY ClassPositions
<1>2. PrivateRead(r) <=> i < r.at
  BY ClassPositions, ClassFacts DEF PrivateRead
<1>3. i < r.at <=> Behind(i, r.at)
  <2>1. Len(Classes) \in Nat /\ i \in 1..Len(Classes) /\ Positions = 1..Len(Classes)
        /\ Judging = Len(Classes) + 2
    BY ClassPositions DEF Positions
  <2>2. i < Judging /\ Judging \notin Positions
    BY <2>1
  <2> QED
    BY <2>2 DEF Behind
<1>4. Stage(r) = IF Behind(i, r.at) THEN "loaded" ELSE "listed"
  BY <1>1, <1>2, <1>3 DEF Stage
<1> QED
  BY <1>4 DEF Seen, Open, Look

\* What the flags at the verdict say of the files that nobody edited.
LEMMA VerdictMeans ==
  ASSUME NEW me \in Scanners, RunInv(me), TreeInv(me), run[me].at = Judging,
         Scans[me] = Open(run[me], "loaded")
  PROVE  /\ Code(me) = 0 => Promise!Clean(me)
         /\ (Code(me) # 0 /\ run[me].listed \subseteq run[me].steady)
              => ~Promise!Clean(me)
<1> DEFINE x == run[me]
           listed == x.listed \cap x.steady
           terms == Range(x.terms)
<1>1. Code(me) = (IF errors[Out[me]] THEN 2 ELSE IF x.fail THEN 1 ELSE 0)
  BY DEF Code
<1>2. Scans[me].terms = terms /\ Scans[me].steady = listed
  BY DEF Open, Look
<1>3. Promise!Clean(me) <=>
        /\ Bad \notin terms /\ Empty \notin terms
        /\ \A f \in listed : tree[f] # Absent /\ tree[f] \cap (Public \cup terms) = {}
  BY <1>2 DEF Promise!Clean
<1> HIDE DEF listed, terms
<1>4. ASSUME Code(me) = 0 PROVE Promise!Clean(me)
  <2>1. ~errors[Out[me]] /\ ~x.fail
    BY <1>1, <1>4
  <2>2. Bad \notin terms /\ Empty \notin terms /\ ~Missing(listed)
        /\ ~Dirty(listed, x.terms)
    BY <2>1, AtVerdict DEF listed, terms
  <2>3. ASSUME NEW f \in listed
        PROVE  tree[f] # Absent /\ tree[f] \cap (Public \cup terms) = {}
    <3>1. tree[f] # Absent
      BY <2>2 DEF Missing
    <3>2. \A c \in Range(Classes) \ Low : ~Matches(c, x.terms, tree[f])
      BY <2>2, <3>1 DEF Dirty
    <3>3. \A c \in Public : c \notin tree[f]
      BY <3>2 DEF Public, Matches
    <3>4. tree[f] \cap terms = {}
      BY <2>2, <3>2, ClassFacts DEF Matches, terms
    <3> QED
      BY <3>1, <3>3, <3>4
  <2> QED
    BY <1>3, <2>2, <2>3
<1>5. ASSUME Code(me) # 0, x.listed \subseteq x.steady PROVE ~Promise!Clean(me)
  <2>1. Told(me) /\ listed = x.listed
    BY <1>5, AtVerdict DEF listed
  <2>2. CASE errors[Out[me]]
    BY <1>3, <2>1, <2>2 DEF Told, Missing, terms
  <2>3. CASE ~errors[Out[me]]
    <3>1. Dirty(listed, x.terms)
      BY <1>1, <1>5, <2>1, <2>3 DEF Told
    <3>2. PICK c \in Range(Classes) \ Low, f \in listed :
             tree[f] # Absent /\ Matches(c, x.terms, tree[f])
      BY <3>1 DEF Dirty
    <3>3. CASE c = Private
      BY <1>3, <3>2, <3>3 DEF Matches, terms
    <3>4. CASE c # Private
      BY <1>3, <3>2, <3>4 DEF Matches, Public
    <3> QED
      BY <3>3, <3>4
  <2> QED
    BY <2>2, <2>3
<1> QED
  BY <1>4, <1>5

\* A run that has begun, and is alone, is seen to do what is promised.
LEMMA AloneSteps ==
  ASSUME TypeOK, NEW me \in Alone, RunInv(me), TreeInv(me), Step(me), ~Begin(me)
  PROVE  Promise!Next \/ UNCHANGED <<tree, Scans>>
<1> DEFINE x == run[me]
           y == run'[me]
<1>1. me \in Scanners /\ ~x.shared /\ x \in Run
  BY DEF Alone, TypeOK
<1>2. ~y.shared /\ \A t \in Scanners : t # me => run'[t] = run[t]
  BY <1>1, StepLeaves
<1>3. Scans[me] = Seen(x) /\ Scans' = [Scans EXCEPT ![me] = Seen(y)]
  BY <1>1, <1>2 DEF Scans
<1>4. tree' = tree
  BY <1>1, ScanSteps DEF Step, Begin, ListFiles, Scan, SkipPrivate, Verdict, Interrupt
<1>5. Scans = [s \in Scanners |-> Scans[s]]
  BY DEF Scans
<1>6. PICK p \in Positions : Classes[p] = Private
  BY ClassFacts
<1>7. x.at \in Positions \cup {Judging} =>
        Seen(x) = Open(x, IF Behind(p, x.at) THEN "loaded" ELSE "listed")
  BY <1>1, <1>6, StagesAtWork
<1>8. y.at \in Positions \cup {Judging} =>
        Seen(y) = Open(y, IF Behind(p, y.at) THEN "loaded" ELSE "listed")
  BY <1>2, <1>6, StagesAtWork
<1> HIDE DEF y
<1>9. ASSUME Seen(y) = Seen(x) PROVE UNCHANGED <<tree, Scans>>
  BY <1>1, <1>3, <1>4, <1>5, <1>9
<1>10. ASSUME Seen(y) = Unseen PROVE Promise!Next
  <2>1. Scans' = [s \in Scanners |-> IF s \in {me} THEN Unseen ELSE Scans[s]]
    BY <1>1, <1>3, <1>5, <1>10
  <2>2. Promise!End({me})
    BY <1>4, <2>1, NoneIs DEF Promise!End
  <2> QED
    BY <1>1, <2>2 DEF Promise!Next
<1>11. CASE ListFiles(me)
  <2>1. /\ y.steady = Files /\ y.listed = Listed /\ y.terms = x.terms
        /\ y.at = (IF Listed = {} THEN 0 ELSE 1)
        /\ y.code = (IF Listed = {} THEN 2 ELSE x.code)
    BY <1>1, <1>11, ListFields DEF y
  <2>2. x.at = Listing /\ Begun(me)
    BY <1>11 DEF ListFiles, RunInv
  <2>3. Seen(x) = Unseen
    BY <2>2, Stages
  <2>4. CASE Listed = {}
    BY <1>9, <2>1, <2>3, <2>4, Stages
  <2>5. CASE Listed # {}
    <3>1. y.at \in Positions /\ ~Behind(p, y.at)
      BY <2>1, <2>5, <1>6, ClassPositions DEF Behind, Positions
    <3>2. Range(y.terms) = {} /\ Listed \in SUBSET Files
      BY <2>1, <2>2, ClassFacts DEF Begun, Listed
    <3>3. Seen(y) = Look("listed", {}, Listed, FALSE)
      <4>1. y.listed \cap y.steady = Listed /\ Edited(y) = FALSE
        BY <2>1, <3>2 DEF Edited
      <4> QED
        BY <1>8, <3>1, <3>2, <4>1 DEF Open
    <3>4. Promise!List(me, Listed)
      <4>1. Scans[me].pc = "none"
        BY <1>3, <2>3 DEF Unseen, Look
      <4> QED
        BY <1>3, <1>4, <2>5, <3>3, <4>1, NoneIs DEF Promise!List
    <3> QED
      BY <1>1, <3>2, <3>4 DEF Promise!Next
  <2> QED
    BY <2>4, <2>5
<1>12. CASE ScanClass(me) \/ ScanPrivate(me)
  <2>1. PICK terms \in Alternatives : Scan(me, Classes[x.at], terms)
    BY <1>1, <1>12, ScanSteps
  <2>2. x.at \in Positions /\ x.at \in DOMAIN Classes
    BY <1>1, <1>12, ScanSteps, ClassPositions
  <2>3. /\ y.at = Next_at(x.at)
        /\ y.terms = (IF Classes[x.at] = Private THEN terms ELSE x.terms)
        /\ y.steady = x.steady /\ y.listed = x.listed
    BY <1>1, <2>1, <2>2, ScanFields DEF y
  <2>4. /\ y.at \in Positions \cup {Judging} /\ ~Behind(x.at, x.at)
        /\ Behind(p, y.at) <=> Behind(p, x.at) \/ p = x.at
    BY <2>2, <2>3, NextPosition
  <2>5. CASE Classes[x.at] = Private
    <3>1. p = x.at /\ Sound(me)
      BY <1>6, <2>2, <2>5, ClassFacts DEF RunInv
    <3>2. Seen(x) = Open(x, "listed") /\ Seen(y) = Open(y, "loaded")
      BY <1>7, <1>8, <2>2, <2>4, <3>1
    <3>3. Open(y, "loaded") = Look("loaded", Range(terms), x.listed \cap x.steady,
                                   Edited(x))
      BY <2>3, <2>5 DEF Open, Edited
    <3>4. Promise!Load(me, Range(terms))
      BY <1>1, <1>3, <1>4, <1>5, <3>2, <3>3, LoadSeen
    <3>5. Range(terms) \in Terms
      BY DEF Terms
    <3> QED
      BY <1>1, <3>4, <3>5 DEF Promise!Next
  <2>6. CASE Classes[x.at] # Private
    <3>1. Seen(y) = Seen(x)
      BY <1>6, <1>7, <1>8, <2>2, <2>3, <2>4, <2>6 DEF Open, Edited
    <3> QED
      BY <1>9, <3>1
  <2> QED
    BY <2>5, <2>6
<1>13. CASE SkipPrivate(me)
  <2>1. /\ x.at \in Positions /\ Classes[x.at] = Private
        /\ y.code = (IF x.require THEN 3 ELSE x.code)
        /\ y.at = (IF x.require THEN 0 ELSE Next_at(x.at))
        /\ y.terms = x.terms /\ y.steady = x.steady /\ y.listed = x.listed
    BY <1>1, <1>13, SkipFields DEF y
  <2>2. CASE x.require
    BY <1>10, <2>1, <2>2, Stages
  <2>3. CASE ~x.require
    <3>1. /\ y.at \in Positions \cup {Judging} /\ ~Behind(x.at, x.at)
          /\ Behind(p, y.at) <=> Behind(p, x.at) \/ p = x.at
      BY <2>1, <2>3, NextPosition
    <3>2. p = x.at /\ Sound(me)
      BY <1>6, <2>1, ClassFacts DEF RunInv
    <3>3. Seen(x) = Open(x, "listed") /\ Seen(y) = Open(y, "loaded")
      BY <1>7, <1>8, <2>1, <3>1, <3>2
    <3>4. Range(y.terms) = {}
      BY <2>1, <3>1, <3>2, ClassFacts DEF Sound, AheadUntouched
    <3>5. Open(y, "loaded") = Look("loaded", {}, x.listed \cap x.steady, Edited(x))
      BY <2>1, <3>4 DEF Open, Edited
    <3>6. Promise!Load(me, {})
      BY <1>1, <1>3, <1>4, <1>5, <3>3, <3>5, LoadSeen
    <3>7. {} \in Terms
      BY <1>1, <2>1, <3>4 DEF Terms, Run
    <3> QED
      BY <1>1, <3>6, <3>7 DEF Promise!Next
  <2> QED
    BY <2>2, <2>3
<1>14. CASE Verdict(me)
  <2>1. /\ y.at = 0 /\ y.code = Code(me) /\ y.terms = x.terms
        /\ y.steady = x.steady /\ y.listed = x.listed
    BY <1>1, <1>14, VerdictFields DEF y
  <2>2. x.at = Judging /\ Behind(p, x.at)
    BY <1>14 DEF Verdict, Behind
  <2>3. Scans[me] = Open(x, "loaded") /\ x.listed # {}
    BY <1>1, <1>3, <1>7, <2>2, AtVerdict
  <2>4. CASE Code(me) = 0
    <3>1. Seen(y) = Open(x, "passed")
      BY <1>2, <2>1, <2>4, Stages DEF Open, Edited, y
    <3>3. Promise!Clean(me)
      BY <1>1, <2>2, <2>3, <2>4, VerdictMeans
    <3>4. Promise!Pass(me)
      BY <1>1, <1>3, <1>4, <1>5, <2>3, <3>1, <3>3, PassSeen
    <3> QED
      BY <1>1, <3>4 DEF Promise!Next
  <2>5. CASE Code(me) # 0
    <3>1. Code(me) \in {1, 2}
      BY <2>5 DEF Code
    <3>2. Seen(y) = Gone
      BY <1>2, <2>1, <2>3, <3>1, Stages DEF y
    <3>3. Scans[me].pc = "loaded" /\ Scans[me].edited = Edited(x)
      BY <2>3 DEF Open, Look
    <3>5. ~Promise!Clean(me) \/ Scans[me].edited
      BY <1>1, <2>2, <2>3, <2>5, <3>3, VerdictMeans DEF Edited
    <3>4. Promise!Refuse(me)
      BY <1>3, <1>4, <3>2, <3>3, <3>5, NoneIs DEF Promise!Refuse
    <3> QED
      BY <1>1, <3>4 DEF Promise!Next
  <2> QED
    BY <2>4, <2>5
<1>15. CASE Interrupt(me)
  <2>1. y.at = 0 /\ y.code = 130
    BY <1>1, <1>15, InterruptFields DEF y
  <2> QED
    BY <1>10, <2>1, Stages
<1> QED
  BY <1>11, <1>12, <1>13, <1>14, <1>15 DEF Step

\* One that others have joined shows nothing, and one that begins ends theirs.
LEMMA EveryStep ==
  ASSUME IInv, NEW me \in Scanners, Step(me)
  PROVE  Promise!Next \/ UNCHANGED <<tree, Scans>>
<1>1. TypeOK
  BY DEF IInv
<1>2. CASE Begin(me)
  <2> DEFINE others == In(Out[me])
  <2>1. /\ run'[me].at = Listing /\ tree' = tree
        /\ \A t \in Scanners : t # me =>
             run'[t] = [run[t] EXCEPT !.shared = run[t].shared \/ t \in others]
    BY <1>1, <1>2, BeginFields DEF Begin
  <2>2. others \subseteq Scanners
    BY DEF In
  <2> HIDE DEF others
  <2>3. ASSUME NEW t \in Scanners
        PROVE  Seen(run'[t]) = IF t \in {me} \cup others THEN Unseen ELSE Seen(run[t])
    <3>1. run[t] \in Run
      BY <1>1 DEF TypeOK
    <3>2. CASE t = me
      BY <2>1, <3>2, Stages
    <3>3. CASE t # me /\ t \in others
      <4>1. run'[t].shared
        BY <2>1, <3>1, <3>3 DEF Run
      <4> QED
        BY <3>3, <4>1, Stages
    <3>4. CASE t # me /\ t \notin others
      <4>1. run'[t] = run[t]
        BY <2>1, <3>1, <3>4 DEF Run
      <4> QED
        BY <3>4, <4>1
    <3> QED
      BY <3>2, <3>3, <3>4
  <2>4. Scans' = [t \in Scanners |-> IF t \in {me} \cup others THEN Unseen ELSE Scans[t]]
    BY <2>3 DEF Scans
  <2>5. Promise!End({me} \cup others)
    BY <2>1, <2>4, NoneIs DEF Promise!End
  <2> QED
    BY <2>2, <2>5 DEF Promise!Next
<1>3. CASE ~Begin(me) /\ run[me].shared
  <2>1. /\ run'[me].shared /\ \A t \in Scanners : t # me => run'[t] = run[t]
    BY <1>1, <1>3, StepLeaves
  <2>2. \A t \in Scanners : Seen(run'[t]) = Seen(run[t])
    BY <1>3, <2>1, Stages
  <2>3. tree' = tree
    BY <1>1, ScanSteps DEF Step, Begin, ListFiles, Scan, SkipPrivate, Verdict, Interrupt
  <2> QED
    BY <2>2, <2>3 DEF Scans
<1>4. CASE ~Begin(me) /\ ~run[me].shared
  BY <1>1, <1>4, AloneSteps DEF IInv, Alone
<1> QED
  BY <1>2, <1>3, <1>4

\* An edit takes the file from those who listed it.
LEMMA EditIsSeen ==
  ASSUME TypeOK, NEW f \in Files, Edit(f)
  PROVE  Promise!Edit(f)
<1>1. ASSUME NEW t \in Scanners
      PROVE  Seen(run'[t]) =
               [Seen(run[t]) EXCEPT !.steady = Seen(run[t]).steady \ {f},
                                    !.edited = Seen(run[t]).edited \/ f \in Seen(run[t]).steady]
  <2> DEFINE x == run[t]
             y == run'[t]
  <2>1. /\ y.at = x.at /\ y.code = x.code /\ y.terms = x.terms
        /\ y.shared = x.shared /\ y.listed = x.listed
        /\ y.steady = x.steady \ {f}
    BY EditFields
  <2> HIDE DEF x, y
  <2>2. Stage(y) = Stage(x)
    BY <2>1 DEF Stage, PrivateRead
  <2>3. y.listed \cap y.steady = (x.listed \cap x.steady) \ {f}
    BY <2>1
  <2>4. Edited(y) = (Edited(x) \/ f \in x.listed \cap x.steady)
    BY <2>1 DEF Edited
  <2>5. PICK terms, steady, edited :
          /\ Seen(x) = Look(Stage(x), terms, steady, edited)
          /\ Seen(y) = Look(Stage(x), terms, steady \ {f}, edited \/ f \in steady)
    <3>1. CASE Stage(x) \in {"none", "refused"}
      <4>1. Seen(x) = Look(Stage(x), {}, {}, FALSE) /\ Seen(y) = Seen(x)
        BY <2>2, <3>1 DEF Seen, Look
      <4>2. {} \ {f} = {} /\ (FALSE \/ f \in {}) = FALSE
        OBVIOUS
      <4> QED
        BY <4>1, <4>2
    <3>2. CASE Stage(x) \notin {"none", "refused"}
      <4>1. Seen(x) = Open(x, Stage(x)) /\ Seen(y) = Open(y, Stage(x))
        BY <2>2, <3>2 DEF Seen, Open, Look
      <4> QED
        BY <2>1, <2>3, <2>4, <4>1 DEF Open
    <3> QED
      BY <3>1, <3>2
  <2> DEFINE r == Seen(x)
             st == r.steady \ {f}
             ed == r.edited \/ f \in r.steady
             a == [r EXCEPT !.steady = st]
  <2>6. r.steady = steady /\ r.edited = edited
    BY <2>5 DEF Look
  <2>7. st = steady \ {f} /\ ed = (edited \/ f \in steady)
    BY <2>6
  <2>8. [r EXCEPT !.steady = st, !.edited = ed] = [a EXCEPT !.edited = ed]
    OBVIOUS
  <2> HIDE DEF r, st, ed
  <2>9. a = [pc |-> Stage(x), terms |-> terms, steady |-> st, edited |-> edited]
    BY <2>5 DEF Look, r
  <2> HIDE DEF a
  <2>10. [a EXCEPT !.edited = ed] = Look(Stage(x), terms, st, ed)
    BY <2>9 DEF Look
  <2> QED
    BY <2>5, <2>7, <2>8, <2>10 DEF r, st, ed, x, y
<1>2. Scans' = [t \in Scanners |->
                  [Scans[t] EXCEPT !.steady = Scans[t].steady \ {f},
                                   !.edited = Scans[t].edited \/ f \in Scans[t].steady]]
  BY <1>1 DEF Scans
<1> QED
  BY <1>2 DEF Edit, Promise!Edit, Promise!Unsteadied

(* The script keeps its promise: every step of it is one of ScanPromise,   *)
(* or none that those can tell who wait for the exit code; in particular   *)
(* PASS and FAIL or BROKEN are decided in one step, by what the listed     *)
(* files that nobody edited contain then.                                  *)
THEOREM PromiseKept == Spec => ScansAtOnce
<1>1. Init => Promise!Init
  <2> SUFFICES ASSUME Init PROVE Promise!Init
    OBVIOUS
  <2>1. \A s \in Scanners : run[s].at = 0 /\ run[s].code = -1
    BY DEF Init, Idle
  <2>2. Scans = [s \in Scanners |-> Unseen]
    BY <2>1, Stages DEF Scans
  <2> QED
    BY <2>2, NoneIs DEF Init, Promise!Init
<1>2. IInv /\ [Next]_vars => [Promise!Next]_<<tree, Scans>>
  <2> SUFFICES ASSUME IInv, [Next]_vars PROVE Promise!Next \/ UNCHANGED <<tree, Scans>>
    OBVIOUS
  <2>1. ASSUME NEW me \in Scanners, Step(me)
        PROVE  Promise!Next \/ UNCHANGED <<tree, Scans>>
    BY <2>1, EveryStep
  <2>2. ASSUME NEW f \in Files, Edit(f) PROVE Promise!Next
    BY <2>2, EditIsSeen DEF IInv, Promise!Next
  <2>3. CASE SetTerms \/ UNCHANGED vars
    BY <2>3 DEF SetTerms, vars, Scans
  <2> QED
    BY <2>1, <2>2, <2>3 DEF Next, Step
<1> QED
  BY <1>1, <1>2, Invariance, PTL DEF Spec, ScansAtOnce, Promise!Spec
=============================================================================
