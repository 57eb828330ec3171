-------------------------- MODULE CommitGateProofs --------------------------
(***************************************************************************)
(* The commit gate's properties, for every set of files, contents, lists,  *)
(* environments and places, and for both ways mv has of moving a file.     *)
(***************************************************************************)
EXTENDS CommitGate, TLAPS

-----------------------------------------------------------------------------
(* The inductive invariant.                                                *)

\* Only a copy under way, stopped or failed holds anything but a list.
ListInv ==
    /\ setup.pc \in {"move", "copying"} => setup.tmp \in Served
    /\ setup.pc = "copying" => setup.torn
    /\ ~setup.torn => private \in Served \cup {Absent}

\* Whatever passed the check is ignored, and git add leaves it out.
IgnoredInv ==
    /\ setup.loaded => ignored
    /\ ignored => ~tracked

\* The script's way from the list in place to the hook.
Placed == {"ignored", "look", "write", "fill", "chmod"}

ScriptInv ==
    /\ (setup.pc \in Placed /\ setup.sound) => private \in Served
    /\ (setup.pc = "ended" /\ setup.said # "nothing" /\ setup.sound) => private \in Served
    /\ setup.pc \notin {"ended", "look", "write", "fill", "chmod"} => setup.said = "nothing"
    /\ setup.said \in {"kept", "installed"} => setup.pc = "ended"

HookInv ==
    /\ (setup.pc = "write" /\ setup.alone) => hook.text \in {"none", "scan"}
    /\ (setup.pc = "fill" /\ setup.alone) => hook.text = "empty"
    /\ (setup.pc = "chmod" /\ setup.alone) => hook.text # "foreign"
    /\ (setup.pc = "chmod" /\ setup.alone /\ setup.sound) => hook.text = "scan"
    /\ (setup.said = "installed" /\ setup.alone /\ setup.sound) => hook = Armed

\* The scan's record, as TypeOK has it.
Outcome == [pc: {"none", "listed", "loaded", "passed", "refused"},
            terms: Loadable \cup {{}}, steady: SUBSET Files, edited: BOOLEAN]
ScanOK == scan \in [{"hook"} -> Outcome]

\* What the hook loads in an environment from a whole list, or from none.
WholeList(env, terms) == \E l \in Served \cup {Absent} : terms = PRIV_TERMS(env, l)

\* What the scan has seen by now, and still lies there.
ScanInv ==
    /\ Scanned.pc \in {"listed", "loaded", "passed"} => Pending
    /\ Scanned.pc \in {"loaded", "passed"} =>
           Scanned.terms # {} /\ (commit.part \/ WholeList(commit.env, Scanned.terms))
    /\ Scanned.pc = "passed" => Scan!Clean("hook")

IInv == TypeOK /\ ListInv /\ IgnoredInv /\ ScriptInv /\ HookInv /\ ScanInv

\* The script's state alone, and the commit's.
SetupInv == ListInv /\ IgnoredInv /\ ScriptInv /\ HookInv

-----------------------------------------------------------------------------
THEOREM InitIsSound == Init => IInv
<1> SUFFICES ASSUME Init PROVE IInv
    OBVIOUS
<1> USE DEF Init, NoSetup, NoCommit, Scan!Init, Scan!None
<1>1. TypeOK
    BY PlacesAssumption DEF TypeOK, Script, Attempt
<1>2. SetupInv
    BY DEF SetupInv, ListInv, IgnoredInv, ScriptInv, HookInv, Placed
<1>3. ScanInv
    BY DEF ScanInv, Scanned
<1> QED
    BY <1>1, <1>2, <1>3 DEF IInv, SetupInv

\* What the script's variables are when it ends.
LEMMA Ending ==
    ASSUME setup \in Script, NEW said \in {"nothing", "loaded", "kept", "installed"}, Ends(said)
    PROVE  /\ setup' \in Script
           /\ setup'.pc = "ended" /\ setup'.said = said
           /\ setup'.sound <=> setup.sound \/ said = "nothing"
           /\ setup'.alone <=> setup.alone \/ said = "nothing"
           /\ setup'.loaded = setup.loaded /\ setup'.torn = setup.torn
           /\ setup'.at = setup.at
<1>1. setup' = [setup EXCEPT !.pc = "ended", !.said = said, !.hook = TRUE, !.tmp = {},
                             !.sound = setup.sound \/ said = "nothing",
                             !.alone = setup.alone \/ said = "nothing"]
    BY DEF Ends
<1>2. /\ (setup.sound \/ said = "nothing") \in BOOLEAN
      /\ (setup.alone \/ said = "nothing") \in BOOLEAN
    OBVIOUS
<1> QED
    BY <1>1, <1>2 DEF Script

\* What HOOK becomes, and that no other place has a new one.
LEMMA Written ==
    ASSUME TypeOK, NEW h \in [text: {"none", "foreign", "empty", "scan"}, exec: BOOLEAN],
           Put(h), setup'.at = setup.at
    PROVE  /\ hooks' \in [Places -> [text: {"none", "foreign", "empty", "scan"}, exec: BOOLEAN]]
           /\ hook' = h
           /\ \A p \in Places \ {setup.at} : hooks'[p] = hooks[p]
<1>1. setup.at \in Places
    BY DEF TypeOK, Script
<1> QED
    BY <1>1 DEF TypeOK, Put, hook

\* A run that ends without a word keeps what holds of the list and the hook.
LEMMA EndsQuietly ==
    ASSUME IInv, Ends("nothing"), UNCHANGED <<private, hooks, Outside>>
    PROVE  TypeOK' /\ SetupInv'
<1>1. setup \in Script
    BY DEF IInv, TypeOK
<1> QED
    BY <1>1, Ending DEF IInv, TypeOK, SetupInv, ListInv, IgnoredInv, ScriptInv, HookInv, Placed,
       Outside, hook

\* A step of the script, that leaves commits, files and the index alone.
LEMMA SetupSteps == IInv /\ Setup => TypeOK' /\ SetupInv'
<1> SUFFICES ASSUME IInv, Setup PROVE TypeOK' /\ SetupInv'
    OBVIOUS
<1> USE DEF IInv, SetupInv, TypeOK, ListInv, IgnoredInv, ScriptInv, HookInv, Placed, Script,
        Outside, Goes, Armed
<1>1. CASE Start
  <2>1. PICK h \in BOOLEAN, p \in Places :
            setup' = [setup EXCEPT !.pc = "fetch", !.at = p, !.said = "nothing",
                                   !.hook = h, !.sound = TRUE, !.alone = TRUE]
      BY <1>1 DEF Start
  <2>2. setup' \in Script
      BY <2>1
  <2>3. /\ setup'.pc = "fetch" /\ setup'.said = "nothing" /\ setup'.loaded = setup.loaded
        /\ setup'.torn = setup.torn
      BY <2>1
  <2> QED
      BY <1>1, <2>2, <2>3 DEF Start
<1>2. CASE Fetch
  <2>1. ASSUME NEW l \in Served, setup' = [setup EXCEPT !.pc = "move", !.tmp = l]
        PROVE  TypeOK' /\ SetupInv'
      BY <1>2, <2>1 DEF Fetch
  <2> QED
      BY <1>2, <2>1, EndsQuietly DEF Fetch, Downloaded
<1>3. CASE Move
  <2>1. CASE SameDevice
    <3>1. setup' = [setup EXCEPT !.pc = "ignored"] /\ private' = setup.tmp
          /\ setup.tmp \in Served /\ setup.pc = "move"
        BY <1>3, <2>1 DEF Move
    <3>2. setup' \in Script /\ setup'.pc = "ignored" /\ setup'.said = setup.said
          /\ setup'.torn = setup.torn /\ setup'.loaded = setup.loaded
        BY <3>1
    <3>3. UNCHANGED <<hooks, Outside>>
        BY <1>3 DEF Move
    <3>4. TypeOK'
        BY <3>1, <3>2, <3>3
    <3>5. ListInv' /\ IgnoredInv'
        BY <3>1, <3>2, <3>3
    <3>6. ScriptInv' /\ HookInv'
        BY <3>1, <3>2, <3>3
    <3> QED
        BY <3>4, <3>5, <3>6
  <2>2. CASE ~SameDevice
    <3>0. setup' = [setup EXCEPT !.pc = "copying", !.torn = TRUE]
        BY <1>3, <2>2 DEF Move
    <3>1. setup' \in Script /\ setup'.pc = "copying" /\ setup'.torn
          /\ setup'.tmp = setup.tmp /\ setup'.said = setup.said
          /\ setup'.loaded = setup.loaded
        BY <3>0
    <3>2. private' \in Served \cup Torn \cup {Absent}
        BY <1>3, <2>2 DEF Move
    <3> QED
        BY <1>3, <2>2, <3>1, <3>2 DEF Move
  <2> QED
      BY <2>1, <2>2
<1>4. CASE Copied
    BY <1>4 DEF Copied
<1>5. CASE MoveFails
    BY <1>5 DEF MoveFails
<1>6. CASE CheckIgnored
  <2>1. CASE ~ignored
      BY <1>6, <2>1, EndsQuietly DEF CheckIgnored, Passes
  <2>2. CASE ignored
    <3>1. setup' = [setup EXCEPT !.pc = IF setup.hook THEN "look" ELSE "ended",
                       !.said = "loaded", !.loaded = TRUE, !.tmp = {}, !.hook = TRUE]
        BY <1>6, <2>2 DEF CheckIgnored, Passes
    <3>2. setup' \in Script
        BY <3>1
    <3>3. /\ setup'.pc \in {"look", "ended"} /\ setup'.said = "loaded"
          /\ setup'.sound = setup.sound /\ setup'.torn = setup.torn
        BY <3>1
    <3> QED
        BY <1>6, <2>2, <3>2, <3>3 DEF CheckIgnored
  <2> QED
      BY <2>1, <2>2
<1>7. CASE Look
  <2>1. CASE Ours
    <3>1. setup' \in Script
        BY <1>7, <2>1 DEF Look
    <3>2. /\ setup'.pc = "write" /\ setup'.said = setup.said /\ setup'.at = setup.at
          /\ setup'.sound = setup.sound /\ setup'.loaded = setup.loaded
          /\ setup'.torn = setup.torn
        BY <1>7, <2>1 DEF Look
    <3> QED
        BY <1>7, <2>1, <3>1, <3>2 DEF Look, Ours, hook
  <2>2. CASE ~Ours
    <3>1. setup' \in Script
        BY <1>7, <2>2 DEF Look
    <3>2. /\ setup'.pc = "ended" /\ setup'.said = "kept" /\ setup'.at = setup.at
          /\ setup'.sound = setup.sound /\ setup'.loaded = setup.loaded
          /\ setup'.torn = setup.torn
        BY <1>7, <2>2 DEF Look
    <3> QED
        BY <1>7, <3>1, <3>2 DEF Look
  <2> QED
      BY <2>1, <2>2
<1>8. CASE Truncate
  <2> DEFINE h == [text |-> "empty", exec |-> hook.exec]
  <2>1. hook \in [text: {"none", "foreign", "empty", "scan"}, exec: BOOLEAN]
      BY DEF hook
  <2>2. [hook EXCEPT !.text = "empty"] = h
      BY <2>1
  <2>3. h \in [text: {"none", "foreign", "empty", "scan"}, exec: BOOLEAN] /\ h.text = "empty"
      BY <2>1
  <2>4. setup' \in Script /\ setup'.at = setup.at /\ setup'.pc = "fill"
        /\ setup' = [setup EXCEPT !.pc = "fill"]
      BY <1>8 DEF Truncate
  <2>5. Put(h)
      BY <1>8, <2>2 DEF Truncate
  <2> HIDE DEF h
  <2>6. /\ hooks' \in [Places -> [text: {"none", "foreign", "empty", "scan"}, exec: BOOLEAN]]
        /\ hook'.text = "empty"
      BY <2>3, <2>4, <2>5, Written
  <2> QED
      BY <1>8, <2>4, <2>6 DEF Truncate
<1>9. CASE Fill
  <2> DEFINE h == [text |-> "scan", exec |-> hook.exec]
  <2>1. hook \in [text: {"none", "foreign", "empty", "scan"}, exec: BOOLEAN]
      BY DEF hook
  <2>2. [hook EXCEPT !.text = "scan"] = h
      BY <2>1
  <2>3. h \in [text: {"none", "foreign", "empty", "scan"}, exec: BOOLEAN] /\ h.text = "scan"
      BY <2>1
  <2>4. setup' \in Script /\ setup'.at = setup.at /\ setup'.pc = "chmod"
        /\ setup' = [setup EXCEPT !.pc = "chmod"]
      BY <1>9 DEF Fill
  <2>5. Put(h)
      BY <1>9, <2>2 DEF Fill
  <2> HIDE DEF h
  <2>6. /\ hooks' \in [Places -> [text: {"none", "foreign", "empty", "scan"}, exec: BOOLEAN]]
        /\ hook'.text = "scan"
      BY <2>3, <2>4, <2>5, Written
  <2> QED
      BY <1>9, <2>4, <2>6 DEF Fill
<1>10. CASE WriteFails
  <2>1. /\ setup' \in Script
        /\ setup' = [setup EXCEPT !.pc = "chmod", !.sound = FALSE]
      BY <1>10 DEF WriteFails
  <2>2. setup'.at = setup.at /\ setup'.pc = "chmod" /\ ~setup'.sound
        /\ setup'.alone = setup.alone /\ setup'.said = setup.said
        /\ setup'.loaded = setup.loaded /\ setup'.torn = setup.torn
      BY <2>1
  <2> QED
      BY <1>10, <2>1, <2>2 DEF WriteFails, hook
<1>11. CASE Chmod
  <2> DEFINE h == [text |-> hook.text, exec |-> Mode]
  <2>1. hook \in [text: {"none", "foreign", "empty", "scan"}, exec: BOOLEAN]
      BY DEF hook
  <2>2. [hook EXCEPT !.exec = Mode] = h
      BY <2>1
  <2>3. h \in [text: {"none", "foreign", "empty", "scan"}, exec: BOOLEAN]
        /\ h.text = hook.text /\ (h.text = "scan" => h = Armed)
      BY <2>1 DEF Mode
  <2>4. /\ setup' \in Script /\ setup'.at = setup.at
        /\ setup'.pc = "ended" /\ setup'.said = "installed"
        /\ setup'.sound = setup.sound /\ setup'.alone = setup.alone
        /\ setup'.loaded = setup.loaded /\ setup'.torn = setup.torn
      BY <1>11, Ending DEF Chmod
  <2>5. Put(h)
      BY <1>11, <2>2 DEF Chmod
  <2> HIDE DEF h
  <2>6. /\ hooks' \in [Places -> [text: {"none", "foreign", "empty", "scan"}, exec: BOOLEAN]]
        /\ hook' = h
      BY <2>3, <2>4, <2>5, Written
  <2> QED
      BY <1>11, <2>3, <2>4, <2>6 DEF Chmod
<1>12. CASE ChmodFails
  <2>1. /\ setup' \in Script
        /\ setup' = [setup EXCEPT !.pc = "ended", !.said = "installed", !.sound = FALSE]
      BY <1>12 DEF ChmodFails
  <2>2. setup'.pc = "ended" /\ setup'.said = "installed" /\ ~setup'.sound
        /\ setup'.loaded = setup.loaded /\ setup'.torn = setup.torn
      BY <2>1
  <2> QED
      BY <1>12, <2>1, <2>2 DEF ChmodFails
<1>13. CASE Kill
    BY <1>13, EndsQuietly DEF Kill
<1> QED
    BY <1>1, <1>2, <1>3, <1>4, <1>5, <1>6, <1>7, <1>8, <1>9, <1>10, <1>11, <1>12, <1>13
    DEF Setup

LEMMA SetupKeepsScan == IInv /\ Setup => ScanInv'
<1> SUFFICES ASSUME IInv, Setup PROVE UNCHANGED <<work, commit, scan>>
    BY DEF IInv, ScanInv, Scanned, Pending, Scan!Clean
<1> QED
    BY DEF Setup, Start, Fetch, Move, Copied, MoveFails, CheckIgnored, Look, Truncate,
       Fill, WriteFails, Chmod, ChmodFails, Kill, Outside

\* The scan's steps, by the fields of its record.
LEMMA ListStep ==
    ASSUME TypeOK, NEW listed \in SUBSET Files, Scan!List("hook", listed)
    PROVE  ScanOK' /\ Scanned'.pc = "listed"
BY DEF TypeOK, ScanOK, Outcome, Scanned, Scan!List, Scan!None

LEMMA LoadStep ==
    ASSUME TypeOK, NEW terms \in Loadable, Scan!Load("hook", terms)
    PROVE  /\ ScanOK' /\ Scanned.pc = "listed"
           /\ Scanned'.pc = "loaded" /\ Scanned'.terms = terms
BY DEF TypeOK, ScanOK, Outcome, Scanned, Scan!Load

LEMMA PassStep ==
    ASSUME TypeOK, Scan!Pass("hook")
    PROVE  /\ ScanOK'
           /\ Scanned.pc = "loaded" /\ Scan!Clean("hook")'
           /\ Scanned'.pc = "passed" /\ Scanned'.terms = Scanned.terms
BY DEF TypeOK, ScanOK, Outcome, Scanned, Scan!Pass, Scan!Clean

LEMMA StopStep ==
    ASSUME TypeOK, Scan!Refuse("hook") \/ Scan!End({"hook"})
    PROVE  ScanOK' /\ Scanned'.pc \in {"none", "refused"}
<1>1. CASE Scan!Refuse("hook")
    BY <1>1 DEF TypeOK, ScanOK, Outcome, Scanned, Scan!Refuse, Scan!None
<1>2. CASE Scan!End({"hook"})
  <2>1. scan' = [s \in {"hook"} |-> Scan!None]
      BY <1>2 DEF Scan!End
  <2> QED
      BY <2>1 DEF ScanOK, Outcome, Scanned, Scan!None
<1> QED
    BY <1>1, <1>2

\* A step of git commit or of its hook leaves the script's state alone.
LEMMA CommitSteps ==
    IInv /\ (Commit \/ LoadTerms \/ Judge \/ Make \/ Abort) => IInv'
<1> SUFFICES ASSUME IInv, Commit \/ LoadTerms \/ Judge \/ Make \/ Abort PROVE IInv'
    OBVIOUS
<1>1. UNCHANGED Unmoved /\ TypeOK
    BY DEF Commit, LoadTerms, Judge, Make, Abort, IInv
<1>2. SetupInv'
    BY <1>1 DEF IInv, Unmoved, SetupInv, ListInv, IgnoredInv, ScriptInv, HookInv, hook
<1>3. commit' \in Attempt /\ ScanOK' /\ ScanInv'
  <2> USE DEF Attempt, NoCommit, Pending
  <2>1. commit \in Attempt /\ ScanOK /\ ScanInv
      BY DEF IInv, TypeOK, ScanOK, Outcome
  <2>2. CASE Gone \/ (Scan!Refuse("hook") /\ commit' = NoCommit)
    <3>1. commit' = NoCommit /\ ScanOK' /\ Scanned'.pc \in {"none", "refused"}
        BY <1>1, <2>2, StopStep DEF Gone
    <3>2. commit' \in Attempt
        BY <3>1
    <3>3. ScanInv'
        BY <3>1 DEF ScanInv
    <3> QED
        BY <3>1, <3>2, <3>3
  <2>3. CASE Commit
    <3>1. CASE /\ Scan!List("hook", Listed)
               /\ commit' = [NoCommit EXCEPT !.pc = "scanning"]
      <4>1. Listed \in SUBSET Files
          BY DEF Listed
      <4> QED
          BY <1>1, <3>1, <4>1, ListStep DEF ScanInv
    <3>2. CASE /\ ~Pending /\ UNCHANGED scan
               /\ commit' = [NoCommit EXCEPT !.pc = "passed"]
        BY <2>1, <3>2 DEF ScanInv, ScanOK, Scanned
    <3> QED
        BY <2>3, <3>1, <3>2 DEF Commit
  <2>4. CASE LoadTerms
    <3>1. PICK env \in Envs :
              \/ /\ PRIV_TERMS(env, private) # {}
                 /\ Scan!Load("hook", PRIV_TERMS(env, private))
                 /\ commit' = [commit EXCEPT !.env = env, !.part = setup.torn]
              \/ Gone
        BY <2>4 DEF LoadTerms, RequirePrivate
    <3>2. PICK terms : terms = PRIV_TERMS(env, private)
        OBVIOUS
    <3>3. CASE /\ terms # {} /\ Scan!Load("hook", terms)
               /\ commit' = [commit EXCEPT !.env = env, !.part = setup.torn]
      <4>1. private \in Served \cup Torn \cup {Absent} /\ setup.torn \in BOOLEAN
          BY DEF IInv, TypeOK, Script
      <4>2. terms \in Loadable
          BY <3>2, <4>1 DEF Loadable
      <4>3. setup.torn \/ WholeList(env, terms)
          BY <3>2 DEF IInv, ListInv, WholeList
      <4>4. /\ commit' \in Attempt /\ commit'.pc = commit.pc
            /\ commit'.env = env /\ commit'.part = setup.torn
          BY <2>1, <3>3, <4>1
      <4>5. /\ ScanOK' /\ Scanned.pc = "listed"
            /\ Scanned'.pc = "loaded" /\ Scanned'.terms = terms
          BY <1>1, <3>3, <4>2, LoadStep
      <4>6. Pending'
          BY <2>1, <4>4, <4>5 DEF ScanInv
      <4>7. commit'.part \/ WholeList(commit.env, Scanned.terms)'
          BY <4>3, <4>4, <4>5 DEF WholeList, PRIV_TERMS
      <4> QED
          BY <3>3, <4>4, <4>5, <4>6, <4>7 DEF ScanInv
    <3> QED
        BY <2>2, <3>1, <3>2, <3>3
  <2>5. CASE Judge
    <3>1. CASE Scan!Pass("hook") /\ commit' = [commit EXCEPT !.pc = "passed"]
        BY <1>1, <2>1, <3>1, PassStep DEF ScanInv
    <3> QED
        BY <2>2, <2>5, <3>1 DEF Judge
  <2> QED
      BY <2>2, <2>3, <2>4, <2>5 DEF Make, Abort
<1>4. TypeOK'
    BY <1>1, <1>3 DEF IInv, TypeOK, ScanOK, Outcome, Unmoved
<1> QED
    BY <1>2, <1>3, <1>4 DEF IInv, SetupInv

\* Editing a file takes it out of those the scan may speak of.
LEMMA EditSteps == ASSUME NEW f \in Files, IInv, Edit(f) PROVE IInv'
<1>1. SetupInv'
    BY DEF Edit, IInv, SetupInv, ListInv, IgnoredInv, ScriptInv, HookInv, hook
<1>2. /\ work' \in [Files -> Contents \cup {Absent}]
      /\ \A g \in Files \ {f} : work'[g] = work[g]
    BY DEF Edit, Scan!Edit, IInv, TypeOK
<1>3. /\ ScanOK' /\ Scanned \in Outcome
      /\ Scanned'.pc = Scanned.pc /\ Scanned'.terms = Scanned.terms
      /\ Scanned'.steady = Scanned.steady \ {f}
  <2> DEFINE edited == Scanned.edited \/ f \in Scanned.steady
  <2>1. Scanned \in Outcome /\ scan \in [{"hook"} -> Outcome]
      BY DEF IInv, TypeOK, Scanned, Outcome
  <2>2. /\ scan' \in [{"hook"} -> {scan'["hook"]}]
        /\ scan'["hook"] = [Scanned EXCEPT !.steady = Scanned.steady \ {f},
                                           !.edited = edited]
      BY DEF Edit, Scan!Edit, Scan!Unsteadied, Scanned
  <2>3. edited \in BOOLEAN
      OBVIOUS
  <2> HIDE DEF edited
  <2> QED
      BY <2>1, <2>2, <2>3 DEF ScanOK, Outcome, Scanned
<1>4. TypeOK'
    BY <1>2, <1>3 DEF Edit, IInv, TypeOK, ScanOK, Outcome
<1>5. ScanInv'
    BY <1>2, <1>3 DEF Edit, IInv, ScanInv, Pending, Scan!Clean, Scanned, Outcome
<1> QED
    BY <1>1, <1>4, <1>5 DEF IInv, SetupInv

\* Staging.
LEMMA StagingSteps == ASSUME IInv, (\E f \in Files : Add(f)) \/ AddAll PROVE IInv'
<1>1. TypeOK'
  <2>1. CASE \E f \in Files : Add(f)
      BY <2>1 DEF Add, IInv, TypeOK
  <2>2. CASE AddAll
    <3>1. tracked' \in BOOLEAN
        BY <2>2 DEF AddAll, IInv, TypeOK
    <3> QED
        BY <2>2, <3>1 DEF AddAll, IInv, TypeOK
  <2> QED
      BY <2>1, <2>2
<1>2. SetupInv'
  <2>1. UNCHANGED <<private, ignored, hooks, setup>>
      BY DEF Add, AddAll
  <2>2. ignored => ~tracked'
    <3>1. CASE \E f \in Files : Add(f)
        BY <3>1 DEF Add, IInv, IgnoredInv
    <3>2. CASE AddAll
        BY <3>2 DEF AddAll, IInv, IgnoredInv
    <3> QED
        BY <3>1, <3>2
  <2>3. ListInv' /\ ScriptInv' /\ HookInv'
      BY <2>1 DEF IInv, ListInv, ScriptInv, HookInv, hook
  <2>4. IgnoredInv'
      BY <2>1, <2>2 DEF IInv, IgnoredInv
  <2> QED
      BY <2>3, <2>4 DEF SetupInv
<1>3. ScanInv'
    BY DEF Add, AddAll, IInv, ScanInv, Scanned, Pending, Scan!Clean
<1> QED
    BY <1>1, <1>2, <1>3 DEF IInv, SetupInv

\* Somebody else's hook, where the script looked or elsewhere.
LEMMA OwnHookFields ==
    ASSUME TypeOK, NEW p \in Places, OwnHook(p)
    PROVE  /\ setup' \in Script
           /\ setup'.pc = setup.pc /\ setup'.said = setup.said /\ setup'.at = setup.at
           /\ setup'.sound = setup.sound /\ setup'.loaded = setup.loaded
           /\ setup'.torn = setup.torn /\ setup'.tmp = setup.tmp
           /\ setup'.alone => setup.alone /\ ~(Looked /\ p = setup.at)
           /\ hooks' \in [Places -> [text: {"none", "foreign", "empty", "scan"}, exec: BOOLEAN]]
           /\ p # setup.at => hook' = hook
<1> DEFINE alone == setup.alone /\ ~(Looked /\ p = setup.at)
<1>1. setup \in Script /\ setup.at \in Places
    BY DEF TypeOK, Script
<1>2. setup' = [setup EXCEPT !.alone = alone]
    BY DEF OwnHook
<1>3. alone \in BOOLEAN
    BY <1>1 DEF Script
<1>4. PICK h \in [text: {"foreign"}, exec: BOOLEAN] \cup {[text |-> "none", exec |-> FALSE]} :
          hooks' = [hooks EXCEPT ![p] = h]
    BY DEF OwnHook
<1>5. h \in [text: {"none", "foreign", "empty", "scan"}, exec: BOOLEAN]
  <2>1. CASE h \in [text: {"foreign"}, exec: BOOLEAN]
      BY <2>1
  <2>2. CASE h = [text |-> "none", exec |-> FALSE]
      BY <2>2
  <2> QED
      BY <2>1, <2>2
<1> HIDE DEF alone
<1>6. /\ setup' \in Script
      /\ setup'.pc = setup.pc /\ setup'.said = setup.said /\ setup'.at = setup.at
      /\ setup'.sound = setup.sound /\ setup'.loaded = setup.loaded
      /\ setup'.torn = setup.torn /\ setup'.tmp = setup.tmp
      /\ setup'.alone = alone
    BY <1>1, <1>2, <1>3 DEF Script
<1>7. setup'.alone => setup.alone /\ ~(Looked /\ p = setup.at)
    BY <1>6 DEF alone
<1>8. hooks' \in [Places -> [text: {"none", "foreign", "empty", "scan"}, exec: BOOLEAN]]
    BY <1>4, <1>5 DEF TypeOK
<1>9. p # setup.at => hook' = hook
    BY <1>1, <1>4, <1>6 DEF TypeOK, hook
<1> QED
    BY <1>6, <1>7, <1>8, <1>9

LEMMA OwnHookSteps == ASSUME IInv, NEW p \in Places, OwnHook(p) PROVE IInv'
<1>1. TypeOK'
    BY OwnHookFields DEF OwnHook, IInv, TypeOK
<1>2. ListInv' /\ IgnoredInv' /\ ScriptInv'
    BY OwnHookFields DEF OwnHook, IInv, ListInv, IgnoredInv, ScriptInv, Placed
<1>3. HookInv'
  <2>1. CASE setup.pc \in {"write", "fill", "chmod"} \/ setup.said = "installed"
    <3>1. Looked
        BY <2>1 DEF Looked
    <3>2. setup'.alone => setup.alone /\ hook' = hook
        BY <3>1, OwnHookFields DEF IInv
    <3> QED
        BY <3>2, OwnHookFields DEF IInv, HookInv
  <2>2. CASE ~(setup.pc \in {"write", "fill", "chmod"} \/ setup.said = "installed")
      BY <2>2, OwnHookFields DEF IInv, HookInv
  <2> QED
      BY <2>1, <2>2
<1>4. ScanInv'
    BY DEF OwnHook, IInv, ScanInv, Scanned, Pending, Scan!Clean
<1> QED
    BY <1>1, <1>2, <1>3, <1>4 DEF IInv

THEOREM StepIsSound == IInv /\ [Next]_vars => IInv'
<1> SUFFICES ASSUME IInv, [Next]_vars PROVE IInv'
    OBVIOUS
<1>1. CASE Setup
    BY <1>1, SetupSteps, SetupKeepsScan DEF IInv, SetupInv
<1>2. CASE Commit \/ LoadTerms \/ Judge \/ Make \/ Abort
    BY <1>2, CommitSteps
<1>3. CASE \E f \in Files : Edit(f)
    BY <1>3, EditSteps
<1>4. CASE (\E f \in Files : Add(f)) \/ AddAll
    BY <1>4, StagingSteps
<1>6. CASE \E p \in Places : OwnHook(p)
    BY <1>6, OwnHookSteps
<1>5. CASE UNCHANGED vars
    BY <1>5 DEF vars, IInv, TypeOK, ListInv, IgnoredInv, ScriptInv, HookInv, hook, ScanInv,
       Scanned, Pending, Scan!Clean
<1> QED
    BY <1>1, <1>2, <1>3, <1>4, <1>5, <1>6 DEF Next

THEOREM Invariance == Spec => []IInv
    BY InitIsSound, StepIsSound, PTL DEF Spec

-----------------------------------------------------------------------------
(* Types hold, and a hook is written only over a list that git ignores.    *)
THEOREM TypeCorrect == Spec => []TypeOK
<1>1. IInv => TypeOK
    BY DEF IInv
<1> QED
    BY <1>1, Invariance, PTL

(* A commit the hook let through is clean wherever it is what lay in the   *)
(* work tree all through the scan.                                         *)
THEOREM FollowedCommitsAreClean == Spec => []FollowedIsClean
<1>1. IInv => FollowedIsClean
    BY DEF IInv, ScanInv, FollowedIsClean, Gated, Scanned, Scan!Clean
<1> QED
    BY <1>1, Invariance, PTL

(* No hooked commit without private terms: those of a list that was served *)
(* and is whole if no copy of one stopped, those of the environment, or    *)
(* both.                                                                   *)
THEOREM TermsWereLoaded == Spec => []ScannedForAList
<1>1. IInv => ScannedForAList
    BY DEF IInv, ScanInv, ScannedForAList, WholeList, Gated, Scanned
<1> QED
    BY <1>1, Invariance, PTL

(* A list that a run reported as loaded is never staged.                   *)
THEOREM LoadedIsUntracked == Spec => []LoadedStaysOut
<1>1. IInv => LoadedStaysOut
    BY DEF IInv, IgnoredInv, LoadedStaysOut
<1> QED
    BY <1>1, Invariance, PTL

(* A run that ended well left the list in place, and armed the hook at the *)
(* place it named.                                                         *)
THEOREM EndsArmed == Spec => []InstalledIsArmed
<1>1. IInv => InstalledIsArmed
    BY DEF IInv, ScriptInv, HookInv, InstalledIsArmed
<1> QED
    BY <1>1, Invariance, PTL

(* For a run from the clone's root, that place is the one git looks at:    *)
(* every commit after it that is not told to skip its hook is scanned.     *)
LEMMA ArmedAtRoot ==
    ASSUME InstalledIsArmed, setup.pc = "ended", setup.said = "installed",
           setup.sound, setup.alone, setup.at = Root
    PROVE  hooks[Root] = Armed
BY DEF InstalledIsArmed, hook

(* The script's own steps leave a hook alone, at every place, that was     *)
(* somebody else's when it looked.                                         *)
THEOREM ForeignHooksStay == Spec => ForeignHookKept
<1>1. ASSUME IInv, Next, NEW p \in Places, hooks[p].text = "foreign",
             setup.alone, setup'.alone, setup' # setup
      PROVE  hooks'[p] = hooks[p]
  <2>1. CASE Truncate \/ Fill \/ Chmod
    <3>1. /\ hook.text # "foreign" /\ setup.at \in Places
          /\ hooks \in [Places -> [text: {"none", "foreign", "empty", "scan"}, exec: BOOLEAN]]
        BY <1>1, <2>1 DEF Truncate, Fill, Chmod, IInv, HookInv, TypeOK, Script
    <3>2. p # setup.at
        BY <1>1, <3>1 DEF hook
    <3> QED
        BY <2>1, <3>1, <3>2 DEF Truncate, Fill, Chmod, Put
  <2>2. CASE \E q \in Places : OwnHook(q)
    <3>1. PICK q \in Places : OwnHook(q)
        BY <2>2
    <3>2. setup \in Script
        BY <1>1 DEF IInv, TypeOK
    <3>3. ~(Looked /\ q = setup.at)
        BY <1>1, <3>1, OwnHookFields DEF IInv
    <3>4. setup' = [setup EXCEPT !.alone = setup.alone /\ ~(Looked /\ q = setup.at)]
        BY <3>1 DEF OwnHook
    <3>5. (setup.alone /\ ~(Looked /\ q = setup.at)) = setup.alone
        BY <1>1, <3>2, <3>3 DEF Script
    <3>6. setup' = setup
        BY <3>2, <3>4, <3>5 DEF Script
    <3> QED
        BY <1>1, <3>6
  <2>3. CASE ~(Truncate \/ Fill \/ Chmod \/ \E q \in Places : OwnHook(q))
      BY <1>1, <2>3 DEF Next, Setup, Start, Fetch, Move, Copied, MoveFails, CheckIgnored,
         Look, WriteFails, ChmodFails, Kill, Commit, LoadTerms, Judge, Make, Abort, Unmoved,
         Edit, Add, AddAll
  <2> QED
      BY <2>1, <2>2, <2>3
<1>2. IInv /\ [Next]_vars =>
          [\A p \in Places : (hooks[p].text = "foreign" /\ setup.alone
              /\ setup'.alone /\ setup' # setup) => hooks'[p] = hooks[p]]_vars
    BY <1>1
<1> QED
    BY <1>2, Invariance, PTL DEF Spec, ForeignHookKept
=============================================================================
