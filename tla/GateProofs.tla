----------------------------- MODULE GateProofs -----------------------------
(***************************************************************************)
(* What an exit code of the gate says, for all rules, samples, seeds and   *)
(* interleavings of a command with the writer.                             *)
(***************************************************************************)
EXTENDS Gate, SequenceTheorems, TLAPS

IsCommand(x) ==
    x = [pc |-> x.pc, name |-> x.name, todo |-> x.todo, ok |-> x.ok, code |-> x.code,
         rule |-> x.rule, table |-> x.table, scope |-> x.scope, given |-> x.given,
         seen |-> x.seen]

\* Every rule done so far has its samples in seen, if all passed.
Earned(x, r) == \E s \in x.seen : s.rule = r /\ Fires(r, s.hit) /\ ~Fires(r, s.miss)

Evidence(x) ==
    /\ x.ok \in BOOLEAN
    /\ x.name \in {"test", "demo"}
    /\ x.todo \subseteq x.given
    /\ x.pc \in {"compile", "replay"} => x.given # {} /\ x.code # 0
    /\ x.pc = "compile" => x.name = "demo" /\ x.todo = x.given /\ x.ok
                            /\ x.rule = NoRule
    /\ x.rule = NoRule => x.table = Absent
    /\ x.rule # NoRule => x.rule \in x.todo
    /\ x.pc = "replay" /\ x.ok => \A r \in x.given \ x.todo : Earned(x, r)
    /\ x.code = 0 => x.given # {} /\ \A r \in x.given : Earned(x, r)

\* What replay_samples finds out about a rule before its queries run.
Usable(r, dir) == /\ "duckdb" \notin Refuses[r]
                  /\ Absent \notin {dir[hit(r)], dir[miss(r)]}

Loadable(r, dir) == /\ Usable(r, dir)
                    /\ Readable(dir[hit(r)]) /\ Readable(dir[miss(r)])

Separates(r, dir) == Fires(r, dir[hit(r)]) /\ ~Fires(r, dir[miss(r)])

\* A command whose samples stand still agrees so far with one look at them.
Agreement(x, dir) ==
    /\ x.pc = "replay" =>
         /\ x.name = "demo" => CanShow(x.given)
         /\ \A r \in x.given \ x.todo : Loadable(r, dir)
         /\ x.ok <=> \A r \in x.given \ x.todo : Separates(r, dir)
         /\ x.rule # NoRule => Usable(x.rule, dir)
         /\ x.table # Absent => x.table = dir[hit(x.rule)] /\ Readable(x.table)
    /\ x.pc = "exited" /\ x.given # {} =>
         (x.code = 0 <=> /\ x.name = "demo" => CanShow(x.given) /\ x.scope
                         /\ Clean(x.given, dir))

Still == calm \/ command.name = "demo"

IInv ==
    /\ IsCommand(command)
    /\ Evidence(command)
    /\ Still => Agreement(command, Samples)

-----------------------------------------------------------------------------
LEMMA CleanIsBoth ==
  ASSUME NEW r, NEW dir
  PROVE  CleanRule(r, dir) <=> Loadable(r, dir) /\ Separates(r, dir)
BY DEF CleanRule, Loadable, Usable, Separates

LEMMA InitIInv == Init => IInv
BY DEF Init, IInv, IsCommand, Evidence, Agreement, Fresh, Still, NoRule

\* The writer's steps leave the command alone, and calm is over with a write.
LEMMA WriterIInv ==
  ASSUME IInv, StartWriter \/ OpenFile \/ WriteRow \/ CloseFile \/ StopWriter
  PROVE  IInv'
<1>1. command' = command
  BY DEF StartWriter, OpenFile, WriteRow, CloseFile, StopWriter
<1>2. calm' = FALSE \/ (calm' = calm /\ disk' = disk)
  BY DEF StartWriter, OpenFile, WriteRow, CloseFile, StopWriter, Write
<1>3. Still' => Still /\ Samples' = Samples
  BY <1>1, <1>2 DEF Still, Samples, IInv, Evidence
<1> QED
  BY <1>1, <1>3 DEF IInv

LEMMA LoadIInv ==
  ASSUME IInv, NEW name \in {"test", "demo"}, Load(name)
  PROVE  IInv'
<1> USE DEF Fresh, NoRule
<1>1. CASE \E code \in {1, 2} :
             command' = [Fresh EXCEPT !.pc = "exited", !.name = name, !.code = code]
  <2>1. PICK code \in {1, 2} :
             command' = [Fresh EXCEPT !.pc = "exited", !.name = name, !.code = code]
    BY <1>1
  <2>2. IsCommand(command')
    BY <2>1 DEF IsCommand
  <2>3. Evidence(command')
    BY <2>1 DEF Evidence
  <2>4. Agreement(command', Samples')
    BY <2>1 DEF Agreement
  <2> QED
    BY <2>2, <2>3, <2>4 DEF IInv
<1>2. CASE \E repo \in Repos :
             command' = [Fresh EXCEPT !.pc = IF name = "demo" THEN "compile" ELSE "replay",
                                      !.name = name, !.given = repo, !.todo = repo]
  <2>1. PICK repo \in Repos :
             command' = [Fresh EXCEPT !.pc = IF name = "demo" THEN "compile" ELSE "replay",
                                      !.name = name, !.given = repo, !.todo = repo]
    BY <1>2
  <2>2. repo # {}
    BY RulesAssumption
  <2>3. IsCommand(command')
    BY <2>1 DEF IsCommand
  <2>4. Evidence(command')
    BY <2>1, <2>2 DEF Evidence
  <2>5. Agreement(command', Samples')
    BY <2>1 DEF Agreement
  <2> QED
    BY <2>3, <2>4, <2>5 DEF IInv
<1> QED
  BY <1>1, <1>2 DEF Load

\* An exit that is not a pass keeps the evidence, and agrees where some rule
\* is not clean.
LEMMA EndedIInv ==
  ASSUME IInv, command.pc \in {"compile", "replay"},
         UNCHANGED <<disk, calm>>,
         command' = Ended(1),
         Still => \/ command.name = "demo" /\ ~CanShow(command.given)
                  \/ ~Clean(command.given, Samples)
  PROVE  IInv'
<1>1. command' = [command EXCEPT !.pc = "exited", !.code = 1, !.rule = NoRule,
                                 !.table = Absent, !.todo = {}]
  BY DEF Ended
<1>2. /\ IsCommand(command')
      /\ command'.pc = "exited" /\ command'.code = 1 /\ command'.rule = NoRule
      /\ command'.todo = {} /\ command'.table = Absent /\ command'.name = command.name
      /\ command'.given = command.given /\ command'.ok = command.ok
  BY <1>1 DEF IInv, IsCommand
<1>3. Evidence(command')
  BY <1>2 DEF IInv, Evidence
<1>4. Still' = Still /\ Samples' = Samples
  BY <1>2 DEF Still, Samples
<1>5. Still => Agreement(command', Samples)
  BY <1>2 DEF Agreement
<1> QED
  BY <1>2, <1>3, <1>4, <1>5 DEF IInv

LEMMA CompileIInv == IInv /\ CompileAll => IInv'
<1> SUFFICES ASSUME IInv, CompileAll PROVE IInv'
  OBVIOUS
<1>1. /\ command.pc = "compile" /\ command.name = "demo"
      /\ UNCHANGED <<disk, calm>>
  BY DEF IInv, Evidence, CompileAll
<1>2. CASE ~CanShow(command.given)
  BY <1>1, <1>2, EndedIInv DEF CompileAll
<1>3. CASE CanShow(command.given)
  <2>1. command' = [command EXCEPT !.pc = "replay"]
    BY <1>3 DEF CompileAll
  <2>2. /\ IsCommand(command')
        /\ command'.pc = "replay" /\ command'.name = command.name
        /\ command'.code = command.code /\ command'.rule = command.rule
        /\ command'.todo = command.todo /\ command'.table = command.table
        /\ command'.given = command.given /\ command'.ok = command.ok
        /\ command'.seen = command.seen
    BY <2>1 DEF IInv, IsCommand
  <2>3. Evidence(command')
    BY <1>1, <2>2 DEF IInv, Evidence
  <2>4. Agreement(command', Samples')
    BY <1>1, <1>3, <2>2 DEF IInv, Evidence, Agreement
  <2> QED
    BY <2>2, <2>3, <2>4 DEF IInv
<1> QED
  BY <1>2, <1>3

LEMMA FindIInv ==
  ASSUME IInv, NEW r \in Rules, FindSamples(r)
  PROVE  IInv'
<1>1. /\ command.pc = "replay" /\ command.rule = NoRule /\ r \in command.todo
      /\ UNCHANGED <<disk, calm>> /\ r \in command.given
  BY DEF FindSamples, Replaying, IInv, Evidence
<1>2. CASE ~Usable(r, Samples)
  <2>1. command' = Ended(1)
    BY <1>2 DEF Usable, FindSamples, FailMissing
  <2>2. ~Clean(command.given, Samples)
    BY <1>1, <1>2 DEF Clean, CleanRule, Usable
  <2> QED
    BY <1>1, <2>1, <2>2, EndedIInv
<1>3. CASE Usable(r, Samples)
  <2>1. command' = [command EXCEPT !.rule = r]
    BY <1>3 DEF Usable, FindSamples
  <2>2. /\ IsCommand(command')
        /\ command'.pc = command.pc /\ command'.name = command.name
        /\ command'.code = command.code /\ command'.rule = r
        /\ command'.todo = command.todo /\ command'.table = command.table
        /\ command'.given = command.given /\ command'.ok = command.ok
        /\ command'.seen = command.seen
    BY <2>1 DEF IInv, IsCommand
  <2>3. Evidence(command')
    BY <1>1, <2>2 DEF IInv, Evidence, Earned
  <2>4. Still' = Still /\ Samples' = Samples
    BY <1>1, <2>2 DEF Still, Samples
  <2>5. command.table = Absent
    BY <1>1 DEF IInv, Evidence
  <2>6. Still => Agreement(command', Samples)
    BY <1>1, <1>3, <2>2, <2>5 DEF IInv, Agreement
  <2> QED
    BY <2>2, <2>3, <2>4, <2>6 DEF IInv
<1> QED
  BY <1>2, <1>3

LEMMA HitIInv == IInv /\ LoadHit => IInv'
<1> SUFFICES ASSUME IInv, LoadHit PROVE IInv'
  OBVIOUS
<1> DEFINE rows == Samples[hit(command.rule)]
<1>1. /\ command.pc = "replay" /\ command.rule # NoRule
      /\ command.rule \in command.todo /\ command.rule \in command.given
      /\ UNCHANGED <<disk, calm>>
  BY DEF LoadHit, Replaying, IInv, Evidence
<1>2. CASE ~Readable(rows)
  <2>1. command' = Ended(1)
    BY <1>2 DEF LoadHit
  <2>2. ~Clean(command.given, Samples)
    BY <1>1, <1>2 DEF Clean, CleanRule
  <2> QED
    BY <1>1, <2>1, <2>2, EndedIInv
<1>3. CASE Readable(rows)
  <2>1. command' = [command EXCEPT !.table = rows]
    BY <1>3 DEF LoadHit
  <2>2. /\ IsCommand(command')
        /\ command'.pc = command.pc /\ command'.name = command.name
        /\ command'.code = command.code /\ command'.rule = command.rule
        /\ command'.todo = command.todo /\ command'.table = rows
        /\ command'.given = command.given /\ command'.ok = command.ok
        /\ command'.seen = command.seen
    BY <2>1 DEF IInv, IsCommand
  <2>3. Evidence(command')
    BY <1>1, <2>2 DEF IInv, Evidence, Earned
  <2>4. Still' = Still /\ Samples' = Samples
    BY <1>1, <2>2 DEF Still, Samples
  <2>5. Still => Agreement(command', Samples)
    BY <1>1, <1>3, <2>2 DEF IInv, Agreement
  <2> QED
    BY <2>2, <2>3, <2>4, <2>5 DEF IInv
<1> QED
  BY <1>2, <1>3

LEMMA MissIInv == IInv /\ LoadMiss => IInv'
<1> SUFFICES ASSUME IInv, LoadMiss PROVE IInv'
  OBVIOUS
<1> DEFINE r      == command.rule
           hits   == command.table
           misses == Samples[miss(r)]
           passed == Passed(r, hits, misses)
<1>1. /\ command.pc = "replay" /\ r # NoRule /\ hits # Absent
      /\ r \in command.todo /\ r \in command.given
      /\ UNCHANGED <<disk, calm>>
  BY DEF LoadMiss, Replaying, IInv, Evidence
<1>2. CASE ~Readable(misses)
  <2>1. command' = Ended(1)
    BY <1>2 DEF LoadMiss
  <2>2. ~Clean(command.given, Samples)
    BY <1>1, <1>2 DEF Clean, CleanRule
  <2> QED
    BY <1>1, <2>1, <2>2, EndedIInv
<1>3. CASE Readable(misses)
  <2> DEFINE one == [rule |-> r, hit |-> hits, miss |-> misses]
  <2>1. command' = [command EXCEPT !.ok = @ /\ passed, !.rule = NoRule, !.table = Absent,
                                   !.todo = @ \ {r}, !.seen = @ \cup {one}]
    BY <1>3 DEF LoadMiss, Conjoin
  <2>2. /\ IsCommand(command')
        /\ command'.pc = command.pc /\ command'.name = command.name
        /\ command'.code = command.code /\ command'.rule = NoRule
        /\ command'.todo = command.todo \ {r} /\ command'.table = Absent
        /\ command'.given = command.given
        /\ command'.seen = command.seen \cup {one}
    BY <2>1 DEF IInv, IsCommand
  <2>3. command'.ok = (command.ok /\ passed)
    BY <2>1 DEF IInv, IsCommand
  <2>4. command'.ok \in BOOLEAN /\ (command'.ok <=> command.ok /\ passed)
    BY <2>3 DEF IInv, Evidence
  <2>5. command'.given \ command'.todo = (command.given \ command.todo) \cup {r}
    BY <1>1, <2>2
  <2>6. ASSUME command'.ok, NEW q \in command'.given \ command'.todo
        PROVE  Earned(command', q)
    <3>1. CASE q = r
      <4>1. one \in command'.seen /\ one.rule = r /\ one.hit = hits /\ one.miss = misses
        BY <2>2
      <4>2. Fires(r, hits) /\ ~Fires(r, misses)
        BY <2>4, <2>6 DEF Passed
      <4> QED
        BY <3>1, <4>1, <4>2 DEF Earned
    <3>2. CASE q \in command.given \ command.todo
      BY <1>1, <2>2, <2>4, <2>6, <3>2 DEF Earned, IInv, Evidence
    <3> QED
      BY <2>5, <2>6, <3>1, <3>2
  <2>7. Evidence(command')
    BY <1>1, <2>2, <2>4, <2>6 DEF IInv, Evidence
  <2>8. Still' = Still /\ Samples' = Samples
    BY <1>1, <2>2 DEF Still, Samples
  <2>9. Still => Agreement(command', Samples)
    <3> SUFFICES ASSUME Still PROVE Agreement(command', Samples)
      OBVIOUS
    <3>1. /\ command.name = "demo" => CanShow(command.given)
          /\ \A q \in command.given \ command.todo : Loadable(q, Samples)
          /\ command.ok <=> \A q \in command.given \ command.todo : Separates(q, Samples)
          /\ Usable(r, Samples)
          /\ hits = Samples[hit(r)] /\ Readable(hits)
      BY <1>1 DEF IInv, Agreement
    <3>2. Loadable(r, Samples)
      BY <1>3, <3>1 DEF Loadable
    <3>3. passed <=> Separates(r, Samples)
      BY <3>1 DEF Passed, Separates
    <3>4. \A q \in command'.given \ command'.todo : Loadable(q, Samples)
      BY <2>5, <3>1, <3>2
    <3>5. command'.ok <=> \A q \in command'.given \ command'.todo : Separates(q, Samples)
      BY <2>4, <2>5, <3>1, <3>3
    <3> QED
      BY <1>1, <2>2, <3>1, <3>4, <3>5 DEF Agreement
  <2> QED
    BY <2>2, <2>7, <2>8, <2>9 DEF IInv
<1> QED
  BY <1>2, <1>3

LEMMA ConcludeIInv == IInv /\ Conclude => IInv'
<1> SUFFICES ASSUME IInv, Conclude PROVE IInv'
  OBVIOUS
<1>0. PICK readable \in BOOLEAN :
        /\ command.name = "test" => readable
        /\ command' = [Ended(Concluded(readable)) EXCEPT !.scope = readable]
  BY DEF Conclude
<1> DEFINE code == IF command.ok /\ readable THEN 0 ELSE 1
<1>1. /\ command.pc = "replay" /\ command.todo = {} /\ UNCHANGED <<disk, calm>>
      /\ command.given # {}
  BY DEF Conclude, Replaying, IInv, Evidence
<1>2. command' = [command EXCEPT !.pc = "exited", !.code = code, !.rule = NoRule,
                                 !.table = Absent, !.todo = {}, !.scope = readable]
  <2>1. command = [pc |-> command.pc, name |-> command.name, todo |-> command.todo,
                   ok |-> command.ok, code |-> command.code, rule |-> command.rule,
                   table |-> command.table, scope |-> command.scope,
                   given |-> command.given, seen |-> command.seen]
    BY DEF IInv, IsCommand
  <2> QED
    BY <1>0, <2>1 DEF Ended, Concluded
<1>3. /\ IsCommand(command')
      /\ command'.pc = "exited" /\ command'.code = code /\ command'.rule = NoRule
      /\ command'.todo = {} /\ command'.name = command.name /\ command'.table = Absent
      /\ command'.given = command.given /\ command'.ok = command.ok
      /\ command'.seen = command.seen /\ command'.scope = readable
  BY <1>2 DEF IInv, IsCommand
<1>4. code = 0 <=> command.ok /\ readable
  OBVIOUS
<1>5. Evidence(command')
  BY <1>1, <1>3, <1>4 DEF IInv, Evidence, Earned
<1>6. Still' = Still /\ Samples' = Samples
  BY <1>1, <1>3 DEF Still, Samples
<1>7. Still => Agreement(command', Samples)
  <2> SUFFICES ASSUME Still PROVE Agreement(command', Samples)
    OBVIOUS
  <2>1. /\ command.name = "demo" => CanShow(command.given)
        /\ \A q \in command.given : Loadable(q, Samples)
        /\ command.ok <=> \A q \in command.given : Separates(q, Samples)
    BY <1>1 DEF IInv, Agreement
  <2>2. command.ok <=> Clean(command.given, Samples)
    BY <2>1, CleanIsBoth DEF Clean
  <2>3. command.name # "demo" => readable
    BY <1>0 DEF IInv, Evidence
  <2> QED
    BY <1>3, <1>4, <2>1, <2>2, <2>3 DEF Agreement
<1> QED
  BY <1>3, <1>5, <1>6, <1>7 DEF IInv

THEOREM Invariance == Spec => []IInv
<1>1. Init => IInv
  BY InitIInv
<1>2. IInv /\ [Next]_vars => IInv'
  <2> SUFFICES ASSUME IInv, [Next]_vars PROVE IInv'
    OBVIOUS
  <2>1. CASE StartWriter \/ OpenFile \/ WriteRow \/ CloseFile \/ StopWriter
    BY <2>1, WriterIInv
  <2>2. CASE Load("test") \/ Load("demo")
    BY <2>2, LoadIInv
  <2>3. CASE CompileAll
    BY <2>3, CompileIInv
  <2>4. CASE \E r \in Rules : FindSamples(r)
    BY <2>4, FindIInv
  <2>5. CASE LoadHit \/ LoadMiss \/ Conclude
    BY <2>5, HitIInv, MissIInv, ConcludeIInv
  <2>6. CASE UNCHANGED vars
    BY <2>6 DEF vars, IInv, Still, Samples
  <2> QED
    BY <2>1, <2>2, <2>3, <2>4, <2>5, <2>6 DEF Next
<1> QED
  BY <1>1, <1>2, PTL DEF Spec

-----------------------------------------------------------------------------
(* A PASS of kodon test or kodon demo is earned by every rule it loaded,   *)
(* whatever is written to the samples while it reads them.                 *)
THEOREM PassEarned == Spec => []PassIsEarned
<1>1. IInv => PassIsEarned
  BY DEF IInv, Evidence, Earned, PassIsEarned
<1> QED
  BY <1>1, Invariance, PTL

(* With the samples left alone, kodon test passes exactly if every rule    *)
(* it loaded is clean over them.                                           *)
THEOREM TestSound == Spec => []TestIsOfTheSamples
<1>1. IInv => TestIsOfTheSamples
  BY DEF IInv, Agreement, Still, Samples, Exited, TestIsOfTheSamples
<1> QED
  BY <1>1, Invariance, PTL

(* kodon demo passes exactly if its rules compile, can be shown and are    *)
(* clean over a whole generation, and the scope can be read.               *)
THEOREM DemoSound == Spec => []DemoIsOfTheRules
<1>1. IInv => DemoIsOfTheRules
  BY DEF IInv, Agreement, Still, Samples, Exited, DemoIsOfTheRules
<1> QED
  BY <1>1, Invariance, PTL

-----------------------------------------------------------------------------
(* The writer: what stands in the files, whatever was stopped before.      *)
Complete(i) == disk[FileAt(i)] = Rows[writer.seed][FileAt(i)]

Places ==
    /\ DOMAIN disk = File
    /\ writer = [pc |-> writer.pc, seed |-> writer.seed, at |-> writer.at]
    /\ writer.pc \in {"opening", "writing", "done", "stopped"}
    /\ writer.seed \in Seeds /\ writer.at \in 1..Last

Begun(f) == disk[f] = Absent \/ (f \in Generated
                                   /\ \E s \in Seeds : Beginning(disk[f], Rows[s][f]))

DiskInv ==
    /\ Places
    /\ \A f \in File : Begun(f)
    /\ writer.pc \in {"opening", "writing"} => \A i \in 1..writer.at - 1 : Complete(i)
    /\ writer.pc = "writing" =>
         Beginning(disk[FileAt(writer.at)], Rows[writer.seed][FileAt(writer.at)])
    /\ writer.pc = "done" => \A i \in 1..Last : Complete(i)

-----------------------------------------------------------------------------
LEMMA FilesInOrder ==
  /\ Last \in Nat /\ 1 \in 1..Last
  /\ \A i \in 1..Last : FileAt(i) \in Generated /\ FileAt(i) \in File
  /\ \A i, j \in 1..Last : FileAt(i) = FileAt(j) => i = j
  /\ \A f \in Generated : \E i \in 1..Last : f = FileAt(i)
<1> DEFINE n == Len(Generators)
<1>1. n \in Nat /\ n > 0 /\ DOMAIN Generators = 1..n /\ \A k \in 1..n : Generators[k] \in Ids
  BY GeneratorsAssumption, EmptySeq, LenProperties
<1>2. Last = 2 * n
  BY DEF Last
<1>3. ASSUME NEW i \in 1..Last PROVE (i + 1) \div 2 \in 1..n
  BY <1>1, <1>2
<1>4. \A i \in 1..Last : FileAt(i) \in Generated /\ FileAt(i) \in File
  BY <1>1, <1>3 DEF FileAt, Generated, File
<1>5. ASSUME NEW i \in 1..Last, NEW j \in 1..Last, FileAt(i) = FileAt(j) PROVE i = j
  <2>1. Generators[(i + 1) \div 2] = Generators[(j + 1) \div 2] /\ (i % 2 = 1 <=> j % 2 = 1)
    BY <1>5 DEF FileAt
  <2>2. (i + 1) \div 2 = (j + 1) \div 2
    BY <1>1, <1>3, <2>1, GeneratorsAssumption
  <2> QED
    BY <1>1, <1>2, <2>1, <2>2
<1>6. ASSUME NEW f \in Generated PROVE \E i \in 1..Last : f = FileAt(i)
  <2>1. PICK k \in 1..n : Generators[k] = f.rule
    BY <1>1 DEF Generated
  <2>2. f = [rule |-> f.rule, name |-> f.name] /\ f.name \in {"hit", "miss"}
    BY DEF Generated, File
  <2>3. CASE f.name = "hit"
    <3>1. 2 * k - 1 \in 1..Last /\ (2 * k - 1 + 1) \div 2 = k /\ (2 * k - 1) % 2 = 1
      BY <1>1, <1>2
    <3> QED
      BY <2>1, <2>2, <2>3, <3>1 DEF FileAt
  <2>4. CASE f.name = "miss"
    <3>1. 2 * k \in 1..Last /\ (2 * k + 1) \div 2 = k /\ (2 * k) % 2 # 1
      BY <1>1, <1>2
    <3> QED
      BY <2>1, <2>2, <2>4, <3>1 DEF FileAt
  <2> QED
    BY <2>2, <2>3, <2>4
<1> QED
  BY <1>1, <1>2, <1>4, <1>5, <1>6

LEMMA GeneratedRows ==
  ASSUME NEW s \in Seeds, NEW f \in Generated
  PROVE  Rows[s][f] \in Seq(Row)
BY GeneratorsAssumption

\* What is whole in a beginning is a prefix, of a length that Unwritten goes by.
LEMMA WholeOfBeginning ==
  ASSUME NEW all \in Seq(Row), NEW rows, Beginning(rows, all)
  PROVE  \E n \in 0..Len(all) :
           /\ Whole(rows) = SubSeq(all, 1, n) /\ Len(Whole(rows)) = n
           /\ rows \in Seq(Row \cup {Torn})
           /\ IsTorn(rows) => n < Len(all)
           /\ ~IsTorn(rows) => rows = SubSeq(all, 1, n)
<1>1. PICK n \in 0..Len(all) :
        \/ rows = SubSeq(all, 1, n)
        \/ n < Len(all) /\ rows = Append(SubSeq(all, 1, n), Torn)
  BY DEF Beginning
<1> DEFINE pre == SubSeq(all, 1, n)
<1>2. /\ pre \in Seq(Row) /\ Len(pre) = n /\ Len(all) \in Nat
      /\ \A i \in 1..n : pre[i] = all[i]
  BY SubSeqProperties, LenProperties
<1>3. CASE rows = pre
  <2>1. ~IsTorn(rows)
    <3> SUFFICES ASSUME rows # <<>> PROVE rows[Len(rows)] # Torn
      BY DEF IsTorn
    <3>1. Len(rows) \in 1..Len(rows)
      BY <1>2, <1>3, EmptySeq
    <3>2. rows[Len(rows)] \in Row
      BY <1>2, <1>3, <3>1, ElementOfSeq
    <3> QED
      BY <3>2, GeneratorsAssumption
  <2>2. rows \in Seq(Row \cup {Torn})
    BY <1>2, <1>3, SeqMonotonic
  <2> QED
    BY <1>2, <1>3, <2>1, <2>2 DEF Whole
<1>4. CASE n < Len(all) /\ rows = Append(pre, Torn)
  <2>1. pre \in Seq(Row \cup {Torn})
    BY <1>2
  <2>2. /\ rows \in Seq(Row \cup {Torn}) /\ Len(rows) = n + 1
        /\ \A i \in 1..n : rows[i] = pre[i]
        /\ rows[Len(rows)] = Torn /\ rows # <<>>
    BY <1>2, <1>4, <2>1, AppendProperties
  <2>3. SubSeq(rows, 1, Len(rows) - 1) = pre
    <3>1. SubSeq(rows, 1, n) \in Seq(Row \cup {Torn}) /\ Len(SubSeq(rows, 1, n)) = n
          /\ \A i \in 1..n : SubSeq(rows, 1, n)[i] = rows[i]
      BY <2>2, SubSeqProperties
    <3> QED
      BY <1>2, <2>1, <2>2, <3>1, SeqEqual
  <2> QED
    BY <1>2, <1>4, <2>2, <2>3 DEF Whole, IsTorn
<1> QED
  BY <1>1, <1>3, <1>4

\* The next row, or a part of it, makes a beginning of a beginning.
LEMMA LongerBeginning ==
  ASSUME NEW all \in Seq(Row), NEW rows, Beginning(rows, all),
         NEW n \in Nat, n = Len(Whole(rows)), n < Len(all)
  PROVE  /\ Beginning(Append(Whole(rows), all[n + 1]), all)
         /\ ~IsTorn(rows) => Beginning(Append(rows, Torn), all)
<1>1. /\ n \in 0..Len(all) /\ Whole(rows) = SubSeq(all, 1, n)
      /\ ~IsTorn(rows) => rows = SubSeq(all, 1, n)
  BY WholeOfBeginning
<1>2. Append(SubSeq(all, 1, n), all[n + 1]) = SubSeq(all, 1, n + 1)
  <2> DEFINE a == Append(SubSeq(all, 1, n), all[n + 1])
             b == SubSeq(all, 1, n + 1)
  <2>1. /\ SubSeq(all, 1, n) \in Seq(Row) /\ Len(SubSeq(all, 1, n)) = n
        /\ \A i \in 1..n : SubSeq(all, 1, n)[i] = all[i]
    BY <1>1, SubSeqProperties, LenProperties
  <2>2. /\ b \in Seq(Row) /\ Len(b) = n + 1 /\ \A i \in 1..n + 1 : b[i] = all[i]
    BY <1>1, SubSeqProperties, LenProperties
  <2>3. all[n + 1] \in Row
    BY ElementOfSeq, LenProperties
  <2>4. /\ a \in Seq(Row) /\ Len(a) = n + 1 /\ a[n + 1] = all[n + 1]
        /\ \A i \in 1..n : a[i] = all[i]
    BY <2>1, <2>3, AppendProperties
  <2>5. \A i \in 1..n + 1 : a[i] = b[i]
    BY <2>2, <2>4
  <2> QED
    BY <2>2, <2>4, <2>5, SeqEqual
<1>3. n + 1 \in 0..Len(all)
  BY <1>1, LenProperties
<1> QED
  BY <1>1, <1>2, <1>3 DEF Beginning

LEMMA NothingBegins ==
  ASSUME NEW all \in Seq(Row)
  PROVE  Beginning(<<>>, all) /\ Beginning(all, all)
<1>1. SubSeq(all, 1, 0) = <<>> /\ SubSeq(all, 1, Len(all)) = all
  BY SubSeqEmpty, SubSeqFull, LenProperties
<1>2. Len(all) \in Nat /\ 0 \in 0..Len(all) /\ Len(all) \in 0..Len(all)
  BY LenProperties
<1>3. Beginning(<<>>, all)
  BY <1>1, <1>2 DEF Beginning
<1>4. Beginning(all, all)
  BY <1>1, <1>2 DEF Beginning
<1> QED
  BY <1>3, <1>4

LEMMA InitDiskInv == Init => DiskInv
<1> SUFFICES ASSUME Init PROVE DiskInv
  OBVIOUS
<1>1. PICK s \in Seeds :
        \/ disk = Generation(s) /\ writer = [pc |-> "done", seed |-> s, at |-> Last]
        \/ /\ disk = [f \in File |-> Absent]
           /\ writer = [pc |-> "stopped", seed |-> s, at |-> 1]
  BY DEF Init
<1>2. CASE /\ disk = [f \in File |-> Absent]
           /\ writer = [pc |-> "stopped", seed |-> s, at |-> 1]
  BY <1>2, FilesInOrder DEF DiskInv, Places, Begun
<1>3. CASE disk = Generation(s) /\ writer = [pc |-> "done", seed |-> s, at |-> Last]
  <2>1. DOMAIN disk = File /\ \A f \in File :
          disk[f] = IF f \in Generated THEN Rows[s][f] ELSE Absent
    BY <1>3 DEF Generation
  <2>2. \A f \in File : Begun(f)
    BY <2>1, GeneratedRows, NothingBegins DEF Begun
  <2>3. Places
    BY <1>3, <2>1, FilesInOrder DEF Places
  <2>4. \A i \in 1..Last : Complete(i)
    BY <1>3, <2>1, FilesInOrder DEF Complete
  <2> QED
    BY <1>3, <2>2, <2>3, <2>4 DEF DiskInv
<1> QED
  BY <1>1, <1>2, <1>3

\* The file that is being written becomes a longer beginning of its rows; the
\* others stay.
LEMMA WriteDiskInv ==
  ASSUME DiskInv, writer.pc \in {"opening", "writing"},
         NEW rows, Write(FileAt(writer.at), rows),
         Beginning(rows, Rows[writer.seed][FileAt(writer.at)]),
         writer' = [writer EXCEPT !.pc = "writing"]
  PROVE  DiskInv'
<1> DEFINE f == FileAt(writer.at)
<1>1. /\ writer.at \in 1..Last /\ writer.seed \in Seeds
      /\ f \in Generated /\ f \in File /\ DOMAIN disk = File
  BY FilesInOrder DEF DiskInv, Places
<1>2. /\ DOMAIN disk' = File /\ disk'[f] = rows
      /\ \A g \in File : g # f => disk'[g] = disk[g]
  BY <1>1 DEF Write
<1>3. /\ writer' = [pc |-> writer'.pc, seed |-> writer'.seed, at |-> writer'.at]
      /\ writer'.pc = "writing" /\ writer'.seed = writer.seed /\ writer'.at = writer.at
  BY DEF DiskInv, Places
<1>4. Places'
  BY <1>1, <1>2, <1>3 DEF Places
<1>5. ASSUME NEW g \in File PROVE Begun(g)'
  BY <1>1, <1>2 DEF DiskInv, Begun
<1>6. ASSUME NEW i \in 1..writer.at - 1 PROVE Complete(i)'
  <2>1. i \in 1..Last /\ i # writer.at
    BY <1>1, FilesInOrder
  <2>2. FileAt(i) \in File /\ FileAt(i) # f
    BY <1>1, <2>1, FilesInOrder
  <2>3. Complete(i)
    BY DEF DiskInv
  <2> QED
    BY <1>2, <1>3, <2>2, <2>3 DEF Complete
<1>7. Beginning(disk'[FileAt(writer'.at)], Rows[writer'.seed][FileAt(writer'.at)])
  BY <1>2, <1>3
<1> QED
  BY <1>3, <1>4, <1>5, <1>6, <1>7 DEF DiskInv

LEMMA OpenDiskInv == DiskInv /\ OpenFile => DiskInv'
<1> SUFFICES ASSUME DiskInv, OpenFile PROVE DiskInv'
  OBVIOUS
<1>1. /\ writer.pc = "opening" /\ Write(FileAt(writer.at), <<>>)
      /\ writer' = [writer EXCEPT !.pc = "writing"]
  BY DEF OpenFile, Open
<1>2. Beginning(<<>>, Rows[writer.seed][FileAt(writer.at)])
  BY FilesInOrder, GeneratedRows, NothingBegins DEF DiskInv, Places
<1> QED
  BY <1>1, <1>2, WriteDiskInv

\* What Unwritten says of a file that has begun.
LEMMA UnwrittenRows ==
  ASSUME DiskInv, writer.pc = "writing"
  PROVE  LET all  == Rows[writer.seed][FileAt(writer.at)]
             rows == disk[FileAt(writer.at)]
         IN  /\ all \in Seq(Row) /\ Beginning(rows, all)
             /\ Len(Whole(rows)) \in 0..Len(all)
             /\ Unwritten # {} => Len(Whole(rows)) < Len(all)
             /\ Unwritten = {} => rows = all
<1> DEFINE all  == Rows[writer.seed][FileAt(writer.at)]
           rows == disk[FileAt(writer.at)]
           n    == Len(Whole(rows))
<1>1. all \in Seq(Row) /\ Beginning(rows, all)
  BY FilesInOrder, GeneratedRows DEF DiskInv, Places
<1>2. PICK m \in Nat : Len(all) = m /\ DOMAIN all = 1..m /\ SubSeq(all, 1, m) = all
  BY <1>1, LenProperties, SubSeqFull
<1>3. PICK k \in 0..m : /\ n = k
                        /\ IsTorn(rows) => k < m
                        /\ ~IsTorn(rows) => rows = SubSeq(all, 1, k)
  BY <1>1, <1>2, WholeOfBeginning
<1>4. Unwritten = {i \in 1..m : i > k}
  BY <1>2, <1>3 DEF Unwritten
<1> HIDE DEF all, rows, n
<1>5. Unwritten # {} => k < m
  BY <1>4
<1>6. Unwritten = {} => k = m
  <2> SUFFICES ASSUME k < m PROVE Unwritten # {}
    OBVIOUS
  <2>1. k + 1 \in 1..m /\ k + 1 > k
    OBVIOUS
  <2> QED
    BY <1>4, <2>1
<1>7. Unwritten = {} => rows = all
  BY <1>2, <1>3, <1>6
<1>8. /\ all \in Seq(Row) /\ Beginning(rows, all) /\ n \in 0..Len(all)
      /\ Unwritten # {} => n < Len(all)
      /\ Unwritten = {} => rows = all
  BY <1>1, <1>2, <1>3, <1>5, <1>7
<1> QED
  BY <1>8 DEF all, rows, n

LEMMA RowDiskInv == DiskInv /\ WriteRow => DiskInv'
<1> SUFFICES ASSUME DiskInv, WriteRow PROVE DiskInv'
  OBVIOUS
<1> DEFINE f    == FileAt(writer.at)
           all  == Rows[writer.seed][f]
           n    == Len(Whole(disk[f]))
<1>1. writer.pc = "writing" /\ Unwritten # {} /\ writer' = writer
  BY DEF WriteRow
<1>2. /\ all \in Seq(Row) /\ Beginning(disk[f], all) /\ n \in Nat /\ n < Len(all)
  BY <1>1, UnwrittenRows
<1>3. /\ Beginning(Append(Whole(disk[f]), all[n + 1]), all)
      /\ ~IsTorn(disk[f]) => Beginning(Append(disk[f], Torn), all)
  BY <1>2, LongerBeginning
<1>4. writer' = [writer EXCEPT !.pc = "writing"]
  BY <1>1 DEF DiskInv, Places
<1>5. PICK rows : Write(f, rows) /\ Beginning(rows, all)
  BY <1>3 DEF WriteRow
<1> QED
  BY <1>1, <1>4, <1>5, WriteDiskInv

LEMMA CloseDiskInv == DiskInv /\ CloseFile => DiskInv'
<1> SUFFICES ASSUME DiskInv, CloseFile PROVE DiskInv'
  OBVIOUS
<1>1. /\ writer.pc = "writing" /\ Unwritten = {} /\ disk' = disk
      /\ writer' = IF writer.at = Last THEN [writer EXCEPT !.pc = "done"]
                   ELSE [writer EXCEPT !.pc = "opening", !.at = @ + 1]
  BY DEF CloseFile
<1>2. writer.at \in 1..Last /\ Last \in Nat /\ writer.seed \in Seeds
  BY FilesInOrder DEF DiskInv, Places
<1>3. Complete(writer.at)
  BY <1>1, UnwrittenRows DEF Complete
<1>4. \A i \in 1..writer.at : Complete(i)
  BY <1>1, <1>2, <1>3 DEF DiskInv
<1>5. CASE writer.at = Last
  <2>1. /\ writer' = [pc |-> writer'.pc, seed |-> writer'.seed, at |-> writer'.at]
        /\ writer'.pc = "done" /\ writer'.seed = writer.seed /\ writer'.at = writer.at
    BY <1>1, <1>5 DEF DiskInv, Places
  <2> QED
    BY <1>1, <1>2, <1>4, <1>5, <2>1 DEF DiskInv, Places, Begun, Complete
<1>6. CASE writer.at # Last
  <2>1. /\ writer' = [pc |-> writer'.pc, seed |-> writer'.seed, at |-> writer'.at]
        /\ writer'.pc = "opening" /\ writer'.seed = writer.seed
        /\ writer'.at = writer.at + 1
    BY <1>1, <1>6 DEF DiskInv, Places
  <2>2. writer'.at \in 1..Last /\ 1..(writer'.at - 1) = 1..writer.at
    BY <1>2, <1>6, <2>1
  <2>3. Places'
    BY <1>1, <1>2, <2>1, <2>2 DEF DiskInv, Places
  <2>4. \A i \in 1..writer.at : Complete(i)'
    BY <1>1, <1>4, <2>1 DEF Complete
  <2> QED
    BY <1>1, <2>1, <2>2, <2>3, <2>4 DEF DiskInv, Begun
<1> QED
  BY <1>5, <1>6

\* A start or a stop leaves the files as they are, and so do the commands.
LEMMA StartDiskInv == DiskInv /\ (StartWriter \/ StopWriter) => DiskInv'
<1> SUFFICES ASSUME DiskInv, StartWriter \/ StopWriter PROVE DiskInv'
  OBVIOUS
<1>1. PICK s \in Seeds, at \in 1..Last, pc \in {"opening", "stopped"} :
        /\ writer' = [pc |-> pc, seed |-> s, at |-> at]
        /\ pc = "opening" => at = 1
  BY FilesInOrder DEF DiskInv, Places, StartWriter, StopWriter
<1>2. disk' = disk
  BY DEF StartWriter, StopWriter
<1> QED
  BY <1>1, <1>2 DEF DiskInv, Places, Begun

LEMMA CommandDiskInv == DiskInv /\ UNCHANGED <<disk, writer>> => DiskInv'
BY DEF DiskInv, Places, Begun, Complete

THEOREM FilesInvariance == Spec => []DiskInv
<1>1. Init => DiskInv
  BY InitDiskInv
<1>2. DiskInv /\ [Next]_vars => DiskInv'
  <2> SUFFICES ASSUME DiskInv, [Next]_vars PROVE DiskInv'
    OBVIOUS
  <2>1. CASE OpenFile \/ WriteRow \/ CloseFile
    BY <2>1, OpenDiskInv, RowDiskInv, CloseDiskInv
  <2>2. CASE StartWriter \/ StopWriter
    BY <2>2, StartDiskInv
  <2>3. CASE UNCHANGED <<disk, writer>>
    BY <2>3, CommandDiskInv
  <2>4. CASE \/ Load("test") \/ Load("demo") \/ CompileAll
             \/ \E r \in Rules : FindSamples(r)
             \/ LoadHit \/ LoadMiss \/ Conclude \/ UNCHANGED vars
    BY <2>3, <2>4 DEF Load, CompileAll, FindSamples, LoadHit, LoadMiss, Conclude,
                      Replaying, vars
  <2> QED
    BY <2>1, <2>2, <2>4 DEF Next
<1> QED
  BY <1>1, <1>2, PTL DEF Spec

(* A generation that ran to its end leaves exactly the rows of its seed,   *)
(* whatever was stopped before or left in the files.                       *)
THEOREM FinishedIsWhole == Spec => []GenerationIsWhole
<1>1. DiskInv => GenerationIsWhole
  BY FilesInOrder DEF DiskInv, Complete, GenerationIsWhole
<1> QED
  BY <1>1, FilesInvariance, PTL

-----------------------------------------------------------------------------
\* The rest of the command's types.
CommandInv ==
    /\ calm \in BOOLEAN
    /\ command.pc \in {"idle", "compile", "replay", "exited"}
    /\ command.code \in {-1, 0, 1, 2}
    /\ command.table # Absent => Readable(command.table)

LEMMA CommandStep == IInv /\ CommandInv /\ [Next]_vars => CommandInv'
<1> SUFFICES ASSUME IInv, CommandInv, [Next]_vars PROVE CommandInv'
  OBVIOUS
<1>0. ASSUME command' = Ended(1), calm' = calm PROVE CommandInv'
  BY <1>0 DEF CommandInv, IInv, IsCommand, Ended
<1>1. CASE StartWriter \/ OpenFile \/ WriteRow \/ CloseFile \/ StopWriter \/ UNCHANGED vars
  BY <1>1 DEF StartWriter, OpenFile, WriteRow, CloseFile, StopWriter, Write, vars, CommandInv
<1>2. CASE Load("test") \/ Load("demo")
  BY <1>2 DEF Load, Fresh, CommandInv
<1>3. CASE CompileAll
  BY <1>0, <1>3 DEF CompileAll, CommandInv, IInv, IsCommand
<1>4. CASE \E r \in Rules : FindSamples(r)
  BY <1>0, <1>4 DEF FindSamples, FailMissing, Replaying, CommandInv, IInv, IsCommand
<1>5. CASE LoadHit
  BY <1>0, <1>5 DEF LoadHit, Replaying, CommandInv, IInv, IsCommand
<1>6. CASE LoadMiss
  BY <1>0, <1>6 DEF LoadMiss, Replaying, CommandInv, IInv, IsCommand
<1>7. CASE Conclude
  BY <1>7 DEF Conclude, Concluded, Ended, Replaying, CommandInv, IInv, IsCommand
<1> QED
  BY <1>1, <1>2, <1>3, <1>4, <1>5, <1>6, <1>7 DEF Next

(* Every sample file is a beginning of what some seed generates for it,    *)
(* however often generations are stopped and started.                      *)
THEOREM TypeCorrect == Spec => []TypeOK
<1>1. ASSUME Init PROVE CommandInv
  <2>1. /\ calm = FALSE /\ command.pc = "idle" /\ command.code = -1
        /\ command.table = Absent
    BY <1>1 DEF Init, Fresh
  <2> QED
    BY <2>1 DEF CommandInv
<1>2. Spec => []CommandInv
  BY <1>1, CommandStep, Invariance, PTL DEF Spec
<1>3. IInv /\ CommandInv /\ DiskInv => TypeOK
  <2> SUFFICES ASSUME IInv, CommandInv, DiskInv PROVE TypeOK
    OBVIOUS
  <2>1. writer \in [pc: {"opening", "writing", "done", "stopped"}, seed: Seeds, at: 1..Last]
    BY DEF DiskInv, Places
  <2>2. /\ DOMAIN disk = File
        /\ \A f \in File :
             disk[f] = Absent \/ (f \in Generated
                                   /\ \E s \in Seeds : Beginning(disk[f], Rows[s][f]))
    BY DEF DiskInv, Places, Begun
  <2>3. /\ command.name \in {"test", "demo"} /\ command.ok \in BOOLEAN
        /\ command.todo \subseteq command.given
        /\ command.rule \in command.todo \cup {NoRule}
        /\ command.table # Absent => command.rule # NoRule
    BY DEF IInv, Evidence
  <2> QED
    BY <2>1, <2>2, <2>3 DEF TypeOK, CommandInv
<1> QED
  BY <1>2, <1>3, Invariance, FilesInvariance, PTL
=============================================================================
