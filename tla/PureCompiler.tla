---------------------------- MODULE PureCompiler ----------------------------
(***************************************************************************)
(* What compile promises a consumer, without objects, caches or batches: a *)
(* compiler is a table.  It tells a query, or a refusal, for a rule, a     *)
(* target and a pipeline, and never another one for the same three; every  *)
(* source of pipelines stands for one pipeline; and what compile_all       *)
(* returns could have been looked up in the table at one moment.           *)
(***************************************************************************)
CONSTANT
    Refusal     \* told in place of a query

VARIABLES
    told,       \* records with rule, target, source, pipe and query
    returned    \* the last dictionary of compile_all, and the rules asked

Agree(a, b) ==
    /\ a.source = b.source => a.pipe = b.pipe
    /\ (a.rule = b.rule /\ a.target = b.target /\ a.pipe = b.pipe) => a.query = b.query

\* The table has one more entry, which contradicts none.
Learn == \E a \in told' : told' = told \cup {a} /\ \A b \in told : Agree(a, b)

Dictionary(dict) ==
    /\ {a.rule : a \in dict.entries} = dict.asked
    /\ \A a, b \in dict.entries : /\ a.rule = b.rule => a = b
                                  /\ a.target = b.target /\ a.pipe = b.pipe
                                  /\ a.query # Refusal

Init == told = {} /\ returned = [asked |-> {}, entries |-> {}]

Tell == Learn /\ UNCHANGED returned

Return == /\ Learn
          /\ returned'.entries \subseteq told'
          /\ Dictionary(returned')

Next == Tell \/ Return

Spec == Init /\ [][Next]_<<told, returned>>
=============================================================================
