------------------------------ MODULE MCReplay ------------------------------
(* A small instance of Replay for TLC: a rule on single events and a       *)
(* correlation that takes two, under the public pipeline, under one that   *)
(* names another table, and under one that misses a mapping or a rule.     *)
EXTENDS Replay

CONSTANTS wmi, rc4, proc1, ticket1, ticket2

MatchedBy == [r \in Rules |-> IF r = wmi THEN {proc1} ELSE {ticket1, ticket2}]
Takes     == [r \in Rules |-> IF r = wmi THEN 1 ELSE 2]

Calls == {<<wmi, rc4>>, <<rc4, wmi>>}

Refusals == [p \in Pipelines |-> IF p = "partial" THEN {rc4} ELSE {}]
Fields   == [p \in Pipelines |->
               [r \in Rules |-> IF r = rc4 THEN {"ts"}
                                ELSE IF p = "partial" THEN {"Image"} ELSE {"image"}]]
SetTable == [p \in Pipelines |-> IF p = "deployed" THEN "telemetry" ELSE "events"]

FieldsOf == [row \in Rows |-> IF row = proc1 THEN {"ts", "image"} ELSE {"ts"}]

CreatedWith == {{"ts"}, {"ts", "image"}}
ReadFrom == {{}, {ticket1}, {proc1, ticket1, ticket2}}
=============================================================================
