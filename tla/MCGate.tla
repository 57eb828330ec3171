------------------------------- MODULE MCGate -------------------------------
(* A small instance of Gate for TLC.  "wmi" is a rule on single events,    *)
(* "rc4" a correlation that takes two; each has a version that is too      *)
(* loose, one wmi cannot be compiled for KQL, and "new" has no generator.  *)
EXTENDS Gate, TLC

CONSTANTS wmi, wmiLoose, wmiNoKql, rc4, rc4Late, new

AllRules == {wmi, wmiLoose, wmiNoKql, rc4, rc4Late, new}

IdOf == [r \in AllRules |-> CASE r \in {wmi, wmiLoose, wmiNoKql} -> "wmi"
                              [] r \in {rc4, rc4Late} -> "rc4"
                              [] r = new -> "new"]

Counted == {rc4, rc4Late}
Takes   == [r \in AllRules |-> CASE r = rc4 -> 2 [] r = rc4Late -> 3 [] OTHER -> 1]

\* "evil" and "burst" are what the rules are after, "near" a near miss.
Matches == [r \in AllRules |-> CASE r = wmiLoose -> {"evil", "near"}
                                 [] r \in Counted -> {"burst"}
                                 [] OTHER -> {"evil"}]

RefusedBy == [r \in AllRules |-> IF r = wmiNoKql THEN {"kql"} ELSE {}]

Repositories == {{wmi, rc4}, {wmiLoose, rc4}, {wmiNoKql, rc4}, {wmi, rc4Late},
                 {wmi}, {wmi, rc4, new}}

Sorted == <<"rc4", "wmi">>

\* The second seed yields the same kinds of rows in another number.
RowsOf(seed, f) ==
    CASE f = [rule |-> "rc4", name |-> "hit"]  -> <<"burst", "burst">>
      [] f = [rule |-> "rc4", name |-> "miss"] -> IF seed = 1 THEN <<"burst">> ELSE <<"calm", "burst">>
      [] f = [rule |-> "wmi", name |-> "hit"]  -> <<"evil">>
      [] f = [rule |-> "wmi", name |-> "miss"] -> <<"calm", "near">>

Samples1 == [s \in Seeds |-> [f \in Generated |-> RowsOf(s, f)]]
=============================================================================
