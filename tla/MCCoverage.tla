----------------------------- MODULE MCCoverage -----------------------------
(* A small instance of Coverage for TLC: two rules, one of which tags a    *)
(* technique twice, over scopes in which a technique has two tactics or    *)
(* none, is listed twice, or is not listed.                                *)
EXTENDS Coverage

CONSTANTS a, b, t1, t2, t3, exec, exfil

Tagged(rule, ts, tacs) == [rule_id |-> rule, techniques |-> ts, tactics |-> tacs]

\* Tags as a list: one, two, or one of them twice.
Lists(x, y, z) == {<<x>>, <<x, y>>, <<y, z>>, <<x, x>>, <<z>>}

Metas(rule) == {Tagged(rule, ts, tacs) : ts \in Lists(t1, t2, t3),
                                         tacs \in {<<exec>>, <<exfil, exec>>}}

Loads == {<<x>> : x \in Metas(a)} \cup {<<x, y>> : x \in Metas(a), y \in Metas(b)}

In(t, tacs) == [technique |-> t, tactics |-> tacs]

Declared ==
    {<<In(t1, {exec})>>,
     <<In(t1, {exec, exfil}), In(t2, {exfil})>>,
     <<In(t1, {}), In(t3, {exec})>>,
     <<In(t2, {exec}), In(t2, {exfil})>>,
     <<In(t1, {exec}), In(t2, {exec}), In(t3, {exfil})>>}
=============================================================================
