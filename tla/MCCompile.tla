----------------------------- MODULE MCCompile -----------------------------
(* Small instances of Compile for TLC.                                     *)
EXTENDS Compile, TLC

CONSTANTS split, weekly, monthly, d1, d2, v1, v2

\* The weekly correlation takes KQL's own branch, the monthly one its KeyError.
WeeklySpan == weekly :> [count |-> 2, unit |-> "w"]
TwoSpans   == WeeklySpan @@ monthly :> [count |-> 1, unit |-> "M"]

\* pySigma refuses the monthly rule on Splunk: a refusal outside KQL.
OnSplunk == {<<monthly, "splunk">>}

\* The rule without a correlation lists two conditions, and so does one of the
\* correlated ones, where they are no query of their own.
TwoConditions == [r \in Rules |-> IF r = monthly THEN 1 ELSE 2]

\* One list KQL and Splunk raise on half way, one Splunk and DuckDB raise on.
Lists == {{weekly, monthly}, {weekly, split}}

\* Bound: the files of the second directory are whole and stay as they are.
OtherDirSteady == \A target \in Piped : files[<<d2, target>>] = v1
=============================================================================
