--------------------------- MODULE MCCorrelation ---------------------------
(* Small instances of Correlation for TLC.                                 *)
EXTENDS Correlation, TLC

\* Hosts and countries are interchangeable: the query only compares them.
GroupSymmetry == Permutations(Groups)
ValueSymmetry == Permutations(Values)

EventTimes == 0..4
ValueTimes == 0..3
=============================================================================
