------------------------------ MODULE MCIpScan ------------------------------
(* Small instances of IpScan for TLC: a HIGH class, the private terms, a   *)
(* MED class and a LOW one, in the order of the script.                    *)
EXTENDS IpScan, TLC

CONSTANTS term

ClassOrder == <<"emails", "private_terms", "rfc1918", "public_ip">>

OneDirectory == [s \in Scanners |-> CHOOSE o \in OutDirs : TRUE]

Marked == {{}, {"emails", "rfc1918"}, {term}, {"public_ip"}}
AllTerms  == {<<>>, <<term>>, <<Bad>>}
GoodTerms == {<<>>, <<term>>}

ScannersSymmetry == Permutations(Scanners)
=============================================================================
