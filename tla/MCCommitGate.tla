---------------------------- MODULE MCCommitGate ----------------------------
(* Small instances of CommitGate for TLC: a public mark and a private      *)
(* term; the list served is one of comments only, or has the term; a copy  *)
(* that stopped has a cut term; the committer's environment has the term,  *)
(* or nothing; the script is run from the clone's root or elsewhere.       *)
EXTENDS CommitGate, TLC

CONSTANTS email, term, cut

Marked  == {{}, {email}, {term}}
Lists   == {{}, {term}}
Partial == {{cut}}
Vars    == {{}, {term}}

FilesSymmetry == Permutations(Files)

\* Bound: one file at a time is not as it was staged.
OneUnstaged == \A f, g \in Files : work[f] # index[f] /\ work[g] # index[g] => f = g

(* Bound: what happens elsewhere is explored over files that stay clean    *)
(* and committed, between commits.                                         *)
Elsewhere ==
    (setup.at # Root \/ \E p \in Places \ {Root} : hooks[p].text # "none") =>
        /\ ~Pending /\ scan = [s \in {"hook"} |-> Scan!None]
        /\ work = [f \in Files |-> {}] /\ index = work

\* Bound: nobody's hook lies elsewhere.
NoneElsewhere == \A p \in Places \ {Root} : hooks[p].text # "foreign"
=============================================================================
