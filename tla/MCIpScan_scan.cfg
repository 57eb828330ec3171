SPECIFICATION Spec
CONSTANTS
    term = term
    Scanners = {s1}
    OutDirs = {out}
    Out <- OneDirectory
    Files = {f1, f2}
    NamedAsText = {f1}
    InGit = TRUE
    Contents <- Marked
    Absent = Absent
    Classes <- ClassOrder
    Private = "private_terms"
    Low = {"public_ip"}
    TermLists <- AllTerms
    Empty = Empty
    Bad = Bad
INVARIANTS PassIsClean BrokenWins FailIsFound ShownIsFound VerdictOfTheTree
PROPERTY ScansAtOnce
