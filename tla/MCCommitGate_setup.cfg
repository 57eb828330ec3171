SPECIFICATION Spec
CONSTANTS
    email = email
    term = term
    cut = cut
    Files = {f1}
    NamedAsText = {}
    Contents <- Marked
    Absent = Absent
    Public = {email}
    Served <- Lists
    Torn <- Partial
    Envs <- Vars
    Empty = Empty
    SameDevice = TRUE
    Places = {clone, away}
    Root = clone
CONSTRAINT NoneElsewhere
INVARIANT RunArms
