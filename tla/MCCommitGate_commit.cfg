SPECIFICATION Spec
CONSTANTS
    email = email
    term = term
    cut = cut
    Files = {f1, f2}
    NamedAsText = {f1, f2}
    Contents <- Marked
    Absent = Absent
    Public = {email}
    Served <- Lists
    Torn <- Partial
    Envs <- Vars
    Empty = Empty
    SameDevice = FALSE
    Places = {clone, away}
    Root = clone
SYMMETRY FilesSymmetry
CONSTRAINTS OneUnstaged Elsewhere
INVARIANTS TypeOK FollowedIsClean ScannedForAList LoadedStaysOut InstalledIsArmed
PROPERTY ForeignHookKept
