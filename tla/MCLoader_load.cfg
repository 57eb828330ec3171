SPECIFICATION Spec
CONSTANTS
    oneA = oneA
    oneB = oneB
    twoB = twoB
    Paths = {oneA, oneB, twoB}
    Stem <- StemOf
    Contents <- Some
    Absent = Absent
    Stray = Stray
    MaxEdits = 1
INVARIANTS TypeOK SigmaIdsDistinct LoadedCoversSteady RefusalHasCause OnlyListsSplit
CHECK_DEADLOCK FALSE
