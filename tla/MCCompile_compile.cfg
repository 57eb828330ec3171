SPECIFICATION Spec
CONSTANTS
    d1 = d1
    d2 = d2
    v1 = v1
    v2 = v2
    split = split
    weekly = weekly
    monthly = monthly
    Rules = {split, weekly, monthly}
    Conditions <- TwoConditions
    Batches <- Lists
    Timespans <- TwoSpans
    Refused <- OnSplunk
    Dirs = {d1, d2}
    Versions = {v1, v2}
    Custom = {c1}
    Default = Default
    None = None
    Broken = Broken
    Unread = Unread
    Raised = Raised
    Idle = Idle
    MaxAnswers = 3
CONSTRAINT OtherDirSteady
INVARIANTS CallsRepeat MappedOnce WindowsAgree
PROPERTIES ImplementsTable
