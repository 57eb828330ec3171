SPECIFICATION Spec
CONSTANTS
    wmi = wmi
    rc4 = rc4
    proc1 = proc1
    ticket1 = ticket1
    ticket2 = ticket2
    Rules = {wmi, rc4}
    Correlation = {rc4}
    Matching <- MatchedBy
    Threshold <- Takes
    Group = Group
    RuleLists <- Calls
    Pipelines = {"public", "deployed", "partial"}
    Refuses <- Refusals
    Needs <- Fields
    StateTable <- SetTable
    PlainFollowsState = FALSE
    Names = {"events", "telemetry"}
    DEFAULT_TABLE = "events"
    Itself = "itself"
    Rows = {proc1, ticket1, ticket2}
    Keys <- FieldsOf
    Schemas <- CreatedWith
    Lists <- ReadFrom
    Unreadable = Unreadable
    MaxChanges = 2
INVARIANTS TypeOK AnswersStand ConnectionDecides SourceDecides
PROPERTY CallEnds
