SPECIFICATION Spec
CONSTANTS
    Times <- EventTimes
    Timespan = 3
    Origin = 1
    Groups = {g1, g2}
    Values = {}
    Null = Null
    Type = "event_count"
    Op = "GTE"
    Count = 3
    MaxRows = 5
SYMMETRY GroupSymmetry
INVARIANTS HitsAreBursts ReportedHitsStand DenseBurstsReported
