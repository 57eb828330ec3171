SPECIFICATION Spec
CONSTANTS
    Times <- ValueTimes
    Timespan = 2
    Origin = 1
    Groups = {g1}
    Values = {v1, v2, v3}
    Null = Null
    Type = "value_count"
    Op = "GT"
    Count = 1
    MaxRows = 4
SYMMETRY ValueSymmetry
INVARIANTS HitsAreBursts DenseBurstsReported
