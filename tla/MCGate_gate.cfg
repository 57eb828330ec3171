SPECIFICATION Spec
CONSTANTS
    wmi = wmi
    wmiLoose = wmiLoose
    wmiNoKql = wmiNoKql
    rc4 = rc4
    rc4Late = rc4Late
    new = new
    Rules <- AllRules
    Id <- IdOf
    Correlation <- Counted
    Threshold <- Takes
    Matching <- Matches
    Targets = {"splunk", "kql", "duckdb"}
    Refuses <- RefusedBy
    Repos <- Repositories
    Seeds = {1, 2}
    SEED = 1
    Generators <- Sorted
    Row = {"evil", "burst", "near", "calm"}
    Rows <- Samples1
    Torn = Torn
    Absent = Absent
INVARIANTS TypeOK PassIsEarned TestIsOfTheSamples DemoIsOfTheRules GenerationIsWhole
