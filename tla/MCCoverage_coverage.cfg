SPECIFICATION Spec
CONSTANTS
    a = a
    b = b
    t1 = t1
    t2 = t2
    t3 = t3
    exec = exec
    exfil = exfil
    Rules = {a, b}
    Techniques = {t1, t2, t3}
    Tactics = {exec, exfil}
    RuleSets <- Loads
    Scopes <- Declared
    Unreadable = Unreadable
    MaxEdits = 2
INVARIANTS GapsAgree ListsAgree EveryRuleShown
PROPERTY ReportEnds
