CONSTANTS
    t1 = t1  t2 = t2  bad = bad
    Tasks = {t1, t2, bad}
    Unusable = {bad}
    Garbled = Garbled
    NoTask = NoTask
    Challenge = Challenge
    Jobs = {j1, j2}
    NoJob = NoJob
    DevPercent = 1
    Cycle = 3
    MaxResults = 1
    MaxShares = 2
SPECIFICATION FairSpec
INVARIANTS SharesArePending GuardIsExact
PROPERTIES CidIsOfItsJob JobsGoOn
CHECK_DEADLOCK FALSE
