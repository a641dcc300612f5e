CONSTANTS
    q1 = q1  q2 = q2  m1 = m1  m2 = m2
    Requests = {q1, q2}
    Paid = {q1}
    Models = {m1, m2}
    ModelOf <- Wants
    Fragile = {m2}
    NoRequest = NoRequest
    TxLists <- FewCarry
    MineWhenNotSynced = FALSE
    MaxQueue = 1  MaxSeen = 2
    MaxTemplates = 1  MaxFetches = 1
    MaxChallenges = 1  MaxReconnects = 1
SPECIFICATION FairSpec
INVARIANTS EscrowFollowsAnswer
PROPERTIES LifeFollowed MiningResumes
CHECK_DEADLOCK FALSE
