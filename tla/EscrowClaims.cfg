CONSTANTS
    b1 = b1  x1 = x1  x2 = x2  q1 = q1
    AiTx = AiTx  Plain = Plain  NoClaim = NoClaim
    Blocks = {b1}
    Requests = {q1}
    Outputs <- OneOutput
    Dust = {}
    Carried <- InferenceCarried
    Window = 1  Margin = 1  NodeLag = 2  BlockLag = 0
    OrphanCooldown = 2  SeqLockCooldown = 1  MaxOrphanRetries = 2
    CompactEvery = 2
    MaxScore = 4
    MaxWire = 0
    MaxRestarts = 1
    Saves = {"skip","saved"}
SPECIFICATION FairSpec
INVARIANTS ClaimedIsPaid SlashedIsHopeless 
PROPERTY EscrowsSettle
