CONSTANTS
    b1 = b1  x1 = x1  x2 = x2  q1 = q1
    AiTx = AiTx  Plain = Plain  NoClaim = NoClaim
    Blocks = {b1}
    Requests = {q1}
    Outputs <- TwoOutputs
    Dust = {}
    Carried <- NothingCarried
    Window = 1  Margin = 0  NodeLag = 1  BlockLag = 1
    OrphanCooldown = 2  SeqLockCooldown = 1  MaxOrphanRetries = 2
    CompactEvery = 2
    MaxScore = 2
    MaxWire = 1
    MaxRestarts = 0
    Saves = {"skip"}
SPECIFICATION Spec
INVARIANTS IndexesExact ClaimsAreMature
PROPERTY DoneIsFinal
