CONSTANTS
    r1 = r1  r2 = r2
    Receivers = {r1, r2}
    Nobody = Nobody
    Spurious = TRUE
    MaxSends = 2
SPECIFICATION FairChannelSpec
INVARIANTS NoLostWakeup
PROPERTIES  DropEndsAll
CHECK_DEADLOCK FALSE
