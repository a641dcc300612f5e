CONSTANTS
    Ggufs <- Files
    CHUNK_BYTES = 4
    CHECKPOINT_INTERVAL = 2
    MaxCrashes = 2
SPECIFICATION FairTreeSpec
INVARIANTS IndexIsDense ReadersAgree
PROPERTIES TreeComesUp
CHECK_DEADLOCK FALSE
