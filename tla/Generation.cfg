CONSTANTS
    Tokens <- Words
    Spell <- Pieces
    NAMES <- Names
    FALLBACKS <- Guesses
    Vocabulary <- TokenToId
    STOP_STRINGS <- StopStrings
    Thinks = TRUE
    CloseThink = "t"
    MODEL_MAX = 3
    WINDOW = 2
    Variants = {"full", "rewinding", "concat"}
    Prompts <- Conversations
    Limits = {0, 2, 4}
    MaxRequests = 2
SPECIFICATION Spec
INVARIANTS CacheIsContext TurnsEnd NothingAfterStop
CHECK_DEADLOCK FALSE
