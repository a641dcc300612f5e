CONSTANTS
    WORD_BITS = 5
    BitXor <- XorOf  BitAnd <- AndOf  BitOr <- OrOf
    MIX <- Mix
    SALT <- Salt
    POM_ACTIVATION_DAA = 2  POM_LEVEL_ACTIVATION_DAA = 3
    POM_WALK_STEPS = 3  POM_OPENINGS = 2
    POM_BATCH = 4
    WEIGHTS <- FiveChunks
    SAMPLES <- FewSamples
    HEAVY <- HeavyHash
    Templates <- Handed  Ranges <- LowBits
    Workers = {"gpu", "cpu"}
SPECIFICATION Spec
INVARIANTS WinnersAreAccepted KernelIsHost
