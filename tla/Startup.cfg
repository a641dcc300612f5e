SPECIFICATION StartupSpec
CONSTANTS
    Lineup <- TwoModels
    Parts <- TheirParts
    Weights <- TheirWeights
    Size = 2
    Rigs <- SomeRigs
    Packages <- SomePackages
    MAX_ATTEMPTS = 2
    MaxOutages = 3
    MaxStarts = 3
INVARIANTS ReadyIsWhole 
 
CHECK_DEADLOCK FALSE
