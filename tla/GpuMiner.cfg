CONSTANTS
    OPOI_V2_ACTIVATION_DAA = 1
    VERY_LIGHT_ACTIVATION_DAA = 2
    VramMb <- LargeAndSmall
    SizeMb <- Sizes
    Ceiling = "VeryHigh"
    FirstDaa = 1  LastDaa = 2
    Solo = TRUE
    i1 = i1
    Inferences = {i1}
    Free = Free
SPECIFICATION FairSpec
INVARIANTS  LoadingIsExact BlockProvesItsTier
PROPERTIES InferenceEnds RebuildEnds
