CONSTANTS
    ShortTexts = 4
    Texts <- MCTexts
    Parameters <- MCParameters
    SummarySizes = {1, 3, 5}
SPECIFICATION FairSpec
INVARIANTS
    SplittingIsSound
    ReducingIsSound
PROPERTIES
    EveryPassShrinks
    SummaryEnds
CHECK_DEADLOCK FALSE
