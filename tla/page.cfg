\* Both panels, two calls each, and a payment request for each case of the
\* decoder.
SPECIFICATION FairSpec
CONSTANTS
    Milli <- MCMilli
    U64 <- MCU64
    None = None
    Invalid = Invalid
    Texts <- MCTexts
    Amounts = {0, 1}
    MaxCalls = 2
CHECK_DEADLOCK FALSE
INVARIANTS
    TypeOK
    PreviewExact
    AnswersTheLast
    CopiedIsShown
PROPERTIES
    LoadingEnds
