\* A model whose weights at one candidate sum past INT32_MAX.
CONSTANTS
    Chars = {"a", "S"}
    Supplementary <- MCSupplementary
    INVALID = "|"
    NoMap = NoMap
    EndOfText = EndOfText
    ClosePunctuationSet <- MCClosePunctuationSet
    DigitOrOpenPunctuationOrAlphabetSet <- MCDigitOrOpenPunctuationOrAlphabetSet
    Subjects <- OverflowSubjects
    RangeStarts = {0}
    Models <- OverflowModels
    NormalizationSteps = {}
    AllocMayFail = FALSE
    Int32Bits = 28
SPECIFICATION Spec
PROPERTY ImplementsPhraseBreaks
