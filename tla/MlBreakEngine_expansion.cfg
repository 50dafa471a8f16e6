\* The specified result under a normalization map that may expand (step 0).
CONSTANTS
    Chars = {"a", "S"}
    Supplementary <- MCSupplementary
    INVALID = "|"
    NoMap = NoMap
    EndOfText = EndOfText
    ClosePunctuationSet <- MCClosePunctuationSet
    DigitOrOpenPunctuationOrAlphabetSet <- MCDigitOrOpenPunctuationOrAlphabetSet
    Subjects <- NormalizedSubjects
    RangeStarts = {0, 2}
    Models <- MCModels
    NormalizationSteps = {0, 1}
    AllocMayFail = FALSE
    Int32Bits = 30
SPECIFICATION Spec
PROPERTY ImplementsPhraseBreaks
