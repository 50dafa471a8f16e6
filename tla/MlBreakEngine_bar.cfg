\* Subjects that contain u'|', the code point the code uses as INVALID.
CONSTANTS
    Chars = {"a", "S", "|"}
    Supplementary <- MCSupplementary
    INVALID = "|"
    NoMap = NoMap
    EndOfText = EndOfText
    ClosePunctuationSet <- MCClosePunctuationSet
    DigitOrOpenPunctuationOrAlphabetSet <- MCDigitOrOpenPunctuationOrAlphabetSet
    Subjects <- BarSubjects
    RangeStarts = {0}
    Models <- MCModels
    NormalizationSteps = {}
    AllocMayFail = FALSE
    Int32Bits = 30
SPECIFICATION Spec
INVARIANT WindowAligned
