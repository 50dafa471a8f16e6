\* Subjects of up to six code points over {a, S} and five over {a, S, b}; UTF-16 maps only.
CONSTANTS
    Chars = {"a", "S", "b"}
    Supplementary <- MCSupplementary
    INVALID = "|"
    NoMap = NoMap
    EndOfText = EndOfText
    ClosePunctuationSet <- MCClosePunctuationSet
    DigitOrOpenPunctuationOrAlphabetSet <- MCDigitOrOpenPunctuationOrAlphabetSet
    Subjects <- ScanSubjects
    RangeStarts = {0, 2}
    Models <- MCModels
    NormalizationSteps = {}
    AllocMayFail = FALSE
    Int32Bits = 30
SPECIFICATION Spec
INVARIANT TypeOK
INVARIANT WindowAligned
PROPERTY ImplementsPhraseBreaks
