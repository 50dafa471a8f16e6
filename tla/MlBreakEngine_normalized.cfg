\* Subjects up to four code points, maps after a normalization that may expand (step 0), pushes that may fail.
CONSTANTS
    Chars = {"a", "S"}
    Supplementary <- MCSupplementary
    INVALID = "|"
    NoMap = NoMap
    EndOfText = EndOfText
    ClosePunctuationSet <- MCClosePunctuationSet
    DigitOrOpenPunctuationOrAlphabetSet <- MCDigitOrOpenPunctuationOrAlphabetSet
    Subjects <- NormalizedSubjects
    RangeStarts = {0, 2}
    Models <- MCModels
    NormalizationSteps = {0, 1}
    AllocMayFail = TRUE
    Int32Bits = 30
SPECIFICATION Spec
INVARIANT PriorKept
INVARIANT CountMatches
INVARIANT BreaksOrdered
