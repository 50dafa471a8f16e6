\* Well-formed, missing and partly missing bundles; allocation may fail.
CONSTANTS
    Resources <- MCResources
    Missing = Missing
    NotAString = NotAString
    UBValues = {0, 7}
    AllocMayFail = TRUE
    Int32Bits = 30
SPECIFICATION Spec
INVARIANT TypeOK
INVARIANT LoadedFaithfully
