\* Bundles with fewer values than keys; the read past the end yields 0 or 7.
CONSTANTS
    Resources <- MismatchedResources
    Missing = Missing
    NotAString = NotAString
    UBValues = {0, 7}
    AllocMayFail = FALSE
    Int32Bits = 30
SPECIFICATION Spec
INVARIANT SizesChecked
