\* Bundles whose modelKeys hold the same key twice.
CONSTANTS
    Resources <- DuplicateKeyResources
    Missing = Missing
    NotAString = NotAString
    UBValues = {0, 7}
    AllocMayFail = FALSE
    Int32Bits = 30
SPECIFICATION Spec
INVARIANT BiasIsNegatedSum
