\* cacheTimeZoneBundles with every outcome of the four ures_openDirect calls.
CONSTANTS
    AllocMayFail = TRUE
SPECIFICATION Spec
INVARIANT TypeOK
INVARIANT EveryBundleTried
INVARIANT NoBundleLeak
