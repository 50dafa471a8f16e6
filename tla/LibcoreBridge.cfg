\* Two threads, two calls each, every JNI and ICU allocation outcome.
CONSTANTS
    Threads = {t1, t2}
    MaxCalls = 2
    AllocMayFail = TRUE
    NULL = NULL
    Tags = {en, ja}
    Events = {ev}
SYMMETRY MCSymmetry
SPECIFICATION Spec
INVARIANT TypeOK
INVARIANT NoJniCallWithPendingException
PROPERTY DefaultChangesOnlyOnSuccess
