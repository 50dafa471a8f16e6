\* Natives that throw: does any of them leave process-wide state changed?
CONSTANTS
    Threads = {t1, t2}
    MaxCalls = 1
    AllocMayFail = FALSE
    NULL = NULL
    Tags = {en, ja}
    Events = {ev}
SYMMETRY MCSymmetry
SPECIFICATION Spec
INVARIANT ThrownCallsHaveNoEffect
