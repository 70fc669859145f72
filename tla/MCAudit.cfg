CONSTANTS
    own = own
    none = none
    Objects = {o1, o2}
    Names = {a, b}
    Guids = {o1, o2}
    GuidOf <- OwnGuid
    Workers = {w1}
    MaxAlterId = 1
    MaxDrift = 0
    Truncating = FALSE
SPECIFICATION Spec
SYMMETRY Interchangeable
INVARIANTS EveryAttemptAudited
