CONSTANTS
    own = own
    none = none
    Objects = {own, o1, o2}
    Names = {a, b}
    Guids = {own, none}
    GuidOf <- Mixed
    Workers = {w1, w2}
    MaxAlterId = 3
    MaxDrift = 0
    Truncating = FALSE
SPECIFICATION Spec
SYMMETRY Interchangeable
INVARIANTS HistoryComplete NoSaveMissed SyncInv
