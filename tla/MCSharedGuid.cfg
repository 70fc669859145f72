CONSTANTS
    own = own
    none = none
    Objects = {o1, o2}
    Names = {a, b}
    Guids = {none}
    GuidOf <- OneGuid
    Workers = {w1}
    MaxAlterId = 2
    MaxDrift = 0
    Truncating = FALSE
SPECIFICATION FairSpec
PROPERTIES NeverDiscarded
