CONSTANTS
    Objects = {o1, o2}
    Names = {a, b}
    Guids = {o1, o2}
    GuidOf <- OwnGuid
    Workers = {w1}
    MaxAlterId = 2
    MaxDrift = 1
    Truncating = FALSE
    PostDated = o1
    DateOf <- Dates
    FromDate = 0
    LastDay = 1
SPECIFICATION FairVoucherSpec
PROPERTIES DueConverges PassedIsKept
