CONSTANTS
    own = own
    none = none
    Objects = {o1, o2}
    Names = {a, b}
    Guids = {o1, o2}
    GuidOf <- OwnGuid
    Workers = {w1}
    MaxAlterId = 4
    MaxDrift = 1
    Truncating = FALSE
SPECIFICATION Spec
SYMMETRY Interchangeable
INVARIANTS TypeOK SkipsOnlyArchived EntityFollowsArchive
PROPERTIES ArchiveNeverOlder ReplicaSpec
