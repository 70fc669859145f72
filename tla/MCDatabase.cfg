CONSTANTS
    c1 = c1
    c2 = c2
    p1 = p1
    p2 = p2
    p3 = p3
    k1 = k1
    k2 = k2
    Companies = {c1, c2}
    Objects = {p1, p2, p3, k1, k2}
    Requests <- Asked
    EntityOf <- Kind
    CompanyOf <- Home
    NamesOf <- NamesGiven
    MaxAlterId <- Bounds
    MaxMigrations = 3
    ChunkSize = 2
SPECIFICATION Spec
INVARIANTS SchemaServes SkippedIsStored
PROPERTIES FullSyncShowsTally OthersUntouched CountsTrue
CHECK_DEADLOCK FALSE
