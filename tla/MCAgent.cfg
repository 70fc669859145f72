CONSTANTS
    Services = {"company", "purchase_order"}
    Reliable = {"purchase_order"}
    Tasks = {t1}
    Sources <- Configurations
    MaxSaves = 2
    MaxStops = 2
SPECIFICATION FairSpec
INVARIANTS ConnectionsReturned
PROPERTIES EverySaveSynced StopEnds
CHECK_DEADLOCK FALSE
