CONSTANTS
    Txns = {t1, t2}
    Keys = {k1, k2}
    MaxAlterId = 2
    NoTxn = NoTxn
SPECIFICATION FairSpec
INVARIANTS EntriesMatchHeader StoreInv
PROPERTIES StoresWholeBatches EveryTransactionEnds
