CONSTANTS
    Objects <- MCObjects
    Unit = "Nos"
    MaxBook = 3
SPECIFICATION Spec
INVARIANTS RecordsAreTheObjects RawReparses
