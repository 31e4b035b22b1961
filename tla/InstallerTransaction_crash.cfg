SPECIFICATION Spec
CONSTANTS
    Originals <- MCOriginals
    MaxCrashes = 2
    MaxFaults = 1
    MaxEdits = 2
    Tears = TRUE
INVARIANTS
    OriginalKept
    ReportsTrue
PROPERTIES
    RollbackOnlyRestores
    RerunSettles
