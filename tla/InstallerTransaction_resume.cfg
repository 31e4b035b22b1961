SPECIFICATION Spec
CONSTANTS
    Originals <- MCOriginals
    MaxCrashes = 1
    MaxFaults = 0
    MaxEdits = 0
    Tears = FALSE
INVARIANTS
    RollbackResumes
