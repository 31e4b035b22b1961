\* Three releases, any of which is registered first, one script started from a cache,
\* two workflows at a time, one crash.  Stops where no command is left to start.
SPECIFICATION Spec
CONSTANTS
    A = A
    B = B
    C = C
    e = e
    None = None
    Missing = Missing
    Torn = Torn
    Releases = {A, B, C}
    Legacy = {}
    Entries = {e}
    MaxWork = 2
    MaxIno = 2
    MaxFaults = 1
SYMMETRY Symmetry
CHECK_DEADLOCK FALSE
INVARIANTS JournalsTrue RestoreNeverLost
PROPERTY StepsAllowed
