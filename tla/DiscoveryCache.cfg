\* Two callers, an invalidation and a scan cut short, around a directory of which a
\* scan reads half; a window that is full is never whole, so it holds one entry more.
CONSTANTS
  Callers = {c1, c2}
  MaxInstances = 2
  Window = 3
  Cap = 1
  MaxInvalidations = 1
  MaxCuts = 1
  Nothing = Nothing
SPECIFICATION CacheFairSpec
INVARIANTS
  NoStaleAnswer
  WholeScanHonest
PROPERTIES
  OldestReported
