\* Windows and cap far beyond the instances there are: one late scan is enough.
CONSTANTS
  Callers = {c1}
  MaxInstances = 2
  Window = 8
  Cap = 8
  MaxInvalidations = 0
  MaxCuts = 0
  Nothing = Nothing
SPECIFICATION CacheSpec
INVARIANT UncoveredIsReported
