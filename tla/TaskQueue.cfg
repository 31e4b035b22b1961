\* A quick request and two scene_summary requests for one summary slot, whose
\* continuations may yield for ever.  No symmetry: the properties are temporal.
CONSTANTS
  Requests = {q1, s1, s2}
  Summaries = {s1, s2}
  Capacity = 2
  MaxSummaries = 1
  NoRequest = NoRequest
SPECIFICATION FairSpec
INVARIANTS
  AdmissionExact
  TasksKept
PROPERTIES
  RoundRobin
  EveryRequestEnds
  ImplementsService
