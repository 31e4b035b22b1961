\* Two summaries for one permit, another call, two places for audits, a call that is
\* cancelled.  Stops when all are answered.
CONSTANTS
  Calls = {c1, s1, s2}
  Summaries = {s1, s2}
  SummaryCap = 1
  AuditCap = 2
  MaxCancels = 1
SPECIFICATION CallsFairSpec
CHECK_DEADLOCK FALSE
INVARIANTS
  RepliesMatchRows
  PermitsExact
PROPERTIES
  EveryCallEnds
