\* Two servers race with each other and with a session that comes up, serves, stops
\* or is killed anywhere; two faults.  Stops when everything is removed.
CONSTANTS
  Sessions = {1}
  Servers = {d1, d2}
  Grace = 1
  MaxFaults = 2
  None = None
SPECIFICATION FairSpec
CHECK_DEADLOCK FALSE
INVARIANTS
  LiveUntouched
  CompleteMeansGone
PROPERTIES
  RemainsRemoved
