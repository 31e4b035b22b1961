\* Two threads of one process and one of another, a day's end, two faults.
CONSTANTS
  p1 = p1
  p2 = p2
  r1 = r1
  r2 = r2
  r3 = r3
  Processes = {p1, p2}
  Records = {r1, r2, r3}
  Owner <- TwoAndOne
  MaxDays = 2
  MaxFaults = 2
  None = None
SPECIFICATION FairSpec
INVARIANTS
  DamageContained
PROPERTIES
  ImplementsTrail
  EveryRecordEnds
