\* A registration with two edits of config.toml by others and three kills; a smoke test with
\* a child and its worker, in both its modes; an acceptance run of either kind with two
\* reviews, a delivery and two faults.  Stops where the command is over.
SPECIFICATION MCSpec
CONSTANTS
    MaxEdits = 2
    MaxCrashes = 3
    Worker = Worker
    Kids = {k1}
    Modes = {"recovery", "nfr"}
    Kinds = {"native", "interchange"}
    Reviews = {"r1", "r2"}
    Deliveries = {"d1"}
    MaxFaults = 2
CHECK_DEADLOCK FALSE
INVARIANTS ShipMeansChecked RejectedForCause OneVerdict NoGroupSurvives RegistrationSafe
PROPERTY CommandsEnd
