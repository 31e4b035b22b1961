\* Two calls that ask two instances with two permits; two sessions, two changes of a
\* scene of one object batch and one collection batch, two failing calls, or four of
\* which three let a session go. Stops where the calls are answered, and the bounded
\* sessions and changes are used up.
SPECIFICATION MCSpec
CONSTANTS
    Calls = {"c1", "c2"}
    Instances = {"i1", "i2"}
    Permits = 2
    NoSession = NoSession
    MaxSessions = 2
    MaxEdits = 2
    MaxFaults = 4
    MaxObjects = 1
    MaxCollections = 1
CHECK_DEADLOCK FALSE
INVARIANTS StatusPermits StatusAddsUp RevisionTrue NothingLost
PROPERTY BothSettle
