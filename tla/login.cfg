\* One client, two workers, two ids and a nickname.
CONSTANTS
    Session = {c1}
    Me = c1
    workerThreadCount = 2
    NoSession = none
    MaxSends = 1
    Id = {i1, i2}
    Nick = {n1}
    NoName = empty
    i1 = i1
    n1 = n1
    Known <- MCKnown
    MaxInFlight = 2

SPECIFICATION MCSpec

\* The process ends, and the client leaves.
CHECK_DEADLOCK FALSE

INVARIANTS
    JointTypeOK
    OneReceive
    TokenAgreement
    ScreenNamesAccount

PROPERTIES
    LoggedInPlayerWaits
    StopEnds
