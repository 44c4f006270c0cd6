SPECIFICATION Spec

CONSTANTS
    Session = {s1, s2}
    Id = {i1, i2}
    Nick = {n1, n2}
    Absent = Absent
    MaxResults = 2

SYMMETRY AnyName

INVARIANTS
    TypeOK
    NoTransactionLeftOpen
    AccountsDistinct
    AccountsHaveStats
    SignupIsKept
    PlayersBearTheirNickname
    ResultsReachTheirAccount

PROPERTIES
    AccountRulesSpec
