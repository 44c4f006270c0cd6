CONSTANTS
    a = a
    b = b
    c = c
    x1 = x1
    x2 = x2
    x3 = x3
    Session <- ThreeSessions
    Socket = {x1, x2, x3}
    SocketOf <- OwnSocket
    NoSession = NoSession
    MAX_PLAYERS = 2
    MaxThreads = 2
    Second <- SameSecond
    MaxAsks = 1
    Leavers = {}
    Cancellers = {}
    Short = {}
SPECIFICATION Spec
CHECK_DEADLOCK FALSE
PROPERTY RunningGameSurvives
