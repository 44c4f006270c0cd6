CONSTANTS
    a = a
    b = b
    c = c
    x1 = x1
    x2 = x2
    x3 = x3
    Session <- TwoSessions
    Socket = {x1, x2}
    SocketOf <- OwnSocket
    NoSession = NoSession
    MAX_PLAYERS = 2
    MaxThreads = 1
    Second <- OwnSecond
    MaxAsks = 2
    Leavers = {}
    Cancellers = {}
    Short = {}
SPECIFICATION Spec
CHECK_DEADLOCK FALSE
INVARIANT RosterHasNoRepeats
