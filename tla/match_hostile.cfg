CONSTANTS
    a = a
    b = b
    c = c
    x1 = x1
    x2 = x2
    x3 = x3
    Session <- ThreeSessions
    Socket = {x1, x2}
    SocketOf <- ReusedSocket
    NoSession = NoSession
    MAX_PLAYERS = 2
    MaxThreads = 2
    Second <- OwnSecond
    MaxAsks = 2
    Leavers = {b}
    Cancellers = {a}
    Short = {1}
SPECIFICATION Spec
CHECK_DEADLOCK FALSE
INVARIANTS
    TypeOK
    WaiterIsQueued
    LinkIsLive
    FailedRoomIsGone
    StartedRoomSeatsRoster
