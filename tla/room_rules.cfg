CONSTANTS
    s1 = s1
    s2 = s2
    s3 = s3
    s4 = s4
    s5 = s5
    s6 = s6
    apple = apple
    bread = bread
    cloud = cloud
    Card = {0, 1, 2, 3}
    RED_CARDS = 2
    BLUE_CARDS = 1
    NEUTRAL_CARDS = 0
    ASSASSIN_CARDS = 1
    Session <- FourSessions
    NoSession = NoSession
    Roster <- FourRoster
    Nick <- DistinctNicks
    TeamSize = 2
    Unstable = {s3}
    Unsaved = {}
    HintNumber <- ClientHints
    Word <- Words
    WordOf <- RepeatedWords
    NoWord = NoWord
SPECIFICATION FairSpec
CHECK_DEADLOCK FALSE
INVARIANT NoStall
PROPERTIES
    OnlyAgentsOnTurnUncover
    RulesSpec
    EndGameCompletes
    GameFinishes
