CONSTANTS
    s1 = s1
    s2 = s2
    s3 = s3
    s4 = s4
    s5 = s5
    s6 = s6
    apple = apple
    bread = bread
    cloud = cloud
    Card = {0, 1, 2, 3}
    RED_CARDS = 1
    BLUE_CARDS = 1
    NEUTRAL_CARDS = 1
    ASSASSIN_CARDS = 1
    Session <- SixSessions
    NoSession = NoSession
    Roster <- SixRoster
    Nick <- SharedNicks
    TeamSize = 3
    Unstable = {s3}
    Unsaved = {1}
    HintNumber <- AnyHints
    Word <- Words
    WordOf <- RepeatedWords
    NoWord = NoWord
SPECIFICATION Spec
CHECK_DEADLOCK FALSE
INVARIANTS
    TypeOK
    ScoreMatchesBoard
    OutcomeMatchesBoard
    ResultsMatchOutcome
    LobbyAfterResults
PROPERTIES
    FinishedGameIsFrozen
    ResultWrittenOnce
    ChangesAreTold
