CONSTANTS
    apple = apple
    bread = bread
    Card = {0, 1, 2}
    Boards <- OneBoard
    NoBoard = NoBoard
    ClueNumber <- Hints
    Word <- Words
    WordOf <- RepeatedWords
    Watched <- Seats
    Jammed <- StrangerOnly
    Noticed <- SpymasterOnly
    MaxTogether = 2
    MaxTyped = 1
    MaxInFlight = 5
    MaxNotices = 1
SPECIFICATION FairJointSpec
CHECK_DEADLOCK FALSE
INVARIANTS
    JointTypeOK
    ScreenShowsRoom
    NothingShownTooEarly
    PromptMatchesRoom
    StartedGameIsShown
PROPERTIES
    EndedGameIsLeft
