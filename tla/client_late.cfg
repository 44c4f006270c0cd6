CONSTANTS
    apple = apple
    bread = bread
    Card = {0, 1, 2}
    Boards <- OneBoard
    NoBoard = NoBoard
    ClueNumber <- Hints
    Word <- Words
    WordOf <- RepeatedWords
    Watched <- SpymasterOnly
    Jammed = {}
    Noticed <- SpymasterOnly
    MaxTogether = 1
    MaxTyped = 1
    MaxInFlight = 5
    MaxNotices = 1
SPECIFICATION JointSpec
CHECK_DEADLOCK FALSE
INVARIANT WaitingEndsWithStart
