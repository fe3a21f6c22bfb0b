SPECIFICATION FairSpec
CONSTANTS
    Boards <- MCBoards
    Lba = {0, 1}
    Val = {"new"}
    Tries = 2
    MaxFaults = 4
    MaxAsks = 2
CHECK_DEADLOCK FALSE
INVARIANTS TakenApart AnswersAreTrue
PROPERTIES AskedIsAnswered
