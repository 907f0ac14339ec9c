SPECIFICATION Spec
CONSTANTS
    Movers = {"board"}
    Ops = {"FirstMove", "Move", "Takeback", "Reset", "Setup", "DbError"}
    AheadOfWorker = {"FirstMove", "Move", "Takeback", "Reset", "Setup"}
    AmidCallers = {"FirstMove", "Move", "Takeback", "Reset", "Setup"}
    OldGames = 1
    Resumed = 0
    MaxMoves = 3
INVARIANTS
    TypeOK
    RowsInPlayOrder
