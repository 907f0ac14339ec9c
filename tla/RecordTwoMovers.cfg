SPECIFICATION Spec
CONSTANTS
    Movers = {"board", "engine"}
    Ops = {"Move"}
    AheadOfWorker = {"Move"}
    AmidCallers = {"Move"}
    OldGames = 1
    Resumed = 1
    MaxMoves = 4
INVARIANTS
    RecordHasEveryMove
CHECK_DEADLOCK FALSE
