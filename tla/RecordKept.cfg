SPECIFICATION FairSpec
CONSTANTS
    Movers = {"board"}
    Ops = {"FirstMove", "Move", "Takeback", "Reset", "End"}
    AheadOfWorker = {"Move"}
    AmidCallers = {}
    OldGames = 1
    Resumed = 1
    MaxMoves = 4
INVARIANTS
    RecordIsGame
    LeftGamesAreClosed
    ResultsAgree
PROPERTIES
    TakebackErasesItsOwnMove
    MovesReachTheRecord
