CONSTANTS
    Squares <- CastleSquares
    Setup <- CastleSetup
    Reach <- CastleReach
    Castles <- CastleCastles
    Engines = {"b"}
    Conditions = {"bounce","busy"}
    MaxHand = 2
    MaxLifts = 2
    MaxEvents = 1
    MaxTasks = 1
SPECIFICATION Spec
CHECK_DEADLOCK FALSE
INVARIANT EngineIsAsked
PROPERTY AnswersFit
PROPERTY PieceHasLeft
