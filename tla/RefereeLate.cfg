CONSTANTS
    Squares <- StepsSquares
    Setup <- StepsSetup
    Reach <- StepsReach
    Castles <- NoCastles
    Engines = {"b"}
    Conditions = {"bounce","impatient","overtake"}
    MaxHand = 1
    MaxLifts = 2
    MaxEvents = 2
    MaxTasks = 1
SPECIFICATION Spec
CHECK_DEADLOCK FALSE
INVARIANT TypeOK
INVARIANT NothingMissing
INVARIANT OneAnswer
