SPECIFICATION Spec
CONSTANTS
    MaxRuns = 2
    None = None
    Period = 2
    Start = 1
    Increment = 0
    Grace = 1
    Engine = {"black"}
    Conditions = {}
    MaxPly = 2
    MaxEnds = 1
    MaxGames = 2
    MaxTime = 4
INVARIANT OneCountdown
INVARIANT OwnTime
INVARIANT CreditedOnce
INVARIANT PlayIsTimed
INVARIANT StoppedOutsidePlay
CHECK_DEADLOCK FALSE
