SPECIFICATION FairSpec
CONSTANTS
    Users = {"load", "coach"}
    Loaders = {"load"}
    Conditions = {}
    MaxLoads = 2
    MaxLoadRetries = 1
    MaxPos = 3
    NoThread = "none"
INVARIANT TypeOK
INVARIANT HeldIsNotQuit
INVARIANT NoLostWaiter
INVARIANT OneEngine
INVARIANT SeatIsHeld
INVARIANT NoOrphanReference
INVARIANT FlagHasThinker
INVARIANT NoStaleAnswer
INVARIANT AskedAfterMove
PROPERTY QueuedIsServed
CHECK_DEADLOCK FALSE
