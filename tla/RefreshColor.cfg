SPECIFICATION FairSpec
CONSTANTS
    Panel = "color"
    BatchUpdates = TRUE
    QueueMax = 2
    BatchMax = 2
    Reds = {0, 1, 2}
    Events = {"full", "tick", "clear", "idle", "reinit"}
    MaxContent = 3
INVARIANTS
    RedIsShown
    NoPartialOverAborted
PROPERTIES
    CatchesUp
