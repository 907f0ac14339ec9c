SPECIFICATION Spec
CONSTANTS
    Panel = "mono"
    BatchUpdates = TRUE
    QueueMax = 4
    BatchMax = 3
    Reds = {0}
    Events = {"full", "clear", "idle", "stop"}
    MaxContent = 4
INVARIANTS
    AwakeWhenDriven
    FullIsHonoured
