SPECIFICATION Spec
CONSTANTS
    Panel = "mono"
    BatchUpdates = FALSE
    QueueMax = 2
    BatchMax = 2
    Reds = {0}
    Events = {"full", "tick", "clear", "idle", "reinit", "stop", "error", "noinit", "timeout"}
    MaxContent = 3
INVARIANTS
    TypeOK
PROPERTIES
    NeverOlder
