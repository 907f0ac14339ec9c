SPECIFICATION Spec
CONSTANTS
    MaxEvents = 2
    MaxRequests = 1
    MaxLosses = 1
    Conditions = {}
INVARIANTS
    EventsOnce
PROPERTIES
    MovesArrive
