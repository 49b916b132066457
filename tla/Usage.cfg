\* Two connections and two increments over three windows of one second, whose
\* halves as_secs truncates, with a sink that fails in every way.
CONSTANTS
    Rate = 2
    WindowSeconds = 1
    PendingCapacity = 2
    SpoolCapacity = 2
    Nothing = Nothing
    MaxTime = 6
    MaxHandles = 2
    MaxEvents = 2
SPECIFICATION Spec
INVARIANTS
    EventsConserved
    SecondsAccounted
    ExportedInOrder
CHECK_DEADLOCK FALSE
