\* A sink that fails twice in a row: the window that was retried is lost, and
\* nothing counts it.
CONSTANTS
    Rate = 2
    WindowSeconds = 1
    PendingCapacity = 2
    SpoolCapacity = 2
    Nothing = Nothing
    MaxTime = 6
    MaxHandles = 2
    MaxEvents = 2
SPECIFICATION Spec
CHECK_DEADLOCK FALSE
INVARIANT NeverSilentlyDiscarded
