CONSTANTS
    Task = {t1, t2}
    NoTask = NoTask
    Wrap = 4
    Horizon = 6
SPECIFICATION Spec
SYMMETRY Symmetry
VIEW View
CHECK_DEADLOCK FALSE
INVARIANTS
    TickTimeTypeOK
    NoTickLost
    NeverOversleeps
    WaitEndsAtDeadline
PROPERTIES
    WakesOnTime
    DelayUntilExact
    TimeoutExact
