CONSTANTS
    Timer = {t1, t2}
    NoTimer = NoTimer
    Wrap = 3
    configTIMER_QUEUE_LENGTH = 1
SPECIFICATION Spec
SYMMETRY Symmetry
INVARIANTS
    TimersTypeOK
    ListsTellTheTime
    CallsAreDue
    NeverSleepsPast
    ActiveIsListed
    FreedIsGone
