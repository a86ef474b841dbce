CONSTANTS
    configMAX_PRIORITIES = 5
    configTIMER_TASK_PRIORITY = 2
    HIGH_SPEED_THRESHOLD = 200
    Speed <- MCSpeed
    MaxLen = 2
    MaxDue = 2
SPECIFICATION FairSpec
INVARIANTS
    TypeOK
    NoGiveDropped
    RunsHighest
    VerdictCurrent
PROPERTIES
    ImplementsHandoff
    ImplementsFairHandoff
    ExpiryReported
