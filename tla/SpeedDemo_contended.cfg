CONSTANTS
    configMAX_PRIORITIES = 5
    configTIMER_TASK_PRIORITY = 3
    HIGH_SPEED_THRESHOLD = 200
    Speed <- MCSpeed
    MaxLen = 2
    MaxDue = 1
SPECIFICATION Spec
INVARIANTS
    BoundedInversion
    UartNeverBusy
PROPERTIES
    StringsWhole
