CONSTANTS
    Task = {t1}
    NoTask = NoTask
    Isr = Isr
    Item = {a, b}
    Length = {1, 2, 3}
    uxNumberOfTasks = 1
SPECIFICATION Spec
SYMMETRY Symmetry
INVARIANTS
    QueueTypeOK
PROPERTIES
    ImplementsFifo
