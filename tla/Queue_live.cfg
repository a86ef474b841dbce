CONSTANTS
    Task = {t1, t2}
    NoTask = NoTask
    Isr = Isr
    Item = {a}
    Length = {1, 2}
    uxNumberOfTasks = 2
SPECIFICATION FairSpec
INVARIANTS
    NoReceiverLeft
    NoSenderLeft
PROPERTIES
    NobodySleepsOn
