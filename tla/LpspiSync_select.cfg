CONSTANTS
    t1 = t1
    t2 = t2
    Caller <- MCCaller
    Frames = {1, 5, 13}
    FrameSize = {8, 16, 32}
    TimeOut = {1, 2}
    LPSPI_IP_FIFO_SIZE_U8 = 4
SYMMETRY Symmetric
SPECIFICATION Spec
INVARIANTS
    SelectCleared
