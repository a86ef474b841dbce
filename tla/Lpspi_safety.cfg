CONSTANTS
    LPSPI_FIFO_BYTE_CAPACITY = 5
    Byte <- MCByte
    Answer <- MCAnswer
    FrameSize = {8, 32}
    Watermark = {1}
    SrWrite <- MCSrWrite
    IerWrite <- MCIerWrite
SPECIFICATION Spec
INVARIANTS
    NoOverrun
PROPERTIES
    FlagsTell
    InterruptLine
    SelectBracketsFrames
