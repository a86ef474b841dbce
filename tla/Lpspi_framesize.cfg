CONSTANTS
    LPSPI_FIFO_BYTE_CAPACITY = 8
    Byte <- MCByte
    Answer <- MCAnswer
    FrameSize = {8, 2048}
    Watermark = {1}
    SrWrite <- MCSrWrite
    IerWrite <- MCIerWrite
SPECIFICATION Spec
INVARIANTS
    FrameSizeUsable
