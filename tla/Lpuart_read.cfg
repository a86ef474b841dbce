CONSTANTS
    MUX_BUFFER_SIZE = 2
    Chars = 4
SPECIFICATION FairSpec
PROPERTIES
    ReadReturnsHeld
