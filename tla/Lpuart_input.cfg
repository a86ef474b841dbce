CONSTANTS
    MUX_BUFFER_SIZE = 2
    Chars = 4
SPECIFICATION FairSpec
INVARIANTS
    NoCharacterOverrun
    TypedOrder
    NoLostReceiveInterrupt
PROPERTIES
    InputArrives
