\* A reserve of two bytes, three more in the first vector, chunks of up to three bytes.
SPECIFICATION Spec
CONSTANTS
    Byte = {0, 1}
    Zero = 0
    CheapPrepend = 2
    InitialSize = 3
    ExtraSize = 2
    Chunks <- MCChunks
    MaxSize = 8
INVARIANTS
    TypeOK
    HoldsQueue
PROPERTIES
    GrowsOnlyWhenFull

