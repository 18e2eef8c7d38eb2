SPECIFICATION Spec
CONSTANTS
    SbRows <- MCSbRows
    SbCols <- MCSbCols
    MaxThreads = 3
    Delays = {0, 2}
INVARIANTS
    DecodedInOrder
    CompleteIsWhole
PROPERTY
    FrameEnds
