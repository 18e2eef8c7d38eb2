CONSTANTS
    Frames <- FramesDef
    MaxThreads = 3
SPECIFICATION Spec
INVARIANTS
    AboveRightEncoded
    FilteredInOrder
    CodedIsWhole
PROPERTY FrameEnds
