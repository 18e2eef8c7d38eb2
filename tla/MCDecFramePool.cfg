CONSTANTS
    RefFrames = 2
    FrameBuffers = 4
SPECIFICATION Spec
INVARIANTS
    RefCountsExact
    PoolSuffices
    HeldIsWhole
    InterNeedsIntra
