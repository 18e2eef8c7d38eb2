SPECIFICATION Spec
CONSTANTS
    FileCount = 2
    Names = {name}
    Chunks = 2
    MAX_CONCURRENT_FILE_TRANSFERS = 1
    MAX_PENDING_FILE_OFFERS = 2
    FILE_RESUME_ATTEMPTS = 1
    MaxLinks = 2
    MaxMishaps = 2
CONSTRAINT MCMishaps
INVARIANTS
    ResumesFromAck
CHECK_DEADLOCK FALSE
