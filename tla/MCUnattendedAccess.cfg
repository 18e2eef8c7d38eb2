CONSTANTS
    MaxFailedAttempts = 2
    LockoutDuration = 1
    LockoutMax = 2
    LastStep = 2
SPECIFICATION Spec
INVARIANTS
    InForceIsStored
PROPERTIES
    GuessesAreSpaced
    CodeSpentOnce
    FactorNotDropped
