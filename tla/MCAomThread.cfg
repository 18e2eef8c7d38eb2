SPECIFICATION Spec
CONSTANT MaxJobs = 3
INVARIANTS
    NoCrossedWait
    ReturnMeansDone
PROPERTIES
    CallsReturn
    ContractSpec
