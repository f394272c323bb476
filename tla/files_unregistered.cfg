SPECIFICATION Spec
CONSTANTS
    Files = {f1, f2, f3}
    NoFile = NoFile
    Requests = {r1, r2}
    MaxVersions = 2
    MaxUploads = 3
    MaxJobs = 1
    MaxAttempts = 2
    MaxRestarts = 0
    Faults = {}
INVARIANTS
    OnlyRegisteredIsValid
CHECK_DEADLOCK FALSE
SYMMETRY Symmetry
