SPECIFICATION Spec
CONSTANTS
    user = user
    Users <- OneUser
    Approvals = {a1, a2}
    NoApproval = none
    Owner <- OwnedByUser
    Requests = {r1}
    MaxAttempts = 2
    MaxResets = 0
    Faults = {}
SYMMETRY Symmetry
INVARIANT
    SecondDefenseHasCertificate
CHECK_DEADLOCK FALSE
