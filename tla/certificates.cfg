SPECIFICATION Spec
CONSTANTS
    user = user
    Users <- OneUser
    Approvals = {a1}
    NoApproval = none
    Owner <- OwnedByUser
    Requests = {r1, r2}
    MaxAttempts = 2
    MaxResets = 1
    Faults = {"redis", "ca", "expiry", "restart"}
SYMMETRY Symmetry
INVARIANTS
    TypeOK
    BaseCertificatesStay
    RevocationsAgree
    RecordedHasNoCertificate
CHECK_DEADLOCK FALSE
