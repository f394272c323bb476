SPECIFICATION Spec
CONSTANTS
    Coordinator = coord
    Advisor = adv
    Students = {s1}
    CoordIsAdvisor = TRUE
    Contents = {c1, c2}
    NoContent = nc
    Grades = {g1, g2}
    NoGrade = ng
    Requests = {r1, r2}
    MaxVersions = 2
    MaxEdits = 1
    MaxRecords = 2
    Faults = {"sign", "refuse", "reply", "abort"}
SYMMETRY Symmetry
INVARIANTS
    TypeOK
    TxNamesOwnRecord
    ApprovedIsOnLedger
    RecordsAreComplete
    AtMostOneRecord
    RegisteredContentMatches
    RecordInForceHasTheGrade
    CoordinatorApprovesLast
    OnlyLatestIsOpen
    SignaturesCoverRecord
PROPERTIES
    OnlyApprovedIsSubmitted
    FollowsRegistry
CHECK_DEADLOCK FALSE
