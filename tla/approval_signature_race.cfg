SPECIFICATION Spec
CONSTANTS
    Coordinator = coord
    Advisor = adv
    Students = {s1}
    CoordIsAdvisor = FALSE
    Contents = {c1, c2}
    NoContent = nc
    Grades = {g1}
    NoGrade = ng
    Requests = {r1, r2}
    MaxVersions = 1
    MaxEdits = 1
    MaxRecords = 2
    Faults = {}
INVARIANTS
    SignaturesAreValid
CHECK_DEADLOCK FALSE
