SPECIFICATION Spec
CONSTANTS
    Coordinator = coord
    Advisor = adv
    Students = {s1, s2}
    CoordIsAdvisor = TRUE
    Contents = {c1, c2}
    NoContent = nc
    Grades = {g1}
    NoGrade = ng
    Requests = {r1}
    MaxVersions = 3
    MaxEdits = 3
    MaxRecords = 4
    Faults = {"sign", "refuse", "reply"}
PROPERTIES
    ImplementsRegistry
CHECK_DEADLOCK FALSE
