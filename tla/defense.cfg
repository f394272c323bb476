SPECIFICATION Spec
CONSTANTS
    Defenses = {d1, d2}
    NoDefense = new
    Students = {s1, s2}
    Grades = {6, 7}
    Requests = {r1, r2}
    LastDay = 1
    MaxRequests = 5
    Faults = {"abort"}
SYMMETRY Symmetry
INVARIANTS
    TypeOK
    RowsConsistent
    CompletedHasDocument
    OneScheduledDefense
PROPERTIES
    CompletedStaysCompleted
    CanceledForGood
CHECK_DEADLOCK FALSE
