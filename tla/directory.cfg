SPECIFICATION Spec
CONSTANTS
    Users = {u1, u2, u3}
    Nobody = Nobody
    Courses = {c1, c2}
    NoCourse = NoCourse
    Registrations = {g1}
    NoRegistration = NoRegistration
    Requests = {r1, r2}
    MaxRequests = 3
    Faults = {"abort"}
INVARIANTS
    TypeOK
    ProfilesMatchRoles
    SeatsCanBeFilled
CHECK_DEADLOCK FALSE
SYMMETRY Symmetry
