--------------------------- MODULE DirectoryProofs ---------------------------
(***************************************************************************)
(* Theorems about Directory that hold for any number of users, courses and *)
(* handlers in flight.                                                     *)
(*                                                                         *)
(* The argument: profiles are never deleted and a user's role is written   *)
(* once, so what a handler found of either stays true however old it is.   *)
(* A coordinator who is inactive is written without a course, unless the   *)
(* course was given on purpose, and then the handler notes it (lent).      *)
(***************************************************************************)
EXTENDS Directory, TLAPS

\* What a handler carries: a new user's profile, or rows that are there.
Creating(h) == h.pc \in {"create.user", "create.profile"}
CreationOK(h) ==
    /\ Creating(h) => h.user \in Users
    /\ Creating(h) /\ h.role = "COORDINATOR" => h.course \in Courses
    /\ Creating(h) /\ h.role = "STUDENT" => h.course \in Courses /\ h.reg \in Registrations
    /\ h.pc = "create.profile" => role[h.user] = h.role
There(u) == u \in Users /\ coordinator[u].state # "none"
Updating == {"course.new", "course.previous", "course.holder", "course.remove", "course.save"}
CourseUpdateOK(h) ==
    /\ h.pc \in Updating => h.course \in Courses
    /\ h.pc \in {"course.new", "course.previous"} => h.user \in Users
    /\ h.pc \in Updating => h.held = Nobody \/ There(h.held)
    /\ h.pc = "course.previous" => There(h.user)
    /\ h.pc \in {"course.previous", "course.holder", "course.remove"} => h.held # Nobody
    /\ h.pc = "course.remove" => h.row.state # "none" /\ h.row.course = NoCourse
CoordinatorUpdateOK(h) ==
    /\ h.pc \in {"coordinator.course", "coordinator.save"} =>
          There(h.user) /\ h.row.state # "none"
    /\ h.pc = "coordinator.course" => h.course \in Courses
    /\ h.pc = "coordinator.save" /\ h.row.state = "inactive" /\ h.row.course # NoCourse =>
          h.user \in lent \/ (h.course # NoCourse /\ h.row.course = h.course)
HandlerOK(h) == CreationOK(h) /\ CourseUpdateOK(h) /\ CoordinatorUpdateOK(h)

\* Who is inactive has no course but one that was given on purpose.
InactiveOK(u) ==
    coordinator[u].state = "inactive" /\ coordinator[u].course # NoCourse => u \in lent

IInv ==
    /\ TypeOK
    /\ ProfilesMatchRoles
    /\ \A u \in Users : InactiveOK(u)
    /\ \A r \in Requests : HandlerOK(req[r])

USE NamesAssumption, BoundsAssumption

-----------------------------------------------------------------------------
(* Rows and handlers.                                                      *)

LEMMA IdleLemma ==
    /\ Idle \in Handler /\ Idle.pc = "idle"
    /\ NoCoordinator \in Coordinator /\ NoAdvisor \in Advisor /\ NoStudent \in Student
BY DEF Idle, Handler, Roles, NoCoordinator, Coordinator, NoAdvisor, Advisor, NoStudent, Student

LEMMA IdleOK == HandlerOK(Idle)
BY IdleLemma DEF HandlerOK, CreationOK, CourseUpdateOK, CoordinatorUpdateOK, Creating, Updating

LEMMA RowLemma ==
    ASSUME NEW row \in Coordinator
    PROVE  /\ Deactivated(row) \in Coordinator
           /\ Deactivated(row).state = "inactive" /\ Deactivated(row).course = NoCourse
           /\ WithoutCourse(row) \in Coordinator
           /\ WithoutCourse(row).state = row.state /\ WithoutCourse(row).course = NoCourse
BY DEF Deactivated, WithoutCourse, Coordinator

\* The coordinator found for a course is there and active.
LEMMA HolderLemma ==
    ASSUME TypeOK, NEW c \in Courses
    PROVE  \/ ActiveHolder(c) = Nobody
           \/ /\ There(ActiveHolder(c)) /\ coordinator[ActiveHolder(c)].state = "active"
              /\ coordinator[ActiveHolder(c)].course = c
<1> DEFINE active == {k \in HolderOf(c) : coordinator[k].state = "active"}
<1>1. CASE active = {}
  BY <1>1 DEF ActiveHolder
<1>2. CASE active # {}
  <2>1. (CHOOSE k \in active : TRUE) \in active
    BY <1>2
  <2>2. ActiveHolder(c) \in active
    BY <1>2, <2>1 DEF ActiveHolder
  <2> QED
    BY <2>2 DEF HolderOf, There
<1> QED
  BY <1>1, <1>2

\* Nobody is taken for the holder only of a course that no active one has.
LEMMA NobodyLemma ==
    ASSUME NEW c \in Courses, ActiveHolder(c) = Nobody, NEW k \in HolderOf(c)
    PROVE  coordinator[k].state # "active"
<1> DEFINE active == {j \in HolderOf(c) : coordinator[j].state = "active"}
<1>1. SUFFICES ASSUME active # {} PROVE FALSE
  OBVIOUS
<1>2. (CHOOSE j \in active : TRUE) \in active
  BY <1>1
<1>3. ActiveHolder(c) \in active
  BY <1>1, <1>2 DEF ActiveHolder
<1>4. active \subseteq Users
  BY DEF HolderOf
<1> QED
  BY <1>3, <1>4

LEMMA InitHolds == Init => IInv
<1> SUFFICES ASSUME Init PROVE IInv
  OBVIOUS
<1>1. \A u \in Users : coordinator[u].state = "none" => coordinator[u] = NoCoordinator
  BY DEF Init, Coordinator, NoCoordinator
<1>2. TypeOK
  BY IdleLemma DEF Init, TypeOK, Roles, NoStudent
<1>3. ProfilesMatchRoles
  BY <1>1 DEF Init, ProfilesMatchRoles, HasProfile, Roles, NoAdvisor, NoStudent, NoCoordinator
<1>4. \A u \in Users : InactiveOK(u)
  BY DEF Init, InactiveOK
<1> QED
  BY <1>2, <1>3, <1>4, IdleOK DEF Init, IInv

-----------------------------------------------------------------------------
(* What a step leaves of the invariant.                                    *)

\* Profiles and roles that are there stay, and so does what is noted.
Grows ==
    /\ \A u \in Users : coordinator[u].state # "none" => coordinator'[u].state # "none"
    /\ \A u \in Users : role[u] # "none" => role'[u] = role[u]
    /\ lent \subseteq lent' /\ cut \subseteq cut'

\* A step of one handler keeps what the others carry.
LEMMA HandlersKept ==
    ASSUME IInv, Grows, NEW r \in Requests, NEW h \in Handler,
           req' = [req EXCEPT ![r] = h], HandlerOK(h)'
    PROVE  req' \in [Requests -> Handler] /\ \A q \in Requests : HandlerOK(req[q])'
<1>1. req' \in [Requests -> Handler]
  BY DEF IInv, TypeOK
<1>2. ASSUME NEW q \in Requests, q # r PROVE HandlerOK(req[q])'
  <2>1. req'[q] = req[q] /\ req[q] \in Handler /\ HandlerOK(req[q])
    BY <1>2 DEF IInv, TypeOK
  <2>2. CreationOK(req[q])'
    BY <2>1 DEF HandlerOK, CreationOK, Creating, Grows, Handler, Roles
  <2>3. CourseUpdateOK(req[q])'
    BY <2>1 DEF HandlerOK, CourseUpdateOK, Updating, There, Grows
  <2>4. CoordinatorUpdateOK(req[q])'
    BY <2>1 DEF HandlerOK, CoordinatorUpdateOK, There, Grows
  <2> QED
    BY <2>2, <2>3, <2>4 DEF HandlerOK
<1>3. req'[r] = h
  BY DEF IInv, TypeOK
<1> QED
  BY <1>1, <1>2, <1>3 DEF HandlerOK, CreationOK, CourseUpdateOK, CoordinatorUpdateOK, There

\* Profiles still match when none is added and no creation is forgotten.
LEMMA ProfilesKept ==
    ASSUME IInv, Grows, role' = role, cut \subseteq cut',
           \A u \in Users :
              /\ coordinator'[u].state # "none" => coordinator[u].state # "none"
              /\ advisor'[u].known = advisor[u].known
              /\ student'[u].reg = NoRegistration <=> student[u].reg = NoRegistration,
           \A q \in Requests : req[q].pc = "create.profile" =>
              req'[q] = req[q] \/ req[q].user \in cut'
    PROVE  ProfilesMatchRoles'
<1>1. \A u \in Users, as \in Roles : HasProfile(u, as)' <=> HasProfile(u, as)
  BY DEF HasProfile, Grows, Roles
<1>2. ProfilesMatchRoles
  BY DEF IInv
<1> QED
  BY <1>1, <1>2 DEF ProfilesMatchRoles

\* A step that writes no profile: at most the course, and what is noted of r.
LEMMA NothingWritten ==
    ASSUME IInv, NEW r \in Requests, NEW h \in Handler,
           req' = [req EXCEPT ![r] = h], HandlerOK(h),
           UNCHANGED <<people, lent>>, asked' \in 0..MaxRequests, cut' \subseteq Users,
           course' \in [Courses -> {"none", "active", "inactive"}], cut \subseteq cut',
           req[r].pc = "create.profile" => req[r].user \in cut'
    PROVE  IInv'
<1>1. Grows
  BY DEF Grows, people
<1>2. HandlerOK(h)'
  BY DEF HandlerOK, CreationOK, CourseUpdateOK, CoordinatorUpdateOK, There, people
<1>3. req' \in [Requests -> Handler] /\ \A q \in Requests : HandlerOK(req[q])'
  BY <1>1, <1>2, HandlersKept
<1>4. ProfilesMatchRoles'
  <2>1. \A q \in Requests : req[q].pc = "create.profile" =>
            req'[q] = req[q] \/ req[q].user \in cut'
    BY DEF IInv, TypeOK
  <2> QED
    BY <1>1, <2>1, ProfilesKept DEF people
<1>5. TypeOK'
  BY <1>3 DEF IInv, TypeOK, people
<1>6. \A u \in Users : InactiveOK(u)'
  BY DEF IInv, InactiveOK, people
<1> QED
  BY <1>3, <1>4, <1>5, <1>6 DEF IInv

\* A step that writes the row of one coordinator who is there.
LEMMA CoordinatorWritten ==
    ASSUME IInv, NEW r \in Requests, NEW h \in Handler,
           req' = [req EXCEPT ![r] = h], HandlerOK(h)', req[r].pc # "create.profile",
           UNCHANGED <<role, advisor, student, course, asked, cut>>,
           lent \subseteq lent', lent' \subseteq Users,
           NEW u \in Users, NEW row \in Coordinator,
           coordinator[u].state # "none", row.state # "none",
           coordinator' = [coordinator EXCEPT ![u] = row], InactiveOK(u)'
    PROVE  IInv'
<1>1. coordinator' \in [Users -> Coordinator] /\ coordinator'[u] = row
      /\ \A k \in Users : k # u => coordinator'[k] = coordinator[k]
  BY DEF IInv, TypeOK
<1>2. Grows
  BY <1>1 DEF Grows
<1>3. req' \in [Requests -> Handler] /\ \A q \in Requests : HandlerOK(req[q])'
  BY <1>2, HandlersKept
<1>4. ProfilesMatchRoles'
  <2>1. \A q \in Requests : req[q].pc = "create.profile" => req'[q] = req[q]
    BY DEF IInv, TypeOK
  <2>2. \A k \in Users : coordinator'[k].state # "none" => coordinator[k].state # "none"
    BY <1>1
  <2> QED
    BY <1>2, <2>1, <2>2, ProfilesKept
<1>5. TypeOK'
  BY <1>1, <1>3 DEF IInv, TypeOK
<1>6. \A k \in Users : InactiveOK(k)'
  BY <1>1 DEF IInv, InactiveOK
<1> QED
  BY <1>3, <1>4, <1>5, <1>6 DEF IInv

LEMMA BeginKeeps ==
    ASSUME IInv, NEW r \in Requests, NEW h \in Handler, HandlerOK(h), Begin(r, h)
    PROVE  IInv'
<1>1. req[r].pc # "create.profile" /\ req' = [req EXCEPT ![r] = h]
  BY DEF Begin, Become
<1>2. asked' \in 0..MaxRequests /\ UNCHANGED <<people, course, cut, lent>>
  BY DEF Begin, IInv, TypeOK
<1>3. course' \in [Courses -> {"none", "active", "inactive"}] /\ cut' \subseteq Users
  BY <1>2 DEF IInv, TypeOK
<1> QED
  BY <1>1, <1>2, <1>3, NothingWritten

-----------------------------------------------------------------------------
(* Creations.                                                              *)

LEMMA NewUserLemma ==
    ASSUME NEW u \in Users, NEW as \in Roles, NEW c \in Courses \cup {NoCourse}
    PROVE  /\ NewUser(u, as, c) \in Handler
           /\ NewUser(u, as, c).pc = "create.user" /\ NewUser(u, as, c).user = u
           /\ NewUser(u, as, c).role = as /\ NewUser(u, as, c).course = c
BY IdleLemma DEF NewUser, Idle, Handler

LEMMA CreateKeeps ==
    ASSUME IInv, NEW r \in Requests, Create(r)
    PROVE  IInv'
<1> USE DEF HandlerOK, CreationOK, CourseUpdateOK, CoordinatorUpdateOK, Creating, Updating
<1>1. ASSUME NEW u \in Users, NEW c \in Courses, CreateCoordinator(r, u, c) PROVE IInv'
  <2>1. NewUser(u, "COORDINATOR", c) \in Handler /\ HandlerOK(NewUser(u, "COORDINATOR", c))
    BY NewUserLemma DEF Roles
  <2> QED
    BY <1>1, <2>1, BeginKeeps DEF CreateCoordinator
<1>2. ASSUME NEW u \in Users, NEW c \in Courses, NEW g \in Registrations,
             CreateStudent(r, u, g, c)
      PROVE  IInv'
  <2> DEFINE h == [NewUser(u, "STUDENT", c) EXCEPT !.reg = g]
  <2>1. h \in Handler /\ h.pc = "create.user" /\ h.user = u /\ h.role = "STUDENT"
        /\ h.course = c /\ h.reg = g
    BY NewUserLemma DEF Roles, Handler
  <2>2. HandlerOK(h)
    BY <2>1
  <2> HIDE DEF h
  <2>3. Begin(r, h)
    BY <1>2 DEF CreateStudent, h
  <2> QED
    BY <2>1, <2>2, <2>3, BeginKeeps
<1>3. ASSUME NEW u \in Users, NEW c \in Courses \cup {NoCourse}, CreateAdvisor(r, u, c)
      PROVE  IInv'
  <2>1. NewUser(u, "ADVISOR", c) \in Handler /\ HandlerOK(NewUser(u, "ADVISOR", c))
    BY NewUserLemma DEF Roles
  <2> QED
    BY <1>3, <2>1, BeginKeeps DEF CreateAdvisor
<1>4. ASSUME NEW u \in Users, NEW k \in Users, CreateAdvisorAs(r, u, k) PROVE IInv'
  <2>1. coordinator[k].course \in Courses \cup {NoCourse}
    BY DEF IInv, TypeOK, Coordinator
  <2> QED
    BY <1>3, <1>4, <2>1 DEF CreateAdvisorAs
<1> QED
  BY <1>1, <1>2, <1>3, <1>4 DEF Create

LEMMA InsertUserKeeps ==
    ASSUME IInv, NEW r \in Requests, InsertUser(r)
    PROVE  IInv'
<1>0. PICK h \in Handler : h = req[r]
  BY DEF IInv, TypeOK
<1> DEFINE n == [h EXCEPT !.pc = "create.profile"]
<1>1. h.pc = "create.user" /\ HandlerOK(h) /\ h.user \in Users /\ h.role \in Roles
  BY <1>0 DEF InsertUser, IInv, TypeOK, HandlerOK, CreationOK, Creating, Handler
<1>2. UNCHANGED <<course, coordinator, advisor, student, asked, cut, lent>>
  BY DEF InsertUser
<1>3. CASE ~EmailIsFree(h.user)
  <2>1. UNCHANGED role /\ req' = [req EXCEPT ![r] = Idle]
    BY <1>0, <1>3 DEF InsertUser, Become
  <2>2. UNCHANGED <<people, lent>> /\ asked' \in 0..MaxRequests /\ cut' \subseteq Users
        /\ course' \in [Courses -> {"none", "active", "inactive"}] /\ cut \subseteq cut'
    BY <1>2, <2>1 DEF people, IInv, TypeOK
  <2> QED
    BY <1>0, <1>1, <2>1, <2>2, IdleLemma, IdleOK, NothingWritten
<1>4. CASE EmailIsFree(h.user)
  <2>1. role' = [role EXCEPT ![h.user] = h.role] /\ req' = [req EXCEPT ![r] = n]
    BY <1>0, <1>4 DEF InsertUser, Become
  <2>2. role[h.user] = "none" /\ role' \in [Users -> Roles \cup {"none"}]
    BY <1>1, <1>4, <2>1 DEF EmailIsFree, IInv, TypeOK
  <2>3. Grows
    BY <1>1, <1>2, <2>1, <2>2 DEF Grows, IInv, TypeOK
  <2>4. n \in Handler /\ n.pc = "create.profile" /\ n.user = h.user /\ n.role = h.role
        /\ n.course = h.course /\ n.reg = h.reg
    BY <1>1 DEF Handler
  <2>5. HandlerOK(n)'
    <3>1. role'[h.user] = h.role
      BY <1>1, <2>1 DEF IInv, TypeOK
    <3> HIDE DEF n
    <3> QED
      BY <1>1, <2>4, <3>1
         DEF HandlerOK, CreationOK, CourseUpdateOK, CoordinatorUpdateOK, Creating, Updating
  <2>6. req' \in [Requests -> Handler] /\ \A q \in Requests : HandlerOK(req[q])'
    <3> HIDE DEF n
    <3> QED
      BY <2>1, <2>3, <2>4, <2>5, HandlersKept
  <2>7. TypeOK'
    BY <1>2, <2>2, <2>6 DEF IInv, TypeOK
  <2>8. ProfilesMatchRoles'
    <3>1. \A u \in Users, as \in Roles : HasProfile(u, as)' <=> HasProfile(u, as)
      BY <1>2 DEF HasProfile
    <3>2. \A as \in Roles : ~HasProfile(h.user, as)
      <4>1. \A as \in Roles : HasProfile(h.user, as) => role[h.user] = as
        BY <1>1 DEF IInv, ProfilesMatchRoles
      <4>2. "none" \notin Roles
        BY DEF Roles
      <4> QED
        BY <2>2, <4>1, <4>2
    <3>3. req'[r] = n
      BY <2>1 DEF IInv, TypeOK
    <3>4. \A q \in Requests : req[q].pc = "create.profile" => req'[q] = req[q]
      BY <1>0, <1>1, <2>1 DEF IInv, TypeOK
    <3>5. \A u \in Users : u # h.user => role'[u] = role[u]
      BY <2>1 DEF IInv, TypeOK
    <3>6. ASSUME NEW u \in Users
          PROVE  /\ \A as \in Roles : HasProfile(u, as)' => role'[u] = as
                 /\ role'[u] \in Roles =>
                      \/ HasProfile(u, role[u])' \/ u \in cut'
                      \/ \E q \in Requests : req'[q].pc = "create.profile" /\ req'[q].user = u
      <4>1. CASE u = h.user
        BY <2>4, <3>1, <3>2, <3>3, <4>1
      <4>2. CASE u # h.user
        BY <1>2, <3>1, <3>4, <3>5, <4>2 DEF IInv, ProfilesMatchRoles
      <4> QED
        BY <4>1, <4>2
    <3> QED
      BY <3>6 DEF ProfilesMatchRoles
  <2>9. \A u \in Users : InactiveOK(u)'
    BY <1>2 DEF IInv, InactiveOK
  <2> QED
    BY <2>6, <2>7, <2>8, <2>9 DEF IInv
<1> QED
  BY <1>3, <1>4

LEMMA InsertProfileKeeps ==
    ASSUME IInv, NEW r \in Requests, InsertProfile(r)
    PROVE  IInv'
<1>0. PICK h \in Handler : h = req[r]
  BY DEF IInv, TypeOK
<1>1. /\ h.pc = "create.profile" /\ HandlerOK(h) /\ h.user \in Users /\ h.role \in Roles
      /\ role[h.user] = h.role
  BY <1>0 DEF InsertProfile, IInv, TypeOK, HandlerOK, CreationOK, Creating, Handler
<1>2. UNCHANGED <<role, course, asked, cut, lent>> /\ req' = [req EXCEPT ![r] = Idle]
  BY DEF InsertProfile, Become
<1>3. /\ coordinator' \in [Users -> Coordinator]
      /\ \A u \in Users : u # h.user \/ h.role # "COORDINATOR" =>
            coordinator'[u] = coordinator[u]
      /\ h.role = "COORDINATOR" => coordinator'[h.user].state = "active"
  <2>1. CASE h.role = "COORDINATOR"
    <3> DEFINE row == [state |-> "active", course |-> h.course]
    <3>1. row \in Coordinator
      BY <1>1, <2>1 DEF HandlerOK, CreationOK, Creating, Coordinator
    <3>2. coordinator' = [coordinator EXCEPT ![h.user] = row]
      BY <1>0, <2>1 DEF InsertProfile
    <3> QED
      BY <1>1, <2>1, <3>1, <3>2 DEF IInv, TypeOK
  <2>2. CASE h.role # "COORDINATOR"
    BY <1>0, <2>2 DEF InsertProfile, IInv, TypeOK
  <2> QED
    BY <2>1, <2>2
<1>4. /\ advisor' \in [Users -> Advisor]
      /\ \A u \in Users : u # h.user \/ h.role # "ADVISOR" => advisor'[u] = advisor[u]
      /\ h.role = "ADVISOR" => advisor'[h.user].known
  <2>1. CASE h.role = "ADVISOR"
    <3> DEFINE row == [known |-> TRUE, course |-> h.course]
    <3>1. row \in Advisor
      BY DEF Handler, Advisor
    <3>2. advisor' = [advisor EXCEPT ![h.user] = row]
      BY <1>0, <2>1 DEF InsertProfile
    <3> QED
      BY <1>1, <2>1, <3>1, <3>2 DEF IInv, TypeOK
  <2>2. CASE h.role # "ADVISOR"
    BY <1>0, <2>2 DEF InsertProfile, IInv, TypeOK
  <2> QED
    BY <2>1, <2>2
<1>5. /\ student' \in [Users -> Student]
      /\ \A u \in Users : u # h.user \/ h.role # "STUDENT" => student'[u] = student[u]
      /\ h.role = "STUDENT" =>
            student'[h.user].reg # NoRegistration /\ student'[h.user].course # NoCourse
  <2>1. CASE h.role = "STUDENT"
    <3> DEFINE row == [reg |-> h.reg, course |-> h.course]
    <3>1. row \in Student /\ row.reg # NoRegistration /\ row.course # NoCourse
      BY <1>1, <2>1 DEF HandlerOK, CreationOK, Creating, Student
    <3>2. student' = [student EXCEPT ![h.user] = row]
      BY <1>0, <2>1 DEF InsertProfile
    <3> HIDE DEF row
    <3> QED
      BY <1>1, <2>1, <3>1, <3>2 DEF IInv, TypeOK
  <2>2. CASE h.role # "STUDENT"
    BY <1>0, <2>2 DEF InsertProfile, IInv, TypeOK
  <2> QED
    BY <2>1, <2>2
<1>6. Grows
  BY <1>2, <1>3 DEF Grows
<1>7. req' \in [Requests -> Handler] /\ \A q \in Requests : HandlerOK(req[q])'
  <2>1. HandlerOK(Idle)'
    BY IdleLemma
       DEF HandlerOK, CreationOK, CourseUpdateOK, CoordinatorUpdateOK, Creating, Updating
  <2> QED
    BY <1>2, <1>6, <2>1, IdleLemma, HandlersKept
<1>8. TypeOK'
  <2>1. \A u \in Users :
          /\ coordinator'[u].state = "none" => coordinator'[u].course = NoCourse
          /\ student'[u].reg = NoRegistration <=> student'[u].course = NoCourse
    BY <1>3, <1>5 DEF IInv, TypeOK
  <2> QED
    BY <1>2, <1>3, <1>4, <1>5, <1>7, <2>1 DEF IInv, TypeOK
<1>9. ProfilesMatchRoles'
  <2>1. \A u \in Users, as \in Roles : u # h.user \/ as # h.role =>
            (HasProfile(u, as)' <=> HasProfile(u, as))
    BY <1>3, <1>4, <1>5 DEF HasProfile, Roles
  <2>2. HasProfile(h.user, h.role)'
    BY <1>1, <1>3, <1>4, <1>5 DEF HasProfile, Roles
  <2>3. \A q \in Requests : q # r => req'[q] = req[q]
    BY <1>2 DEF IInv, TypeOK
  <2>4. ASSUME NEW u \in Users
        PROVE  /\ \A as \in Roles : HasProfile(u, as)' => role'[u] = as
               /\ role'[u] \in Roles =>
                    \/ HasProfile(u, role[u])' \/ u \in cut'
                    \/ \E q \in Requests : req'[q].pc = "create.profile" /\ req'[q].user = u
    <3>1. CASE u = h.user
      BY <1>1, <1>2, <2>1, <2>2, <3>1 DEF IInv, ProfilesMatchRoles
    <3>2. CASE u # h.user
      BY <1>0, <1>2, <2>1, <2>3, <3>2 DEF IInv, ProfilesMatchRoles
    <3> QED
      BY <3>1, <3>2
  <2> QED
    BY <2>4 DEF ProfilesMatchRoles
<1>10. \A u \in Users : InactiveOK(u)'
  BY <1>2, <1>3 DEF IInv, InactiveOK
<1> QED
  BY <1>7, <1>8, <1>9, <1>10 DEF IInv

LEMMA CutShortKeeps ==
    ASSUME IInv, NEW r \in Requests, InsertProfileFails(r) \/ Abort(r)
    PROVE  IInv'
<1>1. /\ req' = [req EXCEPT ![r] = Idle] /\ UNCHANGED <<people, course, asked, lent>>
      /\ cut \subseteq cut' /\ cut' \subseteq cut \cup {req[r].user}
      /\ req[r].pc = "create.profile" => req[r].user \in cut'
      /\ cut' # cut => req[r].pc = "create.profile"
  BY DEF InsertProfileFails, Abort, Become
<1>2. req[r].pc = "create.profile" => req[r].user \in Users
  BY DEF IInv, HandlerOK, CreationOK, Creating
<1>3. /\ cut' \subseteq Users /\ asked' \in 0..MaxRequests
      /\ course' \in [Courses -> {"none", "active", "inactive"}] /\ UNCHANGED <<people, lent>>
  BY <1>1, <1>2 DEF IInv, TypeOK
<1> QED
  BY <1>1, <1>3, IdleLemma, IdleOK, NothingWritten

-----------------------------------------------------------------------------
(* Requests of one write.                                                  *)

LEMMA OneWriteKeeps ==
    ASSUME IInv, \/ \E c \in Courses : CreateCourse(c)
                 \/ \E u \in Users, c \in Courses : UpdateStudent(u, c) \/ UpdateAdvisor(u, c)
    PROVE  IInv'
<1>1. UNCHANGED <<role, coordinator, req, asked, cut, lent>>
  BY DEF CreateCourse, UpdateStudent, UpdateAdvisor, people
<1>2. course' \in [Courses -> {"none", "active", "inactive"}]
  BY DEF CreateCourse, UpdateStudent, UpdateAdvisor, IInv, TypeOK
<1>3. /\ advisor' \in [Users -> Advisor]
      /\ \A u \in Users : advisor'[u].known = advisor[u].known
  <2>1. CASE UNCHANGED advisor
    BY <2>1 DEF IInv, TypeOK
  <2>2. ASSUME NEW k \in Users, NEW c \in Courses, UpdateAdvisor(k, c)
        PROVE  /\ advisor' \in [Users -> Advisor]
               /\ \A u \in Users : advisor'[u].known = advisor[u].known
    <3>1. advisor' = [advisor EXCEPT ![k] = [advisor[k] EXCEPT !.course = c]]
      BY <2>2 DEF UpdateAdvisor
    <3>2. /\ [advisor[k] EXCEPT !.course = c] \in Advisor
          /\ [advisor[k] EXCEPT !.course = c].known = advisor[k].known
      BY DEF IInv, TypeOK, Advisor
    <3> QED
      BY <3>1, <3>2 DEF IInv, TypeOK
  <2> QED
    BY <2>1, <2>2 DEF CreateCourse, UpdateStudent, people
<1>4. /\ student' \in [Users -> Student]
      /\ \A u \in Users :
            /\ student'[u].reg = student[u].reg
            /\ student'[u].reg = NoRegistration <=> student'[u].course = NoCourse
  <2>1. CASE UNCHANGED student
    BY <2>1 DEF IInv, TypeOK
  <2>2. ASSUME NEW k \in Users, NEW c \in Courses, UpdateStudent(k, c)
        PROVE  /\ student' \in [Users -> Student]
               /\ \A u \in Users :
                     /\ student'[u].reg = student[u].reg
                     /\ student'[u].reg = NoRegistration <=> student'[u].course = NoCourse
    <3>1. /\ student' = [student EXCEPT ![k] = [student[k] EXCEPT !.course = c]]
          /\ student[k].reg # NoRegistration
      BY <2>2 DEF UpdateStudent, Enrolled
    <3>2. /\ [student[k] EXCEPT !.course = c] \in Student
          /\ [student[k] EXCEPT !.course = c].reg = student[k].reg
          /\ [student[k] EXCEPT !.course = c].course = c
      BY DEF IInv, TypeOK, Student
    <3> QED
      BY <3>1, <3>2 DEF IInv, TypeOK
  <2> QED
    BY <2>1, <2>2 DEF CreateCourse, UpdateAdvisor, people
<1>5. Grows
  BY <1>1 DEF Grows
<1>6. \A q \in Requests : HandlerOK(req[q])'
  BY <1>1 DEF IInv, HandlerOK, CreationOK, CourseUpdateOK, CoordinatorUpdateOK, There
<1>7. TypeOK'
  BY <1>1, <1>2, <1>3, <1>4 DEF IInv, TypeOK
<1>8. ProfilesMatchRoles'
  BY <1>1, <1>3, <1>4, <1>5, ProfilesKept
<1>9. \A u \in Users : InactiveOK(u)'
  BY <1>1 DEF IInv, InactiveOK
<1> QED
  BY <1>6, <1>7, <1>8, <1>9 DEF IInv

-----------------------------------------------------------------------------
(* Updates of a course.                                                    *)

\* Updates carry on with a handler that holds the same, or is done.
LEMMA SettledLemma ==
    ASSUME NEW h \in Handler
    PROVE  /\ Settled(h) \in Handler /\ Settled(h).pc = "course.save"
           /\ Settled(h).course = h.course /\ Settled(h).held = Nobody
BY IdleLemma DEF Settled, Idle, Handler

LEMMA WithStatusLemma ==
    ASSUME NEW h \in Handler, h.course \in Courses, h.held = Nobody \/ There(h.held)
    PROVE  WithStatus(h) \in Handler /\ HandlerOK(WithStatus(h))
<1> USE DEF HandlerOK, CreationOK, CourseUpdateOK, CoordinatorUpdateOK, Creating, Updating
<1>1. ASSUME NEW n \in Handler, n.course = h.course
      PROVE  Settled(n) \in Handler /\ HandlerOK(Settled(n))
  BY <1>1, SettledLemma
<1>2. CASE h.ask = "keep"
  BY <1>1, <1>2 DEF WithStatus
<1>3. CASE h.ask = "on"
  <2>1. [h EXCEPT !.active = TRUE] \in Handler /\ [h EXCEPT !.active = TRUE].course = h.course
    BY DEF Handler
  <2>2. WithStatus(h) = Settled([h EXCEPT !.active = TRUE])
    BY <1>3 DEF WithStatus
  <2> QED
    BY <1>1, <2>1, <2>2
<1>4. CASE h.ask = "off" /\ h.held = Nobody
  <2>1. [h EXCEPT !.active = FALSE] \in Handler /\ [h EXCEPT !.active = FALSE].course = h.course
    BY DEF Handler
  <2>2. WithStatus(h) = Settled([h EXCEPT !.active = FALSE])
    BY <1>4 DEF WithStatus
  <2> QED
    BY <1>1, <2>1, <2>2
<1>5. CASE h.ask = "off" /\ h.held # Nobody
  <2> DEFINE n == [h EXCEPT !.pc = "course.holder", !.active = FALSE]
  <2>1. n \in Handler /\ n.pc = "course.holder" /\ n.course = h.course /\ n.held = h.held
    BY DEF Handler
  <2>2. WithStatus(h) = n
    BY <1>5 DEF WithStatus
  <2> HIDE DEF n
  <2> QED
    BY <1>5, <2>1, <2>2
<1>6. h.ask \in {"keep", "on", "off"}
  BY DEF Handler
<1> QED
  BY <1>2, <1>3, <1>4, <1>5, <1>6

LEMMA AssignedLemma ==
    ASSUME NEW h \in Handler, h.course \in Courses, There(h.user)
    PROVE  Assigned(h) \in Handler /\ HandlerOK(Assigned(h))
<1> DEFINE n == [h EXCEPT !.held = h.user]
<1>1. n \in Handler /\ n.course = h.course /\ n.held = h.user
  BY DEF Handler
<1> HIDE DEF n
<1>2. WithStatus(n) \in Handler /\ HandlerOK(WithStatus(n))
  BY <1>1, WithStatusLemma
<1> QED
  BY <1>2, IdleLemma, IdleOK DEF Assigned, n

LEMMA UpdateCourseKeeps ==
    ASSUME IInv, NEW r \in Requests, NEW c \in Courses, NEW new \in Users \cup {Nobody},
           NEW ask \in {"keep", "on", "off"}, UpdateCourse(r, c, new, ask)
    PROVE  IInv'
<1> DEFINE h == [Idle EXCEPT !.pc = "course.new", !.course = c, !.user = new, !.ask = ask,
                             !.held = ActiveHolder(c), !.active = course[c] = "active"]
<1>1. ActiveHolder(c) = Nobody \/ There(ActiveHolder(c))
  BY HolderLemma DEF IInv
<1>2. h \in Handler /\ h.pc = "course.new" /\ h.course = c /\ h.user = new
      /\ h.held = ActiveHolder(c)
  BY <1>1, IdleLemma DEF There, Idle, Handler
<1>3. Begin(r, IF new = Nobody THEN WithStatus(h) ELSE h)
  BY DEF UpdateCourse
<1> HIDE DEF h
<1>4. CASE new = Nobody
  BY <1>1, <1>2, <1>3, <1>4, WithStatusLemma, BeginKeeps
<1>5. CASE new # Nobody
  <2>1. HandlerOK(h)
    BY <1>1, <1>2, <1>5
       DEF HandlerOK, CreationOK, CourseUpdateOK, CoordinatorUpdateOK, Creating, Updating
  <2> QED
    BY <1>2, <1>3, <1>5, <2>1, BeginKeeps
<1> QED
  BY <1>4, <1>5

\* A step of a request about a row that writes none, and perhaps the course.
LEMMA Reads ==
    ASSUME IInv, NEW r \in Requests, NEW h \in Handler, HandlerOK(h),
           req' = [req EXCEPT ![r] = h], req[r].pc # "create.profile",
           UNCHANGED <<people, course, asked, cut, lent>>
    PROVE  IInv'
<1>1. course' \in [Courses -> {"none", "active", "inactive"}] /\ cut' \subseteq Users
      /\ asked' \in 0..MaxRequests
  BY DEF IInv, TypeOK
<1> QED
  BY <1>1, NothingWritten

LEMMA ValidateNewKeeps ==
    ASSUME IInv, NEW r \in Requests, ValidateNew(r)
    PROVE  IInv'
<1>0. PICK h \in Handler : h = req[r]
  BY DEF IInv, TypeOK
<1> DEFINE on == [h EXCEPT !.active = @ \/ h.ask = "on"]
           n == [on EXCEPT !.pc = "course.previous"]
<1>1. /\ h.pc = "course.new" /\ h.course \in Courses /\ h.user \in Users
      /\ h.held = Nobody \/ There(h.held)
  BY <1>0 DEF ValidateNew, IInv, HandlerOK, CourseUpdateOK, Updating
<1>2. on \in Handler /\ on.course = h.course /\ on.user = h.user /\ on.held = h.held
  BY DEF Handler
<1>3. /\ n \in Handler /\ n.pc = "course.previous" /\ n.course = h.course
      /\ n.user = h.user /\ n.held = h.held
  BY DEF Handler
<1>4. req' = [req EXCEPT ![r] =
                 IF coordinator[h.user].state # "active" THEN Idle
                 ELSE IF h.held \in {Nobody, h.user} THEN Assigned(on) ELSE n]
      /\ UNCHANGED <<people, course, asked, cut, lent>>
  BY <1>0 DEF ValidateNew, Become
<1> HIDE DEF on, n
<1>5. CASE coordinator[h.user].state # "active"
  BY <1>0, <1>1, <1>4, <1>5, IdleLemma, IdleOK, Reads
<1>6. CASE coordinator[h.user].state = "active" /\ h.held \in {Nobody, h.user}
  <2>1. Assigned(on) \in Handler /\ HandlerOK(Assigned(on))
    BY <1>1, <1>2, <1>6, AssignedLemma DEF There
  <2> QED
    BY <1>0, <1>1, <1>4, <1>6, <2>1, Reads
<1>7. CASE coordinator[h.user].state = "active" /\ h.held \notin {Nobody, h.user}
  <2>1. HandlerOK(n)
    BY <1>1, <1>3, <1>7 DEF HandlerOK, CreationOK, CourseUpdateOK, CoordinatorUpdateOK,
                           Creating, Updating, There
  <2> QED
    BY <1>0, <1>1, <1>3, <1>4, <1>7, <2>1, Reads
<1> QED
  BY <1>5, <1>6, <1>7

\* What a handler carries is still true after a step that writes a coordinator.
LEMMA HandlerStays ==
    ASSUME Grows, role' = role, NEW n \in Handler, HandlerOK(n)
    PROVE  HandlerOK(n)'
<1>1. CreationOK(n)'
  BY DEF HandlerOK, CreationOK
<1>2. CourseUpdateOK(n)' /\ CoordinatorUpdateOK(n)'
  BY DEF HandlerOK, CourseUpdateOK, CoordinatorUpdateOK, There, Grows
<1> QED
  BY <1>1, <1>2 DEF HandlerOK

LEMMA WriteGrows ==
    ASSUME TypeOK, UNCHANGED <<role, cut>>, lent \subseteq lent', NEW u \in Users,
           NEW row \in Coordinator, row.state # "none",
           coordinator' = [coordinator EXCEPT ![u] = row]
    PROVE  Grows /\ coordinator'[u] = row
BY DEF TypeOK, Grows

LEMMA DeactivatePreviousKeeps ==
    ASSUME IInv, NEW r \in Requests, DeactivatePrevious(r)
    PROVE  IInv'
<1>0. PICK h \in Handler : h = req[r]
  BY DEF IInv, TypeOK
<1>1. h.pc = "course.previous" /\ h.course \in Courses /\ There(h.user) /\ There(h.held)
  BY <1>0 DEF DeactivatePrevious, IInv, HandlerOK, CourseUpdateOK, Updating
<1>2. PICK n \in Handler : n = Assigned(h) /\ HandlerOK(n)
  BY <1>1, AssignedLemma
<1>3. PICK row \in Coordinator : row = Deactivated(coordinator[h.held])
  BY <1>1, RowLemma DEF There, IInv, TypeOK
<1>4. row.state = "inactive" /\ row.course = NoCourse
  BY <1>1, <1>3, RowLemma DEF There, IInv, TypeOK
<1>5. /\ coordinator' = [coordinator EXCEPT ![h.held] = row] /\ req' = [req EXCEPT ![r] = n]
      /\ UNCHANGED <<role, advisor, student, course, asked, cut, lent>>
  BY <1>0, <1>2, <1>3 DEF DeactivatePrevious, Become
<1>6. Grows /\ coordinator'[h.held] = row
  BY <1>1, <1>4, <1>5, WriteGrows DEF IInv, There
<1>7. HandlerOK(n)'
  BY <1>2, <1>5, <1>6, HandlerStays
<1>8. InactiveOK(h.held)'
  BY <1>4, <1>6 DEF InactiveOK
<1>9. req[r].pc # "create.profile" /\ lent' \subseteq Users /\ lent \subseteq lent'
  BY <1>0, <1>1, <1>5 DEF IInv, TypeOK
<1> QED
  BY <1>1, <1>4, <1>5, <1>7, <1>8, <1>9, CoordinatorWritten DEF There

LEMMA ReadHolderKeeps ==
    ASSUME IInv, NEW r \in Requests, ReadHolder(r)
    PROVE  IInv'
<1>0. PICK h \in Handler : h = req[r]
  BY DEF IInv, TypeOK
<1>1. h.pc = "course.holder" /\ h.course \in Courses /\ There(h.held) /\ h.held # Nobody
  BY <1>0 DEF ReadHolder, IInv, HandlerOK, CourseUpdateOK, Updating
<1>2. PICK row \in Coordinator : row = WithoutCourse(coordinator[h.held])
  BY <1>1, RowLemma DEF There, IInv, TypeOK
<1>3. row.state # "none" /\ row.course = NoCourse
  BY <1>1, <1>2, RowLemma DEF There, IInv, TypeOK
<1> DEFINE n == [h EXCEPT !.pc = "course.remove", !.row = row]
<1>4. n \in Handler /\ n.pc = "course.remove" /\ n.course = h.course /\ n.held = h.held
      /\ n.row = row
  BY DEF Handler
<1>5. req' = [req EXCEPT ![r] = n] /\ UNCHANGED <<people, course, asked, cut, lent>>
  BY <1>0, <1>2 DEF ReadHolder, Become
<1> HIDE DEF n
<1>6. HandlerOK(n)
  BY <1>1, <1>3, <1>4
     DEF HandlerOK, CreationOK, CourseUpdateOK, CoordinatorUpdateOK, Creating, Updating
<1> QED
  BY <1>0, <1>1, <1>4, <1>5, <1>6, Reads

LEMMA RemoveCourseKeeps ==
    ASSUME IInv, NEW r \in Requests, RemoveCourse(r)
    PROVE  IInv'
<1>0. PICK h \in Handler : h = req[r]
  BY DEF IInv, TypeOK
<1>1. /\ h.pc = "course.remove" /\ h.course \in Courses /\ There(h.held)
      /\ h.row.state # "none" /\ h.row.course = NoCourse /\ h.row \in Coordinator
  BY <1>0 DEF RemoveCourse, IInv, HandlerOK, CourseUpdateOK, Updating, Handler
<1>2. PICK n \in Handler : n = Settled(h) /\ HandlerOK(n)
  BY <1>1, SettledLemma
     DEF HandlerOK, CreationOK, CourseUpdateOK, CoordinatorUpdateOK, Creating, Updating
<1>3. /\ coordinator' = [coordinator EXCEPT ![h.held] = h.row]
      /\ req' = [req EXCEPT ![r] = n]
      /\ UNCHANGED <<role, advisor, student, course, asked, cut, lent>>
  BY <1>0, <1>2 DEF RemoveCourse, Become
<1>4. Grows /\ coordinator'[h.held] = h.row
  BY <1>1, <1>3, WriteGrows DEF IInv, There
<1>5. HandlerOK(n)'
  BY <1>2, <1>3, <1>4, HandlerStays
<1>6. InactiveOK(h.held)'
  BY <1>1, <1>4 DEF InactiveOK
<1>7. req[r].pc # "create.profile" /\ lent' \subseteq Users /\ lent \subseteq lent'
  BY <1>0, <1>1, <1>3 DEF IInv, TypeOK
<1> QED
  BY <1>1, <1>3, <1>5, <1>6, <1>7, CoordinatorWritten DEF There

LEMMA SaveCourseKeeps ==
    ASSUME IInv, NEW r \in Requests, SaveCourse(r)
    PROVE  IInv'
<1>1. /\ req[r].pc = "course.save" /\ req' = [req EXCEPT ![r] = Idle]
      /\ UNCHANGED <<people, lent>> /\ asked' = asked /\ cut' = cut
  BY DEF SaveCourse, Become
<1>2. /\ course' \in [Courses -> {"none", "active", "inactive"}]
      /\ asked' \in 0..MaxRequests /\ cut' \subseteq Users
  BY <1>1 DEF SaveCourse, IInv, TypeOK
<1> QED
  BY <1>1, <1>2, IdleLemma, IdleOK, NothingWritten

-----------------------------------------------------------------------------
(* Updates of a coordinator.                                               *)

LEMMA UpdateCoordinatorKeeps ==
    ASSUME IInv, NEW r \in Requests, NEW u \in Users, NEW c \in Courses \cup {NoCourse},
           NEW ask \in {"keep", "on", "off"}, UpdateCoordinator(r, u, ask, c)
    PROVE  IInv'
<1>1. There(u) /\ InactiveOK(u)
  BY DEF UpdateCoordinator, There, IInv
<1>2. PICK row \in Coordinator : row = coordinator[u]
  BY DEF IInv, TypeOK
<1> DEFINE h == [Idle EXCEPT !.user = u, !.ask = ask, !.course = c, !.row = row]
           save(new) == [h EXCEPT !.pc = "coordinator.save", !.row = new]
           give == [h EXCEPT !.pc = "coordinator.course"]
<1>3. h \in Handler /\ h.user = u /\ h.ask = ask /\ h.course = c /\ h.row = row
  BY IdleLemma DEF Idle, Handler
<1>4. Changed(h) = CASE ask = "off" /\ row.state = "active" -> save(Deactivated(row))
                     [] ask = "on" /\ row.state = "inactive" ->
                           IF c = NoCourse THEN Idle ELSE give
                     [] ask # "off" /\ c \notin {NoCourse, row.course} -> give
                     [] OTHER -> save(row)
  BY <1>3 DEF Changed
<1>5. ASSUME NEW new \in Coordinator, new.state # "none",
             new.state = "inactive" /\ new.course # NoCourse => u \in lent
      PROVE  save(new) \in Handler /\ HandlerOK(save(new))
  <2>1. save(new) \in Handler /\ save(new).pc = "coordinator.save" /\ save(new).user = u
        /\ save(new).row = new /\ save(new).course = c
    BY <1>3 DEF Handler
  <2> HIDE DEF save
  <2> QED
    BY <1>1, <1>5, <2>1
       DEF HandlerOK, CreationOK, CourseUpdateOK, CoordinatorUpdateOK, Creating, Updating
<1>6. ASSUME c # NoCourse PROVE give \in Handler /\ HandlerOK(give)
  <2>1. give \in Handler /\ give.pc = "coordinator.course" /\ give.user = u
        /\ give.row = row /\ give.course = c
    BY <1>3 DEF Handler
  <2> HIDE DEF give
  <2>2. row.state # "none"
    BY <1>1, <1>2 DEF There
  <2> QED
    BY <1>1, <1>6, <2>1, <2>2
       DEF HandlerOK, CreationOK, CourseUpdateOK, CoordinatorUpdateOK, Creating, Updating
<1>7. save(Deactivated(row)) \in Handler /\ HandlerOK(save(Deactivated(row)))
  <2>1. Deactivated(row) \in Coordinator /\ Deactivated(row).state = "inactive"
        /\ Deactivated(row).course = NoCourse
    BY RowLemma
  <2> HIDE DEF save
  <2> QED
    BY <1>5, <2>1
<1>8. save(row) \in Handler /\ HandlerOK(save(row))
  <2> HIDE DEF save
  <2> QED
    BY <1>1, <1>2, <1>5 DEF There, InactiveOK
<1>9. Begin(r, Changed(h))
  BY <1>2 DEF UpdateCoordinator
<1> HIDE DEF h, save, give
<1>10. Changed(h) \in Handler /\ HandlerOK(Changed(h))
  BY <1>4, <1>6, <1>7, <1>8, IdleLemma, IdleOK
<1> QED
  BY <1>9, <1>10, BeginKeeps

LEMMA GiveCourseKeeps ==
    ASSUME IInv, NEW r \in Requests, GiveCourse(r)
    PROVE  IInv'
<1>0. PICK h \in Handler : h = req[r]
  BY DEF IInv, TypeOK
<1>1. /\ h.pc = "coordinator.course" /\ h.course \in Courses /\ There(h.user)
      /\ h.row.state # "none" /\ h.row \in Coordinator
  BY <1>0 DEF GiveCourse, IInv, HandlerOK, CoordinatorUpdateOK, Handler
<1> DEFINE row == [state |-> IF h.ask = "on" THEN "active" ELSE h.row.state,
                   course |-> h.course]
           n == [h EXCEPT !.pc = "coordinator.save", !.row = row]
<1>2. row \in Coordinator /\ row.state # "none" /\ row.course = h.course
  BY <1>1 DEF Coordinator
<1>3. n \in Handler /\ n.pc = "coordinator.save" /\ n.user = h.user /\ n.row = row
      /\ n.course = h.course
  BY <1>2 DEF Handler
<1>4. /\ req' = [req EXCEPT ![r] = n] \/ req' = [req EXCEPT ![r] = Idle]
      /\ UNCHANGED <<people, course, asked, cut, lent>>
  BY <1>0 DEF GiveCourse, Become
<1> HIDE DEF row, n
<1>5. HandlerOK(n)
  BY <1>1, <1>2, <1>3
     DEF HandlerOK, CreationOK, CourseUpdateOK, CoordinatorUpdateOK, Creating, Updating
<1> QED
  BY <1>0, <1>1, <1>3, <1>4, <1>5, IdleLemma, IdleOK, Reads

LEMMA SaveCoordinatorKeeps ==
    ASSUME IInv, NEW r \in Requests, SaveCoordinator(r)
    PROVE  IInv'
<1>0. PICK h \in Handler : h = req[r]
  BY DEF IInv, TypeOK
<1>1. /\ h.pc = "coordinator.save" /\ There(h.user) /\ h.row.state # "none"
      /\ h.row \in Coordinator
      /\ h.row.state = "inactive" /\ h.row.course # NoCourse =>
            h.user \in lent \/ (h.course # NoCourse /\ h.row.course = h.course)
  BY <1>0 DEF SaveCoordinator, IInv, HandlerOK, CoordinatorUpdateOK, Handler
<1>2. /\ lent \subseteq lent' /\ lent' \subseteq Users
      /\ h.row.state = "inactive" /\ h.row.course # NoCourse => h.user \in lent'
      /\ req' = [req EXCEPT ![r] = Idle] /\ UNCHANGED <<role, advisor, student, course, asked, cut>>
  BY <1>0, <1>1 DEF SaveCoordinator, Become, There, IInv, TypeOK
<1>3. PICK row \in Coordinator :
          /\ row \in {h.row, coordinator[h.user]}
          /\ coordinator' = [coordinator EXCEPT ![h.user] = row]
  <2>1. CASE SeatFree(h.user, h.row.course)
    BY <1>0, <1>1, <2>1 DEF SaveCoordinator
  <2>2. CASE ~SeatFree(h.user, h.row.course)
    <3>1. coordinator' = coordinator
      BY <1>0, <2>2 DEF SaveCoordinator
    <3>2. coordinator \in [Users -> Coordinator] /\ h.user \in Users
      BY <1>1 DEF IInv, TypeOK, There
    <3>3. coordinator = [coordinator EXCEPT ![h.user] = coordinator[h.user]]
      BY <3>2
    <3> QED
      BY <3>1, <3>2, <3>3
  <2> QED
    BY <2>1, <2>2
<1>4. row.state # "none"
  BY <1>1, <1>3 DEF There
<1>5. Grows /\ coordinator'[h.user] = row
  BY <1>1, <1>2, <1>3, <1>4, WriteGrows DEF IInv, There
<1>6. HandlerOK(Idle)'
  BY <1>2, <1>5, IdleLemma, IdleOK, HandlerStays
<1>7. InactiveOK(h.user)'
  BY <1>1, <1>2, <1>3, <1>5 DEF InactiveOK, IInv, There
<1>8. req[r].pc # "create.profile"
  BY <1>0, <1>1
<1> QED
  BY <1>1, <1>2, <1>3, <1>4, <1>6, <1>7, <1>8, IdleLemma, CoordinatorWritten DEF There

-----------------------------------------------------------------------------
LEMMA ChangeKeeps ==
    ASSUME IInv, NEW r \in Requests, Change(r)
    PROVE  IInv'
BY UpdateCourseKeeps, UpdateCoordinatorKeeps DEF Change

LEMMA NextKeeps ==
    ASSUME IInv, [Next]_vars
    PROVE  IInv'
<1>1. ASSUME NEW r \in Requests, Handle(r) PROVE IInv'
  BY <1>1, InsertUserKeeps, InsertProfileKeeps, CutShortKeeps, ValidateNewKeeps,
     DeactivatePreviousKeeps, ReadHolderKeeps, RemoveCourseKeeps, SaveCourseKeeps,
     GiveCourseKeeps, SaveCoordinatorKeeps DEF Handle
<1>2. CASE UNCHANGED vars
  <2>1. UNCHANGED <<role, coordinator, advisor, student, course, req, asked, cut, lent>>
    BY <1>2 DEF vars, people
  <2>2. TypeOK' /\ \A u \in Users : InactiveOK(u)'
    BY <2>1 DEF IInv, TypeOK, InactiveOK
  <2>3. \A q \in Requests : HandlerOK(req[q])'
    BY <2>1 DEF IInv, HandlerOK, CreationOK, CourseUpdateOK, CoordinatorUpdateOK, There
  <2>4. ProfilesMatchRoles'
    BY <2>1 DEF IInv, ProfilesMatchRoles, HasProfile
  <2> QED
    BY <2>2, <2>3, <2>4 DEF IInv
<1> QED
  BY <1>1, <1>2, CreateKeeps, ChangeKeeps, CutShortKeeps, OneWriteKeeps DEF Next

\* The inductive invariant holds in every reachable state of the directory.
THEOREM Inductive == Spec => []IInv
<1>1. IInv /\ [Next]_vars => IInv'
  BY NextKeeps
<1> QED
  BY <1>1, InitHolds, PTL DEF Spec

\* Every variable of the directory keeps its type, for any users, courses,
\* initial rows and number of handlers.
THEOREM TypeCorrect == Spec => []TypeOK
<1>1. IInv => TypeOK
  BY DEF IInv
<1> QED
  BY <1>1, Inductive, PTL

\* A user has the profile of the role and no other, and one without is being
\* created or was cut short, although the two inserts are in no transaction.
THEOREM ProfilesMatch == Spec => []ProfilesMatchRoles
<1>1. IInv => ProfilesMatchRoles
  BY DEF IInv
<1> QED
  BY <1>1, Inductive, PTL

\* A course without an active coordinator is kept by nobody but those who were
\* given it while inactive, however updates of courses and people cross.
THEOREM SeatsAreFree == Spec => []SeatsCanBeFilled
<1>1. IInv => SeatsCanBeFilled
  <2> SUFFICES ASSUME IInv, NEW c \in Courses, ActiveHolder(c) = Nobody,
                      NEW k \in HolderOf(c)
               PROVE  k \in lent
    BY DEF SeatsCanBeFilled
  <2>1. coordinator[k].state # "active"
    BY NobodyLemma
  <2>2. k \in Users /\ coordinator[k].course = c
    BY DEF HolderOf
  <2>3. coordinator[k].state = "inactive"
    BY <2>1, <2>2 DEF IInv, TypeOK, Coordinator
  <2> QED
    BY <2>2, <2>3 DEF IInv, InactiveOK
<1> QED
  BY <1>1, Inductive, PTL
=============================================================================
