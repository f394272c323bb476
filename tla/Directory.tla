------------------------------ MODULE Directory ------------------------------
(***************************************************************************)
(* People and courses: users with their profile as coordinator, advisor or *)
(* student, and who coordinates which course.                              *)
(*                                                                         *)
(* A user is known by the e-mail, which is unique and never changed; the   *)
(* profile has the user's id.  The course row says nothing of who          *)
(* coordinates it: the coordinator's row names the course, uniquely.       *)
(* Handlers are split at their awaits where another request can make a     *)
(* difference, and a coordinator is written back with both columns as read.*)
(* Names, passwords, mails and certificates of a new user are left out, as *)
(* are an advisor's specialization and isActive, which nothing here reads, *)
(* and who may ask, but for the coordinator who creates an advisor.        *)
(***************************************************************************)
EXTENDS Naturals, FiniteSets

CONSTANTS
    Users,          \* e-mails
    Nobody,
    Courses, NoCourse,
    Registrations, NoRegistration,   \* students' registration numbers
    Requests,       \* request slots: how many handlers may be in flight
    MaxRequests,    \* bound on the requests made
    Faults          \* "abort": a handler ends between two awaits

ASSUME NamesAssumption ==
    Nobody \notin Users /\ NoCourse \notin Courses /\ NoRegistration \notin Registrations
ASSUME BoundsAssumption == MaxRequests \in Nat /\ Faults \subseteq {"abort"}

VARIABLES
    role,          \* users table
    course,        \* courses table: whether it is active
    coordinator,   \* coordinators table
    advisor,       \* advisors table
    student,       \* students table
    req,           \* the handler each slot is running
    asked,         \* requests made so far (only to bound them)
    cut,           \* auxiliary: users whose creation ended halfway
    lent           \* auxiliary: coordinators given a course while inactive

people == <<role, coordinator, advisor, student>>
vars == <<people, course, req, asked, cut, lent>>

-----------------------------------------------------------------------------
Roles == {"COORDINATOR", "ADVISOR", "STUDENT"}

Coordinator == [state : {"none", "active", "inactive"}, course : Courses \cup {NoCourse}]
NoCoordinator == [state |-> "none", course |-> NoCourse]
StoodDown(row) == [row EXCEPT !.state = "inactive"]              \* a mutant
Deactivated(row) == [state |-> "inactive", course |-> NoCourse]
WithoutCourse(row) == [row EXCEPT !.course = NoCourse]

Advisor == [known : BOOLEAN, course : Courses \cup {NoCourse}]
NoAdvisor == [known |-> FALSE, course |-> NoCourse]
Student == [reg : Registrations \cup {NoRegistration}, course : Courses \cup {NoCourse}]
NoStudent == [reg |-> NoRegistration, course |-> NoCourse]

\* coordinators.courseId is unique.
HolderOf(c) == {k \in Users : coordinator[k].course = c}
SeatFree(u, c) == c = NoCourse \/ HolderOf(c) \subseteq {u}
\* The repository gives a course its coordinator only while active.
ActiveHolder(c) ==
    LET active == {k \in HolderOf(c) : coordinator[k].state = "active"}
    IN IF active = {} THEN Nobody ELSE CHOOSE k \in active : TRUE

HasProfile(u, r) ==
    CASE r = "COORDINATOR" -> coordinator[u].state # "none"
      [] r = "ADVISOR" -> advisor[u].known
      [] r = "STUDENT" -> student[u].reg # NoRegistration

Handler ==
    [pc : {"idle", "create.user", "create.profile",
           "course.new", "course.previous", "course.holder", "course.remove",
           "course.save", "coordinator.course", "coordinator.save"},
     user : Users \cup {Nobody},        \* to create, to update, or the new coordinator
     role : Roles,
     course : Courses \cup {NoCourse},
     reg : Registrations \cup {NoRegistration},
     held : Users \cup {Nobody},        \* the course's coordinator, in memory
     active : BOOLEAN,                  \* the course, in memory
     ask : {"keep", "on", "off"},       \* the status asked for
     row : Coordinator]                 \* the coordinator, in memory
Idle == [pc |-> "idle", user |-> Nobody, role |-> "STUDENT", course |-> NoCourse,
         reg |-> NoRegistration, held |-> Nobody, active |-> FALSE, ask |-> "keep",
         row |-> NoCoordinator]

Become(r, h) == req' = [req EXCEPT ![r] = h]

TypeOK ==
    /\ role \in [Users -> Roles \cup {"none"}]
    /\ course \in [Courses -> {"none", "active", "inactive"}]
    /\ coordinator \in [Users -> Coordinator]
    /\ advisor \in [Users -> Advisor]
    /\ student \in [Users -> Student]
    /\ \A u \in Users :
          /\ coordinator[u].state = "none" => coordinator[u].course = NoCourse
          /\ student[u].reg = NoRegistration <=> student[u].course = NoCourse
    /\ req \in [Requests -> Handler]
    /\ asked \in 0..MaxRequests
    /\ cut \subseteq Users /\ lent \subseteq Users

\* The seed and earlier requests leave some courses, and coordinators that are
\* active, with a course of their own or with none, or inactive with none.
Init ==
    /\ course \in [Courses -> {"none", "active", "inactive"}]
    /\ coordinator \in [Users -> Coordinator]
    /\ \A u \in Users :
          /\ coordinator[u].state # "active" => coordinator[u].course = NoCourse
          /\ coordinator[u].course # NoCourse => course[coordinator[u].course] # "none"
          /\ SeatFree(u, coordinator[u].course)
    /\ role = [u \in Users |-> IF coordinator[u] = NoCoordinator
                              THEN "none" ELSE "COORDINATOR"]
    /\ advisor = [u \in Users |-> NoAdvisor]
    /\ student = [u \in Users |-> NoStudent]
    /\ req = [r \in Requests |-> Idle]
    /\ asked = 0 /\ cut = {} /\ lent = {}

-----------------------------------------------------------------------------
(* Creating a user and the profile: two inserts in no transaction.         *)

Begin(r, h) ==
    /\ req[r].pc = "idle" /\ asked < MaxRequests
    /\ asked' = asked + 1
    /\ Become(r, h)
    /\ UNCHANGED <<people, course, cut, lent>>

NewUser(u, as, c) == [Idle EXCEPT !.pc = "create.user", !.user = u, !.role = as, !.course = c]

\* An inactive course may be given one as well.
CreateCoordinator(r, u, c) ==
    /\ course[c] # "none" /\ ActiveHolder(c) = Nobody /\ role[u] = "none"
    /\ Begin(r, NewUser(u, "COORDINATOR", c))

CreateStudent(r, u, g, c) ==
    /\ course[c] # "none" /\ role[u] = "none"
    /\ \A s \in Users : student[s].reg # g
    /\ Begin(r, [NewUser(u, "STUDENT", c) EXCEPT !.reg = g])

\* An administrator names any course or none; a coordinator's own is used.
CreateAdvisor(r, u, c) ==
    /\ role[u] = "none" /\ (c # NoCourse => course[c] # "none")
    /\ Begin(r, NewUser(u, "ADVISOR", c))

CreateAdvisorAs(r, u, k) ==
    /\ coordinator[k].state = "active" /\ coordinator[k].course # NoCourse
    /\ CreateAdvisor(r, u, coordinator[k].course)

AnyEmail(u) == TRUE                                              \* a mutant
EmailIsFree(u) == role[u] = "none"

\* users.email is unique: the loser of two requests ends here.
InsertUser(r) ==
    LET h == req[r] IN
    /\ h.pc = "create.user"
    /\ IF EmailIsFree(h.user)
       THEN /\ role' = [role EXCEPT ![h.user] = h.role]
            /\ Become(r, [h EXCEPT !.pc = "create.profile"])
       ELSE UNCHANGED role /\ Become(r, Idle)
    /\ UNCHANGED <<course, coordinator, advisor, student, asked, cut, lent>>

\* The unique course or registration may be taken since it was looked up, and an
\* inactive holder was not looked for: the user stays, without a profile.
ProfileCollides(h) ==
    \/ h.role = "COORDINATOR" /\ ~SeatFree(h.user, h.course)
    \/ h.role = "STUDENT" /\ \E s \in Users : student[s].reg = h.reg

InsertProfile(r) ==
    LET h == req[r] IN
    /\ h.pc = "create.profile" /\ ~ProfileCollides(h)
    /\ coordinator' = IF h.role = "COORDINATOR"
                      THEN [coordinator EXCEPT
                              ![h.user] = [state |-> "active", course |-> h.course]]
                      ELSE coordinator
    /\ advisor' = IF h.role = "ADVISOR"
                  THEN [advisor EXCEPT ![h.user] = [known |-> TRUE, course |-> h.course]]
                  ELSE advisor
    /\ student' = IF h.role = "STUDENT"
                  THEN [student EXCEPT ![h.user] = [reg |-> h.reg, course |-> h.course]]
                  ELSE student
    /\ Become(r, Idle)
    /\ UNCHANGED <<role, course, asked, cut, lent>>

InsertProfileFails(r) ==
    LET h == req[r] IN
    /\ h.pc = "create.profile" /\ ProfileCollides(h)
    /\ cut' = cut \cup {h.user}
    /\ Become(r, Idle)
    /\ UNCHANGED <<people, course, asked, lent>>

Abort(r) ==
    LET h == req[r] IN
    /\ "abort" \in Faults /\ h.pc # "idle"
    /\ cut' = IF h.pc = "create.profile" THEN cut \cup {h.user} ELSE cut
    /\ Become(r, Idle)
    /\ UNCHANGED <<people, course, asked, lent>>

-----------------------------------------------------------------------------
(* Requests of one write that no other can cross.                          *)

CreateCourse(c) ==
    /\ course[c] = "none"
    /\ \E state \in {"active", "inactive"} : course' = [course EXCEPT ![c] = state]
    /\ UNCHANGED <<people, req, asked, cut, lent>>

Anybody(u) == u \in Users                                        \* a mutant
Enrolled(u) == student[u].reg # NoRegistration
UpdateStudent(u, c) ==
    /\ Enrolled(u) /\ course[c] # "none"
    /\ student' = [student EXCEPT ![u].course = c]
    /\ UNCHANGED <<role, coordinator, advisor, course, req, asked, cut, lent>>

UpdateAdvisor(u, c) ==
    /\ advisor[u].known /\ course[c] # "none"
    /\ advisor' = [advisor EXCEPT ![u].course = c]
    /\ UNCHANGED <<role, coordinator, student, course, req, asked, cut, lent>>

-----------------------------------------------------------------------------
(* UpdateCourseUseCase: a new coordinator, a new status, or both.          *)

\* After the coordinators are settled the course's own row is written.
Settled(h) == [Idle EXCEPT !.pc = "course.save", !.course = h.course, !.active = h.active]
WithStatus(h) ==
    CASE h.ask = "keep" -> Settled(h)
      [] h.ask = "on" -> Settled([h EXCEPT !.active = TRUE])
      [] h.ask = "off" /\ h.held = Nobody -> Settled([h EXCEPT !.active = FALSE])
      [] OTHER -> [h EXCEPT !.pc = "course.holder", !.active = FALSE]

UpdateCourse(r, c, new, ask) ==
    LET h == [Idle EXCEPT !.pc = "course.new", !.course = c, !.user = new, !.ask = ask,
                          !.held = ActiveHolder(c), !.active = course[c] = "active"] IN
    /\ course[c] # "none"
    /\ Begin(r, IF new = Nobody THEN WithStatus(h) ELSE h)

\* assignCoordinator only tells the object in memory, and throws when inactive.
Assigned(h) == IF h.active THEN WithStatus([h EXCEPT !.held = h.user]) ELSE Idle

ValidateNew(r) ==
    LET h == req[r]
        on == [h EXCEPT !.active = @ \/ h.ask = "on"] IN
    /\ h.pc = "course.new"
    /\ Become(r, IF coordinator[h.user].state # "active" THEN Idle
                 ELSE IF h.held \in {Nobody, h.user} THEN Assigned(on)
                 ELSE [on EXCEPT !.pc = "course.previous"])
    /\ UNCHANGED <<people, course, asked, cut, lent>>

DeactivatePrevious(r) ==
    LET h == req[r] IN
    /\ h.pc = "course.previous"
    /\ coordinator' = [coordinator EXCEPT ![h.held] = Deactivated(@)]
    /\ Become(r, Assigned(h))
    /\ UNCHANGED <<role, advisor, student, course, asked, cut, lent>>

\* Deactivating a course takes it from its coordinator, who stays active.
ReadHolder(r) ==
    LET h == req[r] IN
    /\ h.pc = "course.holder"
    /\ Become(r, [h EXCEPT !.pc = "course.remove", !.row = WithoutCourse(coordinator[h.held])])
    /\ UNCHANGED <<people, course, asked, cut, lent>>

RemoveCourse(r) ==
    LET h == req[r] IN
    /\ h.pc = "course.remove"
    /\ coordinator' = [coordinator EXCEPT ![h.held] = h.row]
    /\ Become(r, Settled(h))
    /\ UNCHANGED <<role, advisor, student, course, asked, cut, lent>>

SaveCourse(r) ==
    LET h == req[r] IN
    /\ h.pc = "course.save"
    /\ course' = [course EXCEPT ![h.course] = IF h.active THEN "active" ELSE "inactive"]
    /\ Become(r, Idle)
    /\ UNCHANGED <<people, asked, cut, lent>>

-----------------------------------------------------------------------------
(* UpdateCoordinatorUseCase: another status, another course, or a name.    *)

\* What the row as read becomes; a course is looked up before it is given.
Changed(h) ==
    LET row == h.row
        save(new) == [h EXCEPT !.pc = "coordinator.save", !.row = new]
        give == [h EXCEPT !.pc = "coordinator.course"]
    IN
    CASE h.ask = "off" /\ row.state = "active" -> save(Deactivated(row))
      [] h.ask = "on" /\ row.state = "inactive" ->
            IF h.course = NoCourse THEN Idle ELSE give
      [] h.ask # "off" /\ h.course \notin {NoCourse, row.course} -> give
      [] OTHER -> save(row)

UpdateCoordinator(r, u, ask, c) ==
    /\ coordinator[u].state # "none"
    /\ Begin(r, Changed([Idle EXCEPT !.user = u, !.ask = ask, !.course = c,
                                     !.row = coordinator[u]]))
\* A course is given when it is active and no other active coordinator has it,
\* also to a coordinator who is inactive and stays so.
GiveCourse(r) ==
    LET h == req[r]
        state == IF h.ask = "on" THEN "active" ELSE h.row.state IN
    /\ h.pc = "coordinator.course"
    /\ Become(r, IF course[h.course] = "active" /\ ActiveHolder(h.course) \in {Nobody, h.user}
                 THEN [h EXCEPT !.pc = "coordinator.save",
                                !.row = [state |-> state, course |-> h.course]]
                 ELSE Idle)
    /\ UNCHANGED <<people, course, asked, cut, lent>>

\* Both columns as in memory, whatever was changed; the course is unique.
SaveCoordinator(r) ==
    LET h == req[r] IN
    /\ h.pc = "coordinator.save"
    /\ coordinator' = IF SeatFree(h.user, h.row.course)
                      THEN [coordinator EXCEPT ![h.user] = h.row] ELSE coordinator
    /\ lent' = IF h.row.state = "inactive" /\ h.row.course = h.course /\ h.course # NoCourse
               THEN lent \cup {h.user} ELSE lent
    /\ Become(r, Idle)
    /\ UNCHANGED <<role, advisor, student, course, asked, cut>>

-----------------------------------------------------------------------------
Create(r) ==
    \E u \in Users :
        \/ \E c \in Courses :
              CreateCoordinator(r, u, c) \/ \E g \in Registrations : CreateStudent(r, u, g, c)
        \/ \E c \in Courses \cup {NoCourse} : CreateAdvisor(r, u, c)
        \/ \E k \in Users : CreateAdvisorAs(r, u, k)
Change(r) ==
    \E ask \in {"keep", "on", "off"} :
        \/ \E c \in Courses, new \in Users \cup {Nobody} : UpdateCourse(r, c, new, ask)
        \/ \E c \in Courses \cup {NoCourse}, u \in Users : UpdateCoordinator(r, u, ask, c)
Handle(r) ==
    \/ InsertUser(r) \/ InsertProfile(r) \/ InsertProfileFails(r)
    \/ ValidateNew(r) \/ DeactivatePrevious(r) \/ ReadHolder(r) \/ RemoveCourse(r)
    \/ SaveCourse(r) \/ GiveCourse(r) \/ SaveCoordinator(r)

Next ==
    \/ \E r \in Requests : Create(r) \/ Change(r) \/ Handle(r) \/ Abort(r)
    \/ \E c \in Courses : CreateCourse(c)
    \/ \E u \in Users, c \in Courses : UpdateStudent(u, c) \/ UpdateAdvisor(u, c)

Spec == Init /\ [][Next]_vars

-----------------------------------------------------------------------------
\* A user has a profile in the table of the role and in no other, also after two
\* requests created the same e-mail in two roles at once; one without a profile,
\* who can sign in and is refused everything, is being created or was cut short.
ProfilesMatchRoles ==
    \A u \in Users :
        /\ \A r \in Roles : HasProfile(u, r) => role[u] = r
        /\ role[u] \in Roles =>
              \/ HasProfile(u, role[u]) \/ u \in cut
              \/ \E r \in Requests : req[r].pc = "create.profile" /\ req[r].user = u

\* A course that no active coordinator has can be given to one: nobody who is
\* inactive keeps it, which the unique column would turn into a user without a
\* profile, however updates of courses and of coordinators cross.  The exception
\* is a coordinator who was given it while inactive.
SeatsCanBeFilled ==
    \A c \in Courses : ActiveHolder(c) = Nobody => HolderOf(c) \subseteq lent
=============================================================================
