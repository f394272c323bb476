--------------------------- MODULE DefenseLifecycle ---------------------------
(***************************************************************************)
(* The defenses table: creating, moving, canceling and grading a defense.  *)
(*                                                                         *)
(* Every handler reads the row, changes it in memory and writes the WHOLE  *)
(* row back; between its awaits other requests run.  Version 1 of the      *)
(* document and a later createVersion appear only as what they do to the   *)
(* defense (DocumentApproval has the rest).  Title, place, examining board,*)
(* access checks and e-mail are left out; a date is a day.                 *)
(***************************************************************************)
EXTENDS Naturals, FiniteSets

CONSTANTS
    Defenses,     \* ids of the defenses that may be created
    NoDefense,    \* the id a request to create one addresses
    Students,
    Grades,       \* grades the coordinator gives
    Requests,     \* request slots: how many handlers may be in flight
    LastDay,      \* bound on the days, and on the dates asked for
    MaxRequests,  \* bound on the requests made
    Faults        \* {"abort"} when a handler may stop between two awaits

Days == 0..LastDay

ASSUME IdsAssumption == NoDefense \notin Defenses
ASSUME GradesAssumption == Grades \subseteq 0..10
ASSUME BoundsAssumption ==
    LastDay \in Nat /\ MaxRequests \in Nat /\ Faults \subseteq {"abort"}

VARIABLES
    rows,      \* defenses table
    team,      \* the students of each defense
    documents, \* defenses with version 1 of a document
    events,    \* kinds of event the history of each defense has
    today,
    asked,     \* requests made so far (only to bound them)
    req,       \* the handler each slot is running
    crossed    \* auxiliary: the defenses of which two handlers were in flight
               \* at a time, and NoDefense when two requests to create one were

vars == <<rows, team, documents, events, today, asked, req, crossed>>

-----------------------------------------------------------------------------
NoGrade == 11    \* finalGrade is null
Row == [status : {"none", "SCHEDULED", "CANCELED", "COMPLETED"},
        result : {"PENDING", "APPROVED", "FAILED"},
        grade : 0..10 \cup {NoGrade},
        date : Days]
NoRow == [status |-> "none", result |-> "PENDING", grade |-> NoGrade, date |-> 0]

Created(day) == [NoRow EXCEPT !.status = "SCHEDULED", !.date = day]
DayAfter(row, day) == [row EXCEPT !.date = day + 1]               \* a mutant
Moved(row, day) == [row EXCEPT !.date = day]
StatusOnly(row) == [row EXCEPT !.status = "CANCELED"]            \* a mutant
Canceled(row) == [row EXCEPT !.status = "CANCELED", !.result = "FAILED", !.grade = 0]
ResultOf(g) == IF g >= 7 THEN "APPROVED" ELSE "FAILED"
Graded(row, g) ==
    [row EXCEPT !.status = "COMPLETED", !.result = ResultOf(g), !.grade = g]

Open(d) == rows[d].status \in {"SCHEDULED", "CANCELED"}           \* a mutant
Scheduled(d) == rows[d].status = "SCHEDULED"
NotCanceled(row) == row.status # "CANCELED"                      \* a mutant
NotCompleted(row) == row.status # "COMPLETED"

\* hasActiveDefense: of this student, not canceled, pending or approved.
Active(d) == rows[d].status \notin {"none", "CANCELED"} /\ rows[d].result # "FAILED"
ApprovedDefense(s) == \E d \in Defenses :                        \* a mutant
    s \in team[d] /\ Active(d) /\ rows[d].result = "APPROVED"
HasActiveDefense(s) == \E d \in Defenses : s \in team[d] /\ Active(d)

Handler ==
    [pc : {"idle", "create.check", "update.save", "reschedule.save", "reschedule.event",
           "cancel.save", "cancel.event", "submit.create", "submit.save", "regrade.save"},
     defense : Defenses \cup {NoDefense},
     row : Row,                      \* the row to write
     students : SUBSET Students,     \* of the defense to create
     todo : SUBSET Students]         \* those still to check
Idle == [pc |-> "idle", defense |-> NoDefense, row |-> NoRow, students |-> {}, todo |-> {}]

Become(r, h) == req' = [req EXCEPT ![r] = h]
InFlight(d) == {r \in Requests : req[r].pc # "idle" /\ req[r].defense = d}

\* A request arrives.
Begin(r, h) ==
    /\ req[r].pc = "idle" /\ asked < MaxRequests
    /\ asked' = asked + 1
    /\ Become(r, h)
    /\ crossed' = IF InFlight(h.defense) = {} THEN crossed ELSE crossed \cup {h.defense}
    /\ UNCHANGED <<rows, team, documents, events, today>>
About(d, pc, row) == [Idle EXCEPT !.pc = pc, !.defense = d, !.row = row]

\* The row of a handler is written; the handler goes on at pc, or ends.
Save(r, pc) ==
    /\ rows' = [rows EXCEPT ![req[r].defense] = req[r].row]
    /\ Become(r, IF pc = "idle" THEN Idle ELSE [req[r] EXCEPT !.pc = pc])
    /\ UNCHANGED <<team, documents, events, today, asked, crossed>>

TypeOK ==
    /\ rows \in [Defenses -> Row]
    /\ team \in [Defenses -> SUBSET Students]
    /\ documents \subseteq Defenses
    /\ events \in [Defenses -> SUBSET {"CANCELED", "RESCHEDULED"}]
    /\ today \in Days /\ asked \in 0..MaxRequests
    /\ req \in [Requests -> Handler]
    /\ crossed \subseteq Defenses \cup {NoDefense}

Init ==
    /\ rows = [d \in Defenses |-> NoRow]
    /\ team = [d \in Defenses |-> {}]
    /\ documents = {}
    /\ events = [d \in Defenses |-> {}]
    /\ today = 0 /\ asked = 0
    /\ req = [r \in Requests |-> Idle]
    /\ crossed = {}

-----------------------------------------------------------------------------
(* CreateDefenseUseCase: one query per student, then the insert.           *)

CreateBegin(r, S, day) ==
    /\ Cardinality(S) \in {1, 2}
    /\ Begin(r, [Idle EXCEPT !.pc = "create.check", !.row = Created(day),
                             !.students = S, !.todo = S])

CreateCheck(r) ==
    /\ req[r].pc = "create.check"
    /\ \E s \in req[r].todo :
          Become(r, IF HasActiveDefense(s) THEN Idle ELSE [req[r] EXCEPT !.todo = @ \ {s}])
    /\ UNCHANGED <<rows, team, documents, events, today, asked, crossed>>

\* Defenses bounds the model: a request beyond it stays where it is.
CreateSave(r) ==
    /\ req[r].pc = "create.check" /\ req[r].todo = {}
    /\ \E d \in Defenses :
          /\ rows[d].status = "none"
          /\ rows' = [rows EXCEPT ![d] = req[r].row]
          /\ team' = [team EXCEPT ![d] = req[r].students]
    /\ Become(r, Idle)
    /\ UNCHANGED <<documents, events, today, asked, crossed>>

-----------------------------------------------------------------------------
(* UpdateDefenseUseCase, RescheduleDefenseUseCase, CancelDefenseUseCase.   *)

UpdateBegin(r, d, day) ==
    /\ rows[d].status # "none"
    /\ Begin(r, About(d, "update.save", Moved(rows[d], day)))
UpdateSave(r) == req[r].pc = "update.save" /\ Save(r, "idle")

RescheduleBegin(r, d, day) ==
    /\ rows[d].status # "none" /\ NotCompleted(rows[d])
    /\ Begin(r, About(d, "reschedule.save", Moved(rows[d], day)))
RescheduleSave(r) == req[r].pc = "reschedule.save" /\ Save(r, "reschedule.event")

CancelBegin(r, d) ==
    /\ rows[d].status # "none" /\ NotCompleted(rows[d])
    /\ Begin(r, About(d, "cancel.save", Canceled(rows[d])))
CancelSave(r) == req[r].pc = "cancel.save" /\ Save(r, "cancel.event")

RecordEvent(r, pc, kind) ==
    /\ req[r].pc = pc
    /\ events' = [events EXCEPT ![req[r].defense] = @ \cup {kind}]
    /\ Become(r, Idle)
    /\ UNCHANGED <<rows, team, documents, today, asked, crossed>>

-----------------------------------------------------------------------------
(* SubmitDefenseResultUseCase: the document, then the grade; and the grade *)
(* a createVersion request brings (updateDefenseGrade), whatever the       *)
(* status of the defense.                                                  *)

SubmitBegin(r, d, g) ==
    /\ Scheduled(d) /\ today >= rows[d].date
    /\ Begin(r, About(d, "submit.create", Graded(rows[d], g)))

\* (defenseId, version) is unique.
SubmitCreate(r) ==
    LET d == req[r].defense IN
    /\ req[r].pc = "submit.create"
    /\ Become(r, IF d \in documents THEN Idle ELSE [req[r] EXCEPT !.pc = "submit.save"])
    /\ documents' = documents \cup {d}
    /\ UNCHANGED <<rows, team, events, today, asked, crossed>>

SubmitSave(r) == req[r].pc = "submit.save" /\ Save(r, "idle")

Exists(d) == rows[d].status # "none"                             \* a mutant
Versioned(d) == d \in documents
RegradeBegin(r, d, g) ==
    /\ Versioned(d)
    /\ Begin(r, About(d, "regrade.save", Graded(rows[d], g)))
RegradeSave(r) == req[r].pc = "regrade.save" /\ Save(r, "idle")

-----------------------------------------------------------------------------
Tick ==
    /\ today < LastDay
    /\ today' = today + 1
    /\ UNCHANGED <<rows, team, documents, events, asked, req, crossed>>

\* A database or storage error, or the process restarting.
Abort(r) ==
    /\ "abort" \in Faults
    /\ req[r].pc # "idle"
    /\ Become(r, Idle)
    /\ UNCHANGED <<rows, team, documents, events, today, asked, crossed>>

Arrive(r) ==
    \/ \E S \in SUBSET Students, day \in Days : CreateBegin(r, S, day)
    \/ \E d \in Defenses :
          \/ CancelBegin(r, d)
          \/ \E day \in Days : UpdateBegin(r, d, day) \/ RescheduleBegin(r, d, day)
          \/ \E g \in Grades : SubmitBegin(r, d, g) \/ RegradeBegin(r, d, g)
Continue(r) ==
    \/ CreateCheck(r) \/ CreateSave(r)
    \/ UpdateSave(r)
    \/ RescheduleSave(r) \/ RecordEvent(r, "reschedule.event", "RESCHEDULED")
    \/ CancelSave(r) \/ RecordEvent(r, "cancel.event", "CANCELED")
    \/ SubmitCreate(r) \/ SubmitSave(r) \/ RegradeSave(r)

Next == Tick \/ \E r \in Requests : Arrive(r) \/ Continue(r) \/ Abort(r)

Spec == Init /\ [][Next]_vars
-----------------------------------------------------------------------------
Consistent(row) ==
    /\ row.status = "COMPLETED" => row.grade \in Grades /\ row.result = ResultOf(row.grade)
    /\ row.status = "CANCELED" => row.grade = 0 /\ row.result = "FAILED"
    /\ row.status \in {"none", "SCHEDULED"} => row.grade = NoGrade /\ row.result = "PENDING"

\* Status, result and grade of a defense always belong together, although each
\* handler writes all three from a row it read earlier: a SCHEDULED defense is
\* ungraded, a CANCELED one FAILED with 0, a COMPLETED one has the result its
\* grade gives.
RowsConsistent == \A d \in Defenses : Consistent(rows[d])

\* A defense is COMPLETED only with the document its grade was submitted with.
CompletedHasDocument ==
    \A d \in Defenses : rows[d].status = "COMPLETED" => d \in documents

\* A student has one SCHEDULED defense at most, as long as no two requests about
\* those defenses, or to create one, were in flight at a time ("Estudante já
\* possui uma defesa ativa").
OneScheduledDefense ==
    \A d, e \in Defenses : d # e /\ Scheduled(d) /\ Scheduled(e) =>
        \/ team[d] \cap team[e] = {}
        \/ crossed \cap {d, e, NoDefense} # {}

\* A COMPLETED defense stays COMPLETED ("Não é possível cancelar defesas já
\* concluídas", nor to reschedule one), unless two requests about it crossed.
CompletedStaysCompleted ==
    [][\A d \in Defenses : rows[d].status = "COMPLETED" =>
          rows'[d].status = "COMPLETED" \/ d \in crossed']_vars

\* A defense with a cancellation in its history gets no document any more and
\* stays CANCELED, unless two requests about it crossed, or a submission that
\* stopped half-way had left it a document, which a createVersion request grades.
CanceledForGood ==
    [][\A d \in Defenses : "CANCELED" \in events[d] =>
          \/ d \in crossed' \cup documents
          \/ rows'[d].status = "CANCELED" /\ d \notin documents']_vars
=============================================================================
