------------------------ MODULE DefenseLifecycleProofs ------------------------
(***************************************************************************)
(* Theorems about DefenseLifecycle that hold for any number of defenses,   *)
(* students, grades and handlers in flight.                                *)
(*                                                                         *)
(* The argument: a handler writes back a row it read earlier, so the       *)
(* invariant says of the row every handler carries what it says of the     *)
(* table (HandlerOK).  As long as no two handlers about a defense crossed, *)
(* the one in flight is alone (Alone), so the row it read is still the one *)
(* in the table (SyncOK), and what it checked still holds when it writes.  *)
(* A student is checked before the insert by a handler of its own kind, of *)
(* which OInv says what it found (CheckedOK).                              *)
(***************************************************************************)
EXTENDS DefenseLifecycle, TLAPS

\* What the row a handler is to write looks like.
HandlerOK(h) == h.pc # "idle" =>
    /\ Consistent(h.row) /\ h.row.status # "none"
    /\ h.pc = "create.check" => h.defense = NoDefense /\ h.row.status = "SCHEDULED"
    /\ h.pc # "create.check" => h.defense \in Defenses /\ rows[h.defense].status # "none"
    /\ h.row.status = "COMPLETED" /\ h.pc # "submit.create" => h.defense \in documents
    /\ h.pc \in {"submit.create", "submit.save", "regrade.save"} =>
          h.row.status = "COMPLETED"
    /\ h.pc = "cancel.save" => h.row.status = "CANCELED"

\* What a handler that no other crossed knows of the row in the table.
UpToDate(h) ==
    /\ h.pc \in {"update.save", "reschedule.save"} => h.row.status = rows[h.defense].status
    /\ h.pc = "cancel.save" => rows[h.defense].status # "COMPLETED"
    /\ h.pc = "cancel.event" => rows[h.defense].status = "CANCELED"
    /\ h.pc = "submit.create" => rows[h.defense].status = "SCHEDULED"
SyncOK(h) == h.pc # "idle" /\ h.defense \notin crossed => UpToDate(h)

Alone(r, q) ==
    /\ req[r].pc # "idle" /\ req[q].pc # "idle"
    /\ req[r].defense = req[q].defense /\ req[r].defense \notin crossed
    => r = q

CancellationStands(d) ==
    "CANCELED" \in events[d] => d \in crossed \cup documents \/ rows[d].status = "CANCELED"

IInv ==
    /\ TypeOK
    /\ RowsConsistent
    /\ CompletedHasDocument
    /\ \A d \in documents : rows[d].status # "none"
    /\ \A r \in Requests : HandlerOK(req[r])
    /\ \A r \in Requests : SyncOK(req[r])
    /\ \A r, q \in Requests : Alone(r, q)
    /\ \A d \in Defenses : CancellationStands(d)

USE IdsAssumption, GradesAssumption, BoundsAssumption

-----------------------------------------------------------------------------
(* Rows and handlers.                                                      *)

LEMMA CreatedLemma ==
    ASSUME NEW day \in Days
    PROVE  Created(day) \in Row /\ Consistent(Created(day)) /\ Created(day).status = "SCHEDULED"
<1>1. /\ Created(day).status = "SCHEDULED" /\ Created(day).result = "PENDING"
      /\ Created(day).grade = NoGrade
  BY DEF Created, NoRow
<1>2. Created(day) \in Row
  BY DEF Created, NoRow, Row, Days
<1>3. Consistent(Created(day))
  BY <1>1 DEF Consistent
<1> QED
  BY <1>1, <1>2, <1>3

LEMMA MovedLemma ==
    ASSUME NEW row \in Row, NEW day \in Days, Consistent(row)
    PROVE  /\ Moved(row, day) \in Row /\ Consistent(Moved(row, day))
           /\ Moved(row, day).status = row.status
BY DEF Row, Moved, Consistent

LEMMA CanceledLemma ==
    ASSUME NEW row \in Row
    PROVE  /\ Canceled(row) \in Row /\ Consistent(Canceled(row))
           /\ Canceled(row).status = "CANCELED"
<1>1. /\ Canceled(row).status = "CANCELED" /\ Canceled(row).result = "FAILED"
      /\ Canceled(row).grade = 0
  BY DEF Row, Canceled
<1>2. 0 \in 0..10 \cup {NoGrade}
  OBVIOUS
<1>3. Canceled(row) \in Row
  BY <1>2 DEF Row, Canceled
<1>4. Consistent(Canceled(row))
  BY <1>1 DEF Consistent
<1> QED
  BY <1>1, <1>3, <1>4

LEMMA GradedLemma ==
    ASSUME NEW row \in Row, NEW g \in Grades
    PROVE  /\ Graded(row, g) \in Row /\ Consistent(Graded(row, g))
           /\ Graded(row, g).status = "COMPLETED"
<1>1. /\ Graded(row, g).status = "COMPLETED" /\ Graded(row, g).result = ResultOf(g)
      /\ Graded(row, g).grade = g
  BY DEF Row, Graded
<1>2. ResultOf(g) \in {"PENDING", "APPROVED", "FAILED"} /\ g \in 0..10 \cup {NoGrade}
  BY DEF ResultOf
<1>3. Graded(row, g) \in Row
  BY <1>2 DEF Row, Graded
<1>4. Consistent(Graded(row, g))
  BY <1>1 DEF Consistent
<1> QED
  BY <1>1, <1>3, <1>4

LEMMA IdleLemma == Idle \in Handler /\ NoRow \in Row /\ Consistent(NoRow) /\ Idle.pc = "idle"
BY DEF Idle, Handler, NoRow, Row, NoGrade, Consistent, Days

LEMMA AboutLemma ==
    ASSUME NEW d \in Defenses, NEW row \in Row,
           NEW pc \in {"update.save", "reschedule.save", "cancel.save",
                       "submit.create", "regrade.save"}
    PROVE  /\ About(d, pc, row) \in Handler
           /\ About(d, pc, row).pc = pc
           /\ About(d, pc, row).defense = d
           /\ About(d, pc, row).row = row
BY DEF About, Idle, Handler

LEMMA InitHolds == Init => IInv
<1> SUFFICES ASSUME Init PROVE IInv
  OBVIOUS
<1>1. TypeOK
  BY IdleLemma DEF Init, TypeOK, Days
<1>2. RowsConsistent /\ CompletedHasDocument
  BY IdleLemma DEF Init, RowsConsistent, CompletedHasDocument, NoRow
<1>3. \A r \in Requests : req[r].pc = "idle"
  BY IdleLemma DEF Init
<1>4. \A d \in Defenses : CancellationStands(d)
  BY DEF Init, CancellationStands
<1> QED
  BY <1>1, <1>2, <1>3, <1>4 DEF IInv, HandlerOK, SyncOK, Alone, Init

-----------------------------------------------------------------------------
(* A request arrives.                                                      *)

LEMMA BeginKeeps ==
    ASSUME IInv, NEW r \in Requests, NEW h \in Handler, h.pc # "idle",
           HandlerOK(h), UpToDate(h), Begin(r, h)
    PROVE  IInv'
<1> USE DEF IInv
<1>1. req' = [req EXCEPT ![r] = h] /\ req \in [Requests -> Handler]
  BY DEF Begin, Become, TypeOK
<1>2. crossed \subseteq crossed' /\ crossed' \subseteq crossed \cup {h.defense}
  BY DEF Begin
<1>3. TypeOK'
  BY <1>1, <1>2 DEF Begin, TypeOK, Handler
<1>4. \A q \in Requests : HandlerOK(req[q])'
  BY <1>1 DEF Begin, HandlerOK
<1>5. \A q \in Requests : SyncOK(req[q])'
  BY <1>1, <1>2 DEF Begin, SyncOK, UpToDate
<1>6. ASSUME NEW q \in Requests, NEW p \in Requests PROVE Alone(q, p)'
  <2>1. CASE q # r /\ p # r
    BY <1>1, <1>2, <2>1 DEF Alone
  <2>2. CASE q = r \/ p = r
    BY <1>1, <2>2 DEF Alone, Begin, InFlight
  <2> QED
    BY <2>1, <2>2
<1>7. \A d \in Defenses : CancellationStands(d)'
  BY <1>2 DEF Begin, CancellationStands
<1> QED
  BY <1>3, <1>4, <1>5, <1>6, <1>7 DEF Begin, RowsConsistent, CompletedHasDocument

LEMMA ArriveKeeps ==
    ASSUME IInv, NEW r \in Requests, Arrive(r)
    PROVE  IInv'
<1> USE DEF IInv
<1>1. ASSUME NEW S \in SUBSET Students, NEW day \in Days, CreateBegin(r, S, day)
      PROVE  IInv'
  <2> DEFINE h == [Idle EXCEPT !.pc = "create.check", !.row = Created(day),
                               !.students = S, !.todo = S]
  <2>1. Created(day) \in Row /\ Consistent(Created(day)) /\ Created(day).status = "SCHEDULED"
    BY CreatedLemma
  <2>2. h \in Handler /\ h.pc = "create.check" /\ h.defense = NoDefense
        /\ h.row = Created(day)
    BY <2>1 DEF Idle, Handler
  <2>3. HandlerOK(h) /\ UpToDate(h)
    BY <2>1, <2>2 DEF HandlerOK, UpToDate
  <2>4. Begin(r, h)
    BY <1>1 DEF CreateBegin
  <2> QED
    BY <2>2, <2>3, <2>4, BeginKeeps
<1>2. ASSUME NEW d \in Defenses, NEW day \in Days, NEW pc \in {"update.save", "reschedule.save"},
             rows[d].status # "none", Begin(r, About(d, pc, Moved(rows[d], day)))
      PROVE  IInv'
  <2>1. /\ Moved(rows[d], day) \in Row /\ Consistent(Moved(rows[d], day))
        /\ Moved(rows[d], day).status = rows[d].status
    BY MovedLemma DEF TypeOK, RowsConsistent
  <2>2. /\ HandlerOK(About(d, pc, Moved(rows[d], day)))
        /\ UpToDate(About(d, pc, Moved(rows[d], day)))
    BY <1>2, <2>1, AboutLemma DEF HandlerOK, UpToDate, CompletedHasDocument
  <2> QED
    BY <1>2, <2>1, <2>2, AboutLemma, BeginKeeps
<1>3. ASSUME NEW d \in Defenses, CancelBegin(r, d) PROVE IInv'
  <2>1. /\ Canceled(rows[d]) \in Row /\ Consistent(Canceled(rows[d]))
        /\ Canceled(rows[d]).status = "CANCELED"
    BY CanceledLemma DEF TypeOK
  <2>2. /\ HandlerOK(About(d, "cancel.save", Canceled(rows[d])))
        /\ UpToDate(About(d, "cancel.save", Canceled(rows[d])))
    BY <1>3, <2>1, AboutLemma DEF HandlerOK, UpToDate, CancelBegin, NotCompleted
  <2> QED
    BY <1>3, <2>1, <2>2, AboutLemma, BeginKeeps DEF CancelBegin
<1>4. ASSUME NEW d \in Defenses, NEW g \in Grades, NEW pc \in {"submit.create", "regrade.save"},
             pc = "submit.create" => rows[d].status = "SCHEDULED",
             pc = "regrade.save" => d \in documents,
             Begin(r, About(d, pc, Graded(rows[d], g)))
      PROVE  IInv'
  <2>1. /\ Graded(rows[d], g) \in Row /\ Consistent(Graded(rows[d], g))
        /\ Graded(rows[d], g).status = "COMPLETED"
    BY GradedLemma DEF TypeOK
  <2>2. /\ HandlerOK(About(d, pc, Graded(rows[d], g)))
        /\ UpToDate(About(d, pc, Graded(rows[d], g)))
    BY <1>4, <2>1, AboutLemma DEF HandlerOK, UpToDate
  <2> QED
    BY <1>4, <2>1, <2>2, AboutLemma, BeginKeeps
<1> QED
  BY <1>1, <1>2, <1>3, <1>4
  DEF Arrive, UpdateBegin, RescheduleBegin, SubmitBegin, RegradeBegin, Scheduled, Versioned

-----------------------------------------------------------------------------
(* A handler goes on.                                                      *)

LEMMA SaveKeeps ==
    ASSUME IInv, NEW r \in Requests,
           NEW next \in {"idle", "reschedule.event", "cancel.event"},
           req[r].pc \in {"update.save", "reschedule.save", "cancel.save",
                          "submit.save", "regrade.save"},
           next = "cancel.event" => req[r].pc = "cancel.save",
           Save(r, next)
    PROVE  /\ IInv'
           /\ \A d \in Defenses : rows[d].status = "COMPLETED" =>
                 rows'[d].status = "COMPLETED" \/ d \in crossed
           /\ \A d \in Defenses : "CANCELED" \in events[d] =>
                 d \in crossed \cup documents \/ rows'[d].status = "CANCELED"
<1> USE DEF IInv
<1> DEFINE e == req[r].defense
           h == IF next = "idle" THEN Idle ELSE [req[r] EXCEPT !.pc = next]
<1>1. /\ req' = [req EXCEPT ![r] = h] /\ rows' = [rows EXCEPT ![e] = req[r].row]
      /\ UNCHANGED <<team, documents, events, today, asked, crossed>>
  BY DEF Save, Become
<1>2. /\ req \in [Requests -> Handler] /\ rows \in [Defenses -> Row]
      /\ e \in Defenses /\ req[r].row \in Row /\ Consistent(req[r].row)
      /\ req[r].row.status # "none" /\ req[r].pc # "idle"
      /\ req[r].row.status = "COMPLETED" => e \in documents
  BY DEF TypeOK, HandlerOK, Handler
<1>3. /\ h \in Handler /\ h.pc = next
      /\ next # "idle" => h.defense = e /\ h.row = req[r].row
  BY <1>2, IdleLemma DEF Handler
<1>4. /\ req[r].pc = "cancel.save" => req[r].row.status = "CANCELED"
      /\ req[r].pc \in {"submit.save", "regrade.save"} =>
            req[r].row.status = "COMPLETED" /\ e \in documents
      /\ req[r].pc \in {"update.save", "reschedule.save"} /\ e \notin crossed =>
            req[r].row.status = rows[e].status
      /\ req[r].pc = "cancel.save" /\ e \notin crossed => rows[e].status # "COMPLETED"
  BY <1>2 DEF HandlerOK, SyncOK, UpToDate
<1>5. TypeOK'
  BY <1>1, <1>2, <1>3 DEF TypeOK
<1>6. RowsConsistent' /\ CompletedHasDocument' /\ \A d \in documents' : rows'[d].status # "none"
  BY <1>1, <1>2 DEF RowsConsistent, CompletedHasDocument, Consistent, TypeOK
<1>7. ASSUME NEW q \in Requests PROVE HandlerOK(req[q])'
  <2>1. CASE q = r
    BY <1>1, <1>2, <1>3, <2>1 DEF HandlerOK, Consistent
  <2>2. CASE q # r
    BY <1>1, <1>2, <2>2 DEF HandlerOK, Consistent
  <2> QED
    BY <2>1, <2>2
<1>8. ASSUME NEW q \in Requests PROVE SyncOK(req[q])'
  <2>1. CASE q = r
    BY <1>1, <1>2, <1>3, <1>4, <2>1 DEF SyncOK, UpToDate
  <2>2. CASE q # r /\ req[q].pc # "idle" /\ req[q].defense = e
    BY <1>1, <1>2, <2>2 DEF SyncOK, Alone
  <2>3. CASE q # r /\ (req[q].pc = "idle" \/ req[q].defense # e)
    BY <1>1, <1>2, <2>3 DEF SyncOK, UpToDate
  <2> QED
    BY <2>1, <2>2, <2>3
<1>9. \A q, p \in Requests : Alone(q, p)'
  BY <1>1, <1>2, <1>3 DEF Alone
<1>10. \A d \in Defenses : rows[d].status = "COMPLETED" =>
          rows'[d].status = "COMPLETED" \/ d \in crossed
  BY <1>1, <1>2, <1>4
<1>11. \A d \in Defenses : "CANCELED" \in events[d] =>
          d \in crossed \cup documents \/ rows'[d].status = "CANCELED"
  BY <1>1, <1>2, <1>4 DEF CancellationStands
<1>12. \A d \in Defenses : CancellationStands(d)'
  BY <1>1, <1>11 DEF CancellationStands
<1> QED
  BY <1>5, <1>6, <1>7, <1>8, <1>9, <1>10, <1>11, <1>12

\* A handler that ends, or goes on to check another student.
LEMMA QuietKeeps ==
    ASSUME IInv, NEW r \in Requests, NEW h \in Handler,
           req' = [req EXCEPT ![r] = h],
           h.pc = "idle" \/ /\ h.pc = req[r].pc /\ h.defense = req[r].defense
                            /\ h.row = req[r].row,
           UNCHANGED <<rows, team, documents, events, today, asked, crossed>>
    PROVE  IInv'
<1> USE DEF IInv
<1>1. TypeOK'
  BY DEF TypeOK
<1>2. req \in [Requests -> Handler]
  BY DEF TypeOK
<1>3. \A q \in Requests : HandlerOK(req[q])' /\ SyncOK(req[q])'
  BY <1>2 DEF HandlerOK, SyncOK, UpToDate
<1>4. \A q, p \in Requests : Alone(q, p)'
  BY <1>2 DEF Alone
<1> QED
  BY <1>1, <1>3, <1>4 DEF RowsConsistent, CompletedHasDocument, CancellationStands

LEMMA CreateSaveKeeps ==
    ASSUME IInv, NEW r \in Requests, CreateSave(r)
    PROVE  /\ IInv'
           /\ \A d \in Defenses : rows[d].status # "none" => rows'[d] = rows[d]
           /\ UNCHANGED documents
<1> USE DEF IInv
<1>1. PICK d \in Defenses : /\ rows[d].status = "none"
                            /\ rows' = [rows EXCEPT ![d] = req[r].row]
                            /\ team' = [team EXCEPT ![d] = req[r].students]
  BY DEF CreateSave
<1>2. /\ req' = [req EXCEPT ![r] = Idle] /\ req[r].pc = "create.check"
      /\ UNCHANGED <<documents, events, today, asked, crossed>>
  BY DEF CreateSave, Become
<1>3. /\ req \in [Requests -> Handler] /\ rows \in [Defenses -> Row]
      /\ req[r].row \in Row /\ req[r].students \in SUBSET Students
      /\ Consistent(req[r].row) /\ req[r].row.status = "SCHEDULED"
  BY <1>2 DEF TypeOK, HandlerOK, Handler
<1>4. TypeOK'
  BY <1>1, <1>2, <1>3, IdleLemma DEF TypeOK
<1>5. RowsConsistent' /\ CompletedHasDocument' /\ \A x \in documents' : rows'[x].status # "none"
  BY <1>1, <1>2, <1>3 DEF RowsConsistent, CompletedHasDocument, TypeOK
<1>6. \A x \in Defenses : rows[x].status # "none" => rows'[x] = rows[x]
  BY <1>1, <1>3
<1>7. \A q \in Requests : req'[q] = req[q] \/ req'[q].pc = "idle"
  BY <1>2, <1>3, IdleLemma
<1>8. \A q \in Requests : HandlerOK(req[q])'
  BY <1>2, <1>6, <1>7 DEF HandlerOK
<1>9. \A q \in Requests : SyncOK(req[q])'
  BY <1>2, <1>6, <1>7 DEF SyncOK, UpToDate, HandlerOK
<1>10. \A q, p \in Requests : Alone(q, p)'
  BY <1>2, <1>7 DEF Alone
<1>11. \A x \in Defenses : CancellationStands(x)'
  BY <1>2, <1>6 DEF CancellationStands
<1> QED
  BY <1>2, <1>4, <1>5, <1>6, <1>8, <1>9, <1>10, <1>11

LEMMA RecordEventKeeps ==
    ASSUME IInv, NEW r \in Requests,
           NEW pc \in {"reschedule.event", "cancel.event"},
           NEW kind \in {"RESCHEDULED", "CANCELED"},
           kind = "CANCELED" => pc = "cancel.event",
           RecordEvent(r, pc, kind)
    PROVE  IInv'
<1> USE DEF IInv
<1> DEFINE e == req[r].defense
<1>1. /\ req' = [req EXCEPT ![r] = Idle] /\ req[r].pc = pc
      /\ events' = [events EXCEPT ![e] = @ \cup {kind}]
      /\ UNCHANGED <<rows, team, documents, today, asked, crossed>>
  BY DEF RecordEvent, Become
<1>2. /\ req \in [Requests -> Handler] /\ e \in Defenses
      /\ events \in [Defenses -> SUBSET {"CANCELED", "RESCHEDULED"}]
  BY <1>1 DEF TypeOK, HandlerOK
<1>3. TypeOK'
  BY <1>1, <1>2, IdleLemma DEF TypeOK
<1>4. \A q \in Requests : req'[q] = req[q] \/ req'[q].pc = "idle"
  BY <1>1, <1>2, IdleLemma
<1>5. \A q \in Requests : HandlerOK(req[q])' /\ SyncOK(req[q])'
  BY <1>1, <1>4 DEF HandlerOK, SyncOK, UpToDate
<1>6. \A q, p \in Requests : Alone(q, p)'
  BY <1>1, <1>4 DEF Alone
<1>7. kind = "CANCELED" => e \in crossed \/ rows[e].status = "CANCELED"
  BY <1>1 DEF SyncOK, UpToDate
<1>8. \A d \in Defenses : CancellationStands(d)'
  BY <1>1, <1>2, <1>7 DEF CancellationStands
<1> QED
  BY <1>1, <1>3, <1>5, <1>6, <1>8 DEF RowsConsistent, CompletedHasDocument

LEMMA SubmitCreateKeeps ==
    ASSUME IInv, NEW r \in Requests, SubmitCreate(r)
    PROVE  /\ IInv'
           /\ \A d \in Defenses : "CANCELED" \in events[d] =>
                 d \in crossed \cup documents \/ d \notin documents'
<1> USE DEF IInv
<1> DEFINE e == req[r].defense
           h == IF e \in documents THEN Idle ELSE [req[r] EXCEPT !.pc = "submit.save"]
<1>1. /\ req' = [req EXCEPT ![r] = h] /\ req[r].pc = "submit.create"
      /\ documents' = documents \cup {e}
      /\ UNCHANGED <<rows, team, events, today, asked, crossed>>
  BY DEF SubmitCreate, Become
<1>2. /\ req \in [Requests -> Handler] /\ e \in Defenses /\ rows[e].status # "none"
      /\ Consistent(req[r].row) /\ req[r].row.status = "COMPLETED"
      /\ e \notin crossed => rows[e].status = "SCHEDULED"
  BY <1>1 DEF TypeOK, HandlerOK, SyncOK, UpToDate
<1>3. /\ h \in Handler
      /\ h.pc = "idle" \/ /\ h.pc = "submit.save" /\ h.defense = e /\ h.row = req[r].row
  BY <1>2, IdleLemma DEF Handler
<1>4. TypeOK'
  BY <1>1, <1>2, <1>3 DEF TypeOK
<1>5. \A q \in Requests : HandlerOK(req[q])'
  BY <1>1, <1>2, <1>3 DEF HandlerOK
<1>6. \A q \in Requests : SyncOK(req[q])'
  BY <1>1, <1>2, <1>3 DEF SyncOK, UpToDate
<1>7. \A q, p \in Requests : Alone(q, p)'
  BY <1>1, <1>2, <1>3 DEF Alone
<1>8. \A d \in Defenses : "CANCELED" \in events[d] =>
         d \in crossed \cup documents \/ d \notin documents'
  BY <1>1, <1>2 DEF CancellationStands
<1>9. \A d \in Defenses : CancellationStands(d)'
  BY <1>1 DEF CancellationStands
<1> QED
  BY <1>1, <1>2, <1>4, <1>5, <1>6, <1>7, <1>8, <1>9 DEF RowsConsistent, CompletedHasDocument

-----------------------------------------------------------------------------
(* Every step.                                                             *)

\* What a step may do to a row and to the documents, by the invariant.
StepOK ==
    /\ \A d \in Defenses : rows[d].status = "COMPLETED" =>
          rows'[d].status = "COMPLETED" \/ d \in crossed'
    /\ \A d \in Defenses : "CANCELED" \in events[d] =>
          \/ d \in crossed' \cup documents
          \/ rows'[d].status = "CANCELED" /\ d \notin documents'

LEMMA StandsStill ==
    ASSUME IInv, UNCHANGED <<rows, documents>>, crossed \subseteq crossed'
    PROVE  StepOK
BY DEF IInv, CancellationStands, StepOK

LEMMA ContinueKeeps ==
    ASSUME IInv, NEW r \in Requests, Continue(r)
    PROVE  IInv' /\ StepOK
<1>1. CASE CreateCheck(r)
  <2>1. PICK s \in req[r].todo :
           Become(r, IF HasActiveDefense(s) THEN Idle ELSE [req[r] EXCEPT !.todo = @ \ {s}])
    BY <1>1 DEF CreateCheck
  <2> DEFINE h == IF HasActiveDefense(s) THEN Idle ELSE [req[r] EXCEPT !.todo = @ \ {s}]
  <2>2. req[r] \in Handler
    BY DEF IInv, TypeOK
  <2>3. h \in Handler /\ (h.pc = "idle" \/ /\ h.pc = req[r].pc /\ h.defense = req[r].defense
                                           /\ h.row = req[r].row)
    BY <2>2, IdleLemma DEF Handler
  <2>4. req' = [req EXCEPT ![r] = h]
        /\ UNCHANGED <<rows, team, documents, events, today, asked, crossed>>
    BY <1>1, <2>1 DEF CreateCheck, Become
  <2> QED
    BY <2>3, <2>4, QuietKeeps, StandsStill
<1>2. CASE CreateSave(r)
  <2>1. /\ IInv' /\ \A d \in Defenses : rows[d].status # "none" => rows'[d] = rows[d]
        /\ UNCHANGED <<documents, crossed>>
    BY <1>2, CreateSaveKeeps DEF CreateSave
  <2> QED
    BY <2>1 DEF IInv, CancellationStands, StepOK
<1>3. CASE UpdateSave(r) \/ RescheduleSave(r) \/ CancelSave(r) \/ SubmitSave(r) \/ RegradeSave(r)
  <2>1. UNCHANGED <<documents, crossed>>
    BY <1>3 DEF UpdateSave, RescheduleSave, CancelSave, SubmitSave, RegradeSave, Save
  <2>2. /\ IInv'
        /\ \A d \in Defenses : rows[d].status = "COMPLETED" =>
              rows'[d].status = "COMPLETED" \/ d \in crossed
        /\ \A d \in Defenses : "CANCELED" \in events[d] =>
              d \in crossed \cup documents \/ rows'[d].status = "CANCELED"
    BY <1>3, SaveKeeps DEF UpdateSave, RescheduleSave, CancelSave, SubmitSave, RegradeSave
  <2> QED
    BY <2>1, <2>2 DEF StepOK
<1>4. CASE RecordEvent(r, "reschedule.event", "RESCHEDULED")
           \/ RecordEvent(r, "cancel.event", "CANCELED")
  <2>1. IInv'
    BY <1>4, RecordEventKeeps
  <2>2. UNCHANGED <<rows, documents, crossed>>
    BY <1>4 DEF RecordEvent
  <2> QED
    BY <2>1, <2>2, StandsStill
<1>5. CASE SubmitCreate(r)
  <2>1. UNCHANGED <<rows, crossed>>
    BY <1>5 DEF SubmitCreate
  <2> QED
    BY <1>5, <2>1, SubmitCreateKeeps DEF IInv, CancellationStands, StepOK
<1> QED
  BY <1>1, <1>2, <1>3, <1>4, <1>5 DEF Continue

LEMMA NextKeeps == IInv /\ [Next]_vars => IInv' /\ (StepOK \/ UNCHANGED vars)
<1> SUFFICES ASSUME IInv, [Next]_vars PROVE IInv' /\ (StepOK \/ UNCHANGED vars)
  OBVIOUS
<1>1. CASE Tick
  <2>1. /\ today' \in Days
        /\ UNCHANGED <<rows, team, documents, events, asked, req, crossed>>
    BY <1>1 DEF Tick, IInv, TypeOK, Days
  <2>2. IInv'
    BY <2>1 DEF IInv, TypeOK, RowsConsistent, CompletedHasDocument, HandlerOK, SyncOK,
                UpToDate, Alone, CancellationStands
  <2> QED
    BY <2>1, <2>2, StandsStill
<1>2. ASSUME NEW r \in Requests, Arrive(r) PROVE IInv' /\ StepOK
  <2>1. UNCHANGED <<rows, documents>> /\ crossed \subseteq crossed'
    BY <1>2 DEF Arrive, CreateBegin, CancelBegin, UpdateBegin, RescheduleBegin, SubmitBegin,
                RegradeBegin, Begin
  <2> QED
    BY <1>2, <2>1, ArriveKeeps, StandsStill
<1>3. ASSUME NEW r \in Requests, Abort(r) PROVE IInv' /\ StepOK
  <2>1. req' = [req EXCEPT ![r] = Idle]
        /\ UNCHANGED <<rows, team, documents, events, today, asked, crossed>>
    BY <1>3 DEF Abort, Become
  <2> QED
    BY <2>1, IdleLemma, QuietKeeps, StandsStill
<1>4. CASE UNCHANGED vars
  BY <1>4 DEF vars, IInv, TypeOK, RowsConsistent, CompletedHasDocument, HandlerOK, SyncOK,
              UpToDate, Alone, CancellationStands
<1> QED
  BY <1>1, <1>2, <1>3, <1>4, ContinueKeeps DEF Next

\* IInv holds in every reachable state, however the handlers interleave.
THEOREM Inductive == Spec => []IInv
<1>1. IInv /\ [Next]_vars => IInv'
  BY NextKeeps
<1> QED
  BY <1>1, InitHolds, PTL DEF Spec

-----------------------------------------------------------------------------
(* The theorems.                                                           *)

\* Every table and every handler in flight keeps its type.
THEOREM TypeCorrect == Spec => []TypeOK
<1>1. IInv => TypeOK
  BY DEF IInv
<1> QED
  BY <1>1, Inductive, PTL

\* Status, result and grade belong together, however stale the rows written.
THEOREM RowsStayConsistent == Spec => []RowsConsistent
<1>1. IInv => RowsConsistent
  BY DEF IInv
<1> QED
  BY <1>1, Inductive, PTL

\* A COMPLETED defense has the document its grade was submitted with.
THEOREM CompletedIsDocumented == Spec => []CompletedHasDocument
<1>1. IInv => CompletedHasDocument
  BY DEF IInv
<1> QED
  BY <1>1, Inductive, PTL

\* Only requests about one defense that crossed can undo its result.
THEOREM ResultStays == Spec => CompletedStaysCompleted
<1>1. IInv /\ [Next]_vars =>
        [\A d \in Defenses : rows[d].status = "COMPLETED" =>
            rows'[d].status = "COMPLETED" \/ d \in crossed']_vars
  BY NextKeeps DEF StepOK
<1> QED
  BY <1>1, Inductive, PTL DEF Spec, CompletedStaysCompleted

\* Only requests about one defense that crossed, or a submission that had
\* stopped half-way, can undo its cancellation.
THEOREM CancellationStays == Spec => CanceledForGood
<1>1. IInv /\ [Next]_vars =>
        [\A d \in Defenses : "CANCELED" \in events[d] =>
            \/ d \in crossed' \cup documents
            \/ rows'[d].status = "CANCELED" /\ d \notin documents']_vars
  BY NextKeeps DEF StepOK
<1> QED
  BY <1>1, Inductive, PTL DEF Spec, CanceledForGood

-----------------------------------------------------------------------------
(* One SCHEDULED defense per student.  Between the query for a student and  *)
(* the insert nothing becomes SCHEDULED: a stale row brings a status back   *)
(* only where two handlers crossed, and another insert only when two        *)
(* requests to create a defense did.                                        *)

CheckedOK(h) == h.pc = "create.check" /\ NoDefense \notin crossed =>
    \A s \in h.students \ h.todo, e \in Defenses :
        s \in team[e] /\ Scheduled(e) => e \in crossed

OInv == IInv /\ OneScheduledDefense /\ \A r \in Requests : CheckedOK(req[r])

\* A student is counted as checked by this step, or was so before.
Checked(q, s) ==
    \/ req[q].pc = "create.check" /\ s \in req[q].students \ req[q].todo
    \/ ~HasActiveDefense(s)

\* A step that schedules no defense and checks students, if anything.
LEMMA NothingScheduled ==
    ASSUME OInv, IInv', UNCHANGED team, crossed \subseteq crossed',
           \A e \in Defenses : rows'[e].status = "SCHEDULED" =>
              rows[e].status = "SCHEDULED" \/ e \in crossed',
           \A q \in Requests : req'[q].pc = "create.check" =>
              \A s \in req'[q].students \ req'[q].todo : Checked(q, s)
    PROVE  OInv'
<1>1. OneScheduledDefense'
  BY DEF OInv, OneScheduledDefense, Scheduled
<1>2. \A s \in Students, e \in Defenses :
         ~HasActiveDefense(s) /\ s \in team[e] => ~Scheduled(e)
  BY DEF OInv, IInv, RowsConsistent, Consistent, HasActiveDefense, Active, Scheduled
<1>3. ASSUME NEW q \in Requests PROVE CheckedOK(req[q])'
  <2> SUFFICES ASSUME req'[q].pc = "create.check", NoDefense \notin crossed',
                      NEW s \in req'[q].students \ req'[q].todo, NEW e \in Defenses,
                      s \in team[e], rows'[e].status = "SCHEDULED", e \notin crossed'
               PROVE  FALSE
    BY DEF CheckedOK, Scheduled
  <2>1. s \in Students
    BY DEF IInv, TypeOK, Handler
  <2>2. rows[e].status = "SCHEDULED" /\ e \notin crossed /\ NoDefense \notin crossed
    OBVIOUS
  <2>3. CASE ~HasActiveDefense(s)
    BY <1>2, <2>1, <2>2, <2>3 DEF Scheduled
  <2>4. CASE req[q].pc = "create.check" /\ s \in req[q].students \ req[q].todo
    BY <2>2, <2>4 DEF OInv, CheckedOK, Scheduled
  <2> QED
    BY <2>3, <2>4 DEF Checked
<1> QED
  BY <1>1, <1>3 DEF OInv

\* A defense is inserted after its students were checked, one after the other.
LEMMA CreateSaveOne ==
    ASSUME OInv, IInv', NEW r \in Requests, CreateSave(r)
    PROVE  OInv'
<1>1. IInv /\ OneScheduledDefense /\ \A q \in Requests : CheckedOK(req[q])
  BY DEF OInv
<1>2. PICK d \in Defenses : /\ rows[d].status = "none"
                            /\ rows' = [rows EXCEPT ![d] = req[r].row]
                            /\ team' = [team EXCEPT ![d] = req[r].students]
  BY DEF CreateSave
<1>3. /\ req' = [req EXCEPT ![r] = Idle] /\ req[r].pc = "create.check" /\ req[r].todo = {}
      /\ UNCHANGED crossed
  BY DEF CreateSave, Become
<1>4. /\ req \in [Requests -> Handler]
      /\ team'[d] = req[r].students
      /\ \A e \in Defenses : e # d => team'[e] = team[e] /\ rows'[e] = rows[e]
  BY <1>1, <1>2 DEF IInv, TypeOK
<1>5. \A s \in req[r].students, e \in Defenses :
         s \in team[e] /\ Scheduled(e) => crossed \cap {e, NoDefense} # {}
  BY <1>1, <1>3 DEF CheckedOK
<1>6. OneScheduledDefense'
  <2> SUFFICES ASSUME NEW x \in Defenses, NEW y \in Defenses, x # y,
                      Scheduled(x)', Scheduled(y)', crossed \cap {x, y, NoDefense} = {}
               PROVE  team'[x] \cap team'[y] = {}
    BY <1>3 DEF OneScheduledDefense
  <2>1. CASE x # d /\ y # d
    BY <1>1, <1>4, <2>1 DEF OneScheduledDefense, Scheduled
  <2>2. CASE x = d
    BY <1>4, <1>5, <2>2 DEF Scheduled
  <2>3. CASE y = d
    BY <1>4, <1>5, <2>3 DEF Scheduled
  <2> QED
    BY <2>1, <2>2, <2>3
<1>7. ASSUME NEW q \in Requests PROVE CheckedOK(req[q])'
  <2>1. CASE q = r
    BY <1>3, <1>4, <2>1, IdleLemma DEF CheckedOK
  <2>2. CASE q # r /\ req[q].pc = "create.check"
    <3>1. req[q].defense = NoDefense /\ req[r].defense = NoDefense
      BY <1>1, <1>3, <2>2 DEF IInv, HandlerOK
    <3>2. NoDefense \in crossed
      BY <1>1, <1>3, <2>2, <3>1 DEF IInv, Alone
    <3> QED
      BY <1>3, <3>2 DEF CheckedOK
  <2>3. CASE q # r /\ req[q].pc # "create.check"
    BY <1>3, <1>4, <2>3 DEF CheckedOK
  <2> QED
    BY <2>1, <2>2, <2>3
<1> QED
  BY <1>6, <1>7 DEF OInv

\* The other steps of a handler: it ends, or is no longer creating, or checks.
LEMMA ContinueOne ==
    ASSUME OInv, IInv', NEW r \in Requests, Continue(r) \/ Abort(r)
    PROVE  OInv'
<1>1. IInv /\ req \in [Requests -> Handler]
  BY DEF OInv, IInv, TypeOK
<1>2. ASSUME NEW h, Become(r, h), UNCHANGED <<team, crossed>>,
             \A e \in Defenses : rows'[e].status = "SCHEDULED" =>
                rows[e].status = "SCHEDULED" \/ e \in crossed',
             h.pc = "create.check" => \A s \in h.students \ h.todo : Checked(r, s)
      PROVE  OInv'
  <2>1. req'[r] = h /\ \A q \in Requests : q # r => req'[q] = req[q]
    BY <1>1, <1>2 DEF Become
  <2>2. \A q \in Requests : req'[q].pc = "create.check" =>
              \A s \in req'[q].students \ req'[q].todo : Checked(q, s)
    BY <1>2, <2>1 DEF Checked
  <2> QED
    BY <1>2, <2>2, NothingScheduled
<1>3. CASE CreateCheck(r)
  <2>1. PICK s \in req[r].todo :
           Become(r, IF HasActiveDefense(s) THEN Idle ELSE [req[r] EXCEPT !.todo = @ \ {s}])
    BY <1>3 DEF CreateCheck
  <2>2. UNCHANGED <<rows, team, crossed>> /\ req[r].pc = "create.check" /\ req[r] \in Handler
    BY <1>1, <1>3 DEF CreateCheck
  <2>3. CASE HasActiveDefense(s)
    BY <1>2, <2>1, <2>2, <2>3, IdleLemma
  <2>4. CASE ~HasActiveDefense(s)
    <3> DEFINE h == [req[r] EXCEPT !.todo = @ \ {s}]
    <3>1. h.students = req[r].students /\ h.todo = req[r].todo \ {s}
      BY <2>2 DEF Handler
    <3>2. Become(r, h)
      BY <2>1, <2>4
    <3>3. \A x \in h.students \ h.todo : Checked(r, x)
      BY <2>2, <2>4, <3>1 DEF Checked
    <3> HIDE DEF h
    <3> QED
      BY <1>2, <2>2, <3>2, <3>3
  <2> QED
    BY <2>3, <2>4
<1>4. CASE UpdateSave(r) \/ RescheduleSave(r) \/ CancelSave(r) \/ SubmitSave(r) \/ RegradeSave(r)
  <2>1. PICK next \in {"idle", "reschedule.event", "cancel.event"} : Save(r, next)
    BY <1>4 DEF UpdateSave, RescheduleSave, CancelSave, SubmitSave, RegradeSave
  <2> DEFINE h == IF next = "idle" THEN Idle ELSE [req[r] EXCEPT !.pc = next]
  <2>2. /\ Become(r, h) /\ UNCHANGED <<team, crossed>>
        /\ rows' = [rows EXCEPT ![req[r].defense] = req[r].row]
    BY <2>1 DEF Save
  <2>3. h.pc # "create.check"
    BY <1>1, <2>1, IdleLemma DEF Handler
  <2>4. req[r].row.status = "SCHEDULED" =>
           rows[req[r].defense].status = "SCHEDULED" \/ req[r].defense \in crossed
    BY <1>1, <1>4 DEF IInv, HandlerOK, SyncOK, UpToDate, UpdateSave, RescheduleSave,
       CancelSave, SubmitSave, RegradeSave
  <2>5. \A e \in Defenses : rows'[e].status = "SCHEDULED" =>
           rows[e].status = "SCHEDULED" \/ e \in crossed'
    BY <1>1, <2>2, <2>4 DEF IInv, TypeOK
  <2> HIDE DEF h
  <2> QED
    BY <1>2, <2>2, <2>3, <2>5
<1>5. CASE Abort(r) \/ RecordEvent(r, "reschedule.event", "RESCHEDULED")
           \/ RecordEvent(r, "cancel.event", "CANCELED")
  BY <1>2, <1>5, IdleLemma DEF Abort, RecordEvent
<1>6. CASE SubmitCreate(r)
  <2> DEFINE h == IF req[r].defense \in documents THEN Idle
                  ELSE [req[r] EXCEPT !.pc = "submit.save"]
  <2>1. Become(r, h) /\ UNCHANGED <<rows, team, crossed>>
    BY <1>6 DEF SubmitCreate
  <2>2. h.pc # "create.check"
    BY <1>1, IdleLemma DEF Handler
  <2> HIDE DEF h
  <2> QED
    BY <1>2, <2>1, <2>2
<1> QED
  BY <1>3, <1>4, <1>5, <1>6, CreateSaveOne DEF Continue

LEMMA ArriveOne ==
    ASSUME OInv, IInv', NEW r \in Requests, Arrive(r)
    PROVE  OInv'
<1>1. PICK h : /\ Begin(r, h)
               /\ h.pc # "create.check" \/ h.students = h.todo
  <2>1. ASSUME NEW S \in SUBSET Students, NEW day \in Days, CreateBegin(r, S, day)
        PROVE  \E h : Begin(r, h) /\ (h.pc # "create.check" \/ h.students = h.todo)
    <3> DEFINE h == [Idle EXCEPT !.pc = "create.check", !.row = Created(day),
                                 !.students = S, !.todo = S]
    <3>1. Begin(r, h) /\ h.students = S /\ h.todo = S
      BY <2>1 DEF CreateBegin, Idle
    <3> QED
      BY <3>1
  <2>2. ASSUME NEW d \in Defenses, NEW row, NEW pc, pc # "create.check",
               Begin(r, About(d, pc, row))
        PROVE  \E h : Begin(r, h) /\ (h.pc # "create.check" \/ h.students = h.todo)
    <3>1. About(d, pc, row).pc = pc
      BY DEF About, Idle
    <3> QED
      BY <2>2, <3>1
  <2> QED
    BY <2>1, <2>2 DEF Arrive, UpdateBegin, RescheduleBegin, CancelBegin, SubmitBegin,
       RegradeBegin
<1>2. /\ req' = [req EXCEPT ![r] = h] /\ UNCHANGED <<rows, team>>
      /\ crossed \subseteq crossed'
  BY <1>1 DEF Begin, Become
<1>3. req \in [Requests -> Handler]
  BY DEF OInv, IInv, TypeOK
<1>4. \A q \in Requests : req'[q].pc = "create.check" =>
              \A s \in req'[q].students \ req'[q].todo : Checked(q, s)
  BY <1>1, <1>2, <1>3 DEF Checked
<1> QED
  BY <1>2, <1>4, NothingScheduled

\* A student has one SCHEDULED defense at most, unless requests about those
\* defenses, or to create one, crossed.
THEOREM OneScheduled == Spec => []OneScheduledDefense
<1>1. Init => OInv
  <2> SUFFICES ASSUME Init PROVE OInv
    OBVIOUS
  <2>1. OneScheduledDefense
    BY DEF Init, OneScheduledDefense
  <2>2. \A r \in Requests : CheckedOK(req[r])
    BY IdleLemma DEF Init, CheckedOK
  <2> QED
    BY <2>1, <2>2, InitHolds DEF OInv
<1>2. OInv /\ [Next]_vars => OInv'
  <2> SUFFICES ASSUME OInv, [Next]_vars PROVE OInv'
    OBVIOUS
  <2>1. IInv'
    BY NextKeeps DEF OInv
  <2>2. CASE UNCHANGED <<rows, team, req, crossed>>
    BY <2>1, <2>2 DEF OInv, OneScheduledDefense, CheckedOK, Scheduled
  <2> QED
    BY <2>1, <2>2, ArriveOne, ContinueOne DEF Next, Tick, vars
<1>3. OInv => OneScheduledDefense
  BY DEF OInv
<1> QED
  BY <1>1, <1>2, <1>3, PTL DEF Spec

===============================================================================
