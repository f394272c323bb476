------------------------ MODULE DocumentSafetyProofs ------------------------
(***************************************************************************)
(* Theorems about DocumentApproval for any number of handlers in flight:   *)
(* the safety of the ledger and of the versions and the steps of           *)
(* DocumentRegistry, whatever fails and wherever a handler stops, for any  *)
(* set of students, files, grades and versions.  They hold as long as no   *)
(* two handlers that Collide have met; everything else may overlap.        *)
(*                                                                         *)
(* The argument: a version all of whose rows are APPROVED keeps them so,   *)
(* for nothing approves, rejects, overrides or resets it any more.  A      *)
(* version on the ledger and an INACTIVE one are such versions, so every   *)
(* handler that writes rows or files works on one that is PENDING and has  *)
(* no record yet, and only the latest version is PENDING.  What a handler  *)
(* has read is still so when it writes (Current): every write of another   *)
(* handler that could have made it stale is of a handler it collides with. *)
(***************************************************************************)
EXTENDS DocumentApprovalProofs

HasRecord(v) == \E i \in 1..Len(ledger) : ledger[i].doc = v

\* A version that is open: PENDING, and not on the ledger.
Unrecorded(v) == docs[v].status = "PENDING" /\ ~HasRecord(v)

CoordinatorIn(rows) == rows[Coordinator].status = "APPROVED"
NotProcessed(row) == row.status \in {"PENDING", "REJECTED"}

\* The properties without their exemption.
OneRecord == \A i, j \in 1..Len(ledger) : ledger[i].doc = ledger[j].doc => i = j
GradeInForce ==
    \A v \in Versions : docs[v].status = "APPROVED" => ledger[docs[v].tx].grade = grade
RowsInOrder(rows) ==
    CoordinatorIn(rows) => \A a \in Approvers : Exists(rows, a) =>
        \/ rows[a].status = "APPROVED"
        \/ a = Advisor /\ CoordIsAdvisor
CoordinatorLast == \A v \in Versions : RowsInOrder(appr[v])
LatestIsOpen ==
    \A v, w \in Versions : v < w /\ docs[w] # NoDoc => docs[v].status = "INACTIVE"

\* What the tables and the ledger say of each other.
Recorded ==
    /\ \A i \in 1..Len(ledger) :
          /\ HasAllRows(appr[ledger[i].doc]) /\ AllApproved(appr[ledger[i].doc])
          /\ ledger[i].content = docs[ledger[i].doc].content
    /\ OneRecord
    /\ GradeInForce
Versioned ==
    /\ LatestIsOpen
    /\ \A v \in Versions : docs[v].status = "INACTIVE" => IsFullyApproved(appr[v])

\* What a handler in flight has read or decided is still so.
\* An approval, a rejection or an override of rows that are still open.
RowsLeft(h) == IF h.pc = "approve.advisor" THEN h.todo ELSE RowsOf(h)
ReviewOK(h) ==
    /\ \A a \in RowsLeft(h) : NotProcessed(appr[h.doc][a])
    /\ h.pc \in {"reject.save", "override.save"} => h.who # Coordinator
    /\ h.pc \in {"approve.document", "approve.approvals"} => h.todo = {}
    /\ h.pc = "approve.approvals" => h.who = Coordinator
    /\ h.pc = "approve.sign" =>
          h.todo \subseteq {Advisor} /\ (h.who # Coordinator => h.todo = {})
    /\ h.pc = "approve.advisor" => h.todo = {Advisor}
    /\ h.pc = "approve.sign" /\ h.who = Coordinator => CoordinatorMayApprove(appr[h.doc])
    /\ HoldsFiles(h) => h.content = docs[h.doc].content

\* The making of a version.
VersionOK(h) ==
    /\ Revises(h) => h.read = docs[h.doc]
    /\ h.pc = "version.replace" => Unrecorded(h.doc)
    /\ h.pc = "version.inactivate" => IsFullyApproved(appr[h.doc])
    /\ h.pc = "version.create" => docs[h.doc].status = "INACTIVE"

\* The creation of rows, and their reset.
Creates(h) == h.pc = "submit.grade" \/ (h.pc = "create.rows" /\ h.todo # {})
WriterOK(h) ==
    /\ Resets(h) => Unrecorded(h.doc)
    /\ Resets(h) /\ h.pc = "reset.write" =>
          /\ \A a \in h.todo : Exists(appr[h.doc], a)
          /\ Coordinator \in h.todo \/ ~CoordinatorIn(appr[h.doc])
    /\ Creates(h) => docs[h.doc].status = "PENDING"
    /\ h.pc = "submit.grade" => \A a \in Approvers : ~Exists(appr[h.doc], a)
    /\ Creates(h) /\ h.pc = "create.rows" =>
          /\ \A a \in h.todo : ~Exists(appr[h.doc], a)
          /\ ~CoordinatorIn(appr[h.doc])

\* A registration, and the grade it is made with.
RegisterOK(h) ==
    /\ Registers(h) /\ h.pc # "register.save" => Unrecorded(h.doc)
    /\ h.pc \in {"register.document", "register.defense", "register.submit"} =>
          h.rows = appr[h.doc] /\ AllApproved(h.rows)
    /\ h.pc \in {"register.defense", "register.submit"} => h.read = docs[h.doc]
    /\ h.pc = "register.submit" => h.grade = grade
    /\ h.pc = "register.save" =>
          /\ docs[h.doc].status = "PENDING"
          /\ h.read.status = "APPROVED" /\ h.read.content = docs[h.doc].content
          /\ ledger[h.read.tx].grade = grade
GradeOK(h) ==
    GradeToWrite(h) => \A v \in Versions : docs[v].status # "APPROVED"

Current(h) == ReviewOK(h) /\ VersionOK(h) /\ WriterOK(h) /\ RegisterOK(h) /\ GradeOK(h)

\* No two handlers in flight are of the kinds that collide, and the rows of a
\* version are created by one.
Apart ==
    \A q, r \in Requests : q # r =>
        /\ ~Collide(req[q], req[r])
        /\ Creates(req[q]) /\ Creates(req[r]) => req[q].doc # req[r].doc

SInv ==
    /\ IInv /\ Recorded /\ Versioned /\ CoordinatorLast /\ Apart
    /\ \A r \in Requests : Current(req[r])

-----------------------------------------------------------------------------
(* What the invariant says of one version.                                 *)

LEMMA EntryLemma ==
    ASSUME IInv
    PROVE  \A i \in 1..Len(ledger) : ledger[i] \in Record /\ ledger[i].doc \in Versions
<1>1. ledger \in Seq(Record)
  BY DEF IInv, StateOK
<1>2. \A i \in 1..Len(ledger) : ledger[i] \in Record
  BY <1>1
<1> QED
  BY <1>2 DEF Record

LEMMA CoordinatorApproves ==
    /\ Coordinator \in Approvers /\ Advisor \in Approvers /\ Coordinator # Advisor
    /\ Coordinator \notin Students /\ Advisor \notin Students
BY ApproversAssumption DEF Approvers

\* A version with a row that is not APPROVED has no record and is in no end state.
LEMMA NotFullyApproved ==
    ASSUME SInv, NEW v \in Versions, Full(docs[v]), ~IsFullyApproved(appr[v])
    PROVE  Unrecorded(v)
<1>1. ~HasRecord(v)
  BY CoordinatorApproves DEF SInv, Recorded, HasRecord, IsFullyApproved, HasAllRows
<1>2. docs[v] \in DocRow /\ TxOK(v, docs[v], ledger)
  BY DEF SInv, IInv, StateOK, DocOK
<1>3. docs[v].status # "APPROVED"
  BY <1>1, <1>2 DEF TxOK, HasRecord
<1>4. docs[v].status # "INACTIVE"
  BY DEF SInv, Versioned
<1> QED
  BY <1>1, <1>2, <1>3, <1>4 DEF Full, DocRow, Unrecorded

LEMMA OpenRow ==
    ASSUME SInv, NEW v \in Versions, NEW a \in Approvers, NotProcessed(appr[v][a])
    PROVE  /\ Unrecorded(v) /\ Exists(appr[v], a)
           /\ ~AllApproved(appr[v]) /\ ~IsFullyApproved(appr[v])
<1>1. Full(docs[v]) /\ Exists(appr[v], a) /\ appr[v][a].status # "APPROVED"
  BY DEF SInv, IInv, RowOK, NotProcessed, Exists
<1>2. ~AllApproved(appr[v]) /\ ~IsFullyApproved(appr[v])
  BY <1>1 DEF IsFullyApproved, AllApproved
<1> QED
  BY <1>1, <1>2, NotFullyApproved

\* A version with a row that is still missing has no record.
LEMMA MissingRow ==
    ASSUME SInv, NEW v \in Versions, NEW a \in Approvers, ~Exists(appr[v], a)
    PROVE  ~HasRecord(v)
BY DEF SInv, Recorded, HasRecord, HasAllRows

\* A PENDING version is the latest, and no version is in force beside it.
LEMMA PendingIsLatest ==
    ASSUME SInv, NEW v \in Versions, docs[v].status = "PENDING"
    PROVE  /\ \A w \in Versions : w > v => docs[w] = NoDoc
           /\ \A w \in Versions : docs[w].status # "APPROVED"
<1>1. \A w \in Versions : w > v => docs[w] = NoDoc
  BY DEF SInv, Versioned, LatestIsOpen, Versions
<1>2. docs[v] # NoDoc /\ NoDoc.status = "none"
  BY DEF NoDoc
<1>3. \A w \in Versions : w < v => docs[w].status = "INACTIVE"
  BY <1>2 DEF SInv, Versioned, LatestIsOpen
<1>4. \A w \in Versions : w < v \/ w = v \/ w > v
  BY DEF Versions
<1> QED
  BY <1>1, <1>2, <1>3, <1>4

\* A version that does not exist has no rows, no record and no successor.
LEMMA AbsentVersion ==
    ASSUME SInv, NEW v \in Versions, docs[v] = NoDoc
    PROVE  /\ ~HasRecord(v)
           /\ \A a \in Approvers : appr[v][a].status = "none"
           /\ \A w \in Versions : w > v => docs[w] = NoDoc
<1>1. NoDoc.status = "none"
  BY DEF NoDoc
<1>2. \A a \in Approvers : appr[v][a].status = "none"
  BY <1>1 DEF SInv, IInv, RowOK, Full
<1>3. ~HasRecord(v)
  BY <1>2, CoordinatorApproves, MissingRow DEF Exists
<1>4. \A w \in Versions : w > v => docs[w] = NoDoc
  BY <1>1 DEF SInv, Versioned, LatestIsOpen, Versions
<1> QED
  BY <1>2, <1>3, <1>4

LEMMA EarlierInactive ==
    ASSUME SInv, NEW v \in Versions, docs[v] # NoDoc
    PROVE  \A w \in Versions : w < v => docs[w].status = "INACTIVE"
BY DEF SInv, Versioned, LatestIsOpen

-----------------------------------------------------------------------------
(* What a step has to show.                                                *)

LEMMA KnownSafe ==
    ASSUME SInv, NEW r \in Requests
    PROVE  /\ IInv /\ Current(req[r])
           /\ req[r] \in Handler /\ HandlerOK(req[r], docs, ledger)
           /\ req[r].doc \in Versions /\ req[r].who \in Approvers
           /\ req[r].todo \subseteq Approvers
<1>1. IInv /\ Current(req[r])
  BY DEF SInv
<1>2. req[r] \in Handler /\ HandlerOK(req[r], docs, ledger)
  BY <1>1, Known
<1> QED
  BY <1>1, <1>2 DEF Handler

\* The handler k is in flight beside the one in slot r.
Beside(k, r) ==
    /\ k \in Handler /\ HandlerOK(k, docs, ledger) /\ Current(k)
    /\ ~Collide(k, req[r]) /\ ~Collide(req[r], k)
    /\ Creates(k) /\ Creates(req[r]) => k.doc # req[r].doc

\* The two still do not collide after the step.
StaysApart(k, h) == ~Collide(k, h) /\ ~Collide(h, k)

LEMMA StepsApart ==
    ASSUME IInv, NEW r \in Requests, NEW h, Become(r, h), ~crossed'
    PROVE  /\ req'[r] = h
           /\ \A q \in Requests \ {r} : req'[q] = req[q] /\ StaysApart(req[q], h)
<1>1. req'[r] = h /\ \A q \in Requests \ {r} : req'[q] = req[q]
  BY DEF IInv, StateOK, Become
<1>2. \A q \in Requests \ {r} : ~Collide(req[q], h) /\ ~Collide(h, req[q])
  BY DEF Become
<1> QED
  BY <1>1, <1>2 DEF StaysApart

LEMMA SafeStep ==
    ASSUME SInv, IInv', NEW r \in Requests, NEW h \in Handler, Become(r, h), ~crossed',
           Recorded', Versioned', CoordinatorLast', Current(h)',
           \A k \in Handler : Beside(k, r) /\ StaysApart(k, h) => Current(k)',
           \A k \in Handler : Beside(k, r) /\ Creates(k) /\ Creates(h) => k.doc # h.doc
    PROVE  SInv'
<1>1. /\ req'[r] = h
      /\ \A q \in Requests \ {r} : req'[q] = req[q] /\ StaysApart(req[q], h)
  BY StepsApart DEF SInv
<1>2. \A q \in Requests \ {r} : req[q] \in Handler /\ Beside(req[q], r)
  BY KnownSafe DEF SInv, Apart, Beside
<1>3. \A q \in Requests : Current(req[q])'
  <2> TAKE q \in Requests
  <2>1. CASE q = r
    <3>1. req'[q] = h
      BY <1>1, <2>1
    <3> QED
      BY <3>1 DEF Current, ReviewOK, VersionOK, WriterOK, RegisterOK, GradeOK
  <2>2. CASE q # r
    <3>1. PICK k \in Handler : k = req[q]
      BY <1>2, <2>2
    <3>2. Current(k)' /\ req'[q] = k
      BY <1>1, <1>2, <2>2, <3>1
    <3> QED
      BY <3>2 DEF Current, ReviewOK, VersionOK, WriterOK, RegisterOK, GradeOK
  <2> QED
    BY <2>1, <2>2
<1>4. Apart'
  <2> SUFFICES ASSUME NEW q \in Requests, NEW s \in Requests, q # s
               PROVE  /\ ~Collide(req'[q], req'[s])
                      /\ Creates(req'[q]) /\ Creates(req'[s]) => req'[q].doc # req'[s].doc
    BY DEF Apart
  <2>1. CASE q = r
    BY <1>1, <1>2, <2>1 DEF StaysApart
  <2>2. CASE s = r
    BY <1>1, <1>2, <2>2 DEF StaysApart
  <2>3. CASE q # r /\ s # r
    BY <1>1, <2>3 DEF SInv, Apart
  <2> QED
    BY <2>1, <2>2, <2>3
<1> QED
  BY <1>3, <1>4 DEF SInv

\* What concerns a handler did not change.
LEMMA Untouched ==
    ASSUME NEW k \in Handler, Current(k),
           docs'[k.doc] = docs[k.doc], appr'[k.doc] = appr[k.doc],
           HasRecord(k.doc)' => HasRecord(k.doc),
           k.pc = "register.submit" => grade' = grade,
           k.pc = "register.save" =>
               grade' = grade /\ ledger'[k.read.tx].grade = ledger[k.read.tx].grade,
           GradeToWrite(k) =>
               \A w \in Versions : docs'[w].status = "APPROVED" => docs[w].status = "APPROVED"
    PROVE  Current(k)'
<1>1. ReviewOK(k)'
  BY DEF Current, ReviewOK
<1>2. VersionOK(k)'
  BY DEF Current, VersionOK, Unrecorded
<1>3. WriterOK(k)'
  BY DEF Current, WriterOK, Unrecorded
<1>4. RegisterOK(k)'
  BY DEF Current, RegisterOK, Unrecorded
<1>5. GradeOK(k)'
  BY DEF Current, GradeOK
<1> QED
  BY <1>1, <1>2, <1>3, <1>4, <1>5 DEF Current

\* A step that writes nothing.
LEMMA ReadStepSafe ==
    ASSUME SInv, IInv', NEW r \in Requests, NEW h \in Handler, Become(r, h), ~crossed',
           UNCHANGED <<docs, appr, grade, ledger>>, Current(h),
           Creates(h) => Creates(req[r]) /\ h.doc = req[r].doc
    PROVE  SInv'
<1>1. IInv /\ Recorded /\ Versioned /\ CoordinatorLast
  BY DEF SInv
<1>2. Recorded'
  BY <1>1 DEF Recorded, OneRecord, GradeInForce
<1>3. Versioned'
  BY <1>1 DEF Versioned, LatestIsOpen
<1>4. CoordinatorLast'
  BY <1>1 DEF CoordinatorLast
<1>5. \A k \in Handler : Current(k) => Current(k)'
  BY Untouched DEF HasRecord
<1> QED
  BY <1>1, <1>2, <1>3, <1>4, <1>5, SafeStep DEF Beside

LEMMA IdleCurrent == Current(Idle) /\ Current(Idle)' /\ ~Creates(Idle)
<1>1. Idle.pc = "idle" /\ RowsLeft(Idle) = {}
  BY IdleFields DEF RowsLeft, RowsOf, HoldsFiles
<1> QED
  BY <1>1 DEF Current, ReviewOK, VersionOK, WriterOK, RegisterOK, GradeOK, HoldsFiles, Revises,
     Resets, Registers, Commits, Creates, GradeToWrite

LEMMA EndsSafe ==
    ASSUME SInv, IInv', NEW r \in Requests, Become(r, Idle), ~crossed',
           UNCHANGED <<docs, appr, grade, ledger>>
    PROVE  SInv'
BY IdleCurrent, IdleType, ReadStepSafe

\* A step that writes a row of a version that is PENDING and not on the ledger.
LEMMA RowStepSafe ==
    ASSUME SInv, IInv', NEW r \in Requests, NEW h \in Handler, Become(r, h), ~crossed',
           NEW v \in Versions, NEW a \in Approvers, NEW row,
           appr' = [appr EXCEPT ![v][a] = row], UNCHANGED <<docs, grade, ledger>>,
           docs[v].status = "PENDING", ~HasRecord(v), RowsInOrder(appr'[v]), Current(h)',
           \A k \in Handler : Beside(k, r) /\ StaysApart(k, h) /\ k.doc = v => Current(k)',
           Creates(h) => Creates(req[r]) /\ h.doc = req[r].doc
    PROVE  SInv'
<1>1. IInv /\ Recorded /\ Versioned /\ CoordinatorLast
  BY DEF SInv
<1>2. \A w \in Versions : w # v => appr'[w] = appr[w]
  BY DEF SInv, IInv, StateOK
<1>3. \A i \in 1..Len(ledger) : ledger[i].doc \in Versions /\ ledger[i].doc # v
  BY EntryLemma DEF HasRecord, SInv
<1>4. Recorded'
  BY <1>1, <1>2, <1>3 DEF Recorded, OneRecord, GradeInForce
<1>5. Versioned'
  BY <1>1, <1>2 DEF Versioned, LatestIsOpen
<1>6. CoordinatorLast'
  BY <1>1, <1>2 DEF CoordinatorLast
<1>7. \A k \in Handler : Beside(k, r) /\ StaysApart(k, h) => Current(k)'
  <2> SUFFICES ASSUME NEW k \in Handler, Beside(k, r), StaysApart(k, h), k.doc # v
               PROVE  Current(k)'
    OBVIOUS
  <2>1. appr'[k.doc] = appr[k.doc]
    BY <1>2 DEF Handler
  <2> QED
    BY <2>1, Untouched DEF Beside, HasRecord
<1>8. \A k \in Handler : Beside(k, r) /\ Creates(k) /\ Creates(h) => k.doc # h.doc
  BY DEF Beside
<1> QED
  BY <1>1, <1>4, <1>5, <1>6, <1>7, <1>8, SafeStep

-----------------------------------------------------------------------------
(* A handler is of one kind, and only that part of Current is about it.    *)

Reviewing == {"approve.document", "approve.approvals", "approve.sign", "approve.advisor",
              "reject.save", "override.save"}
Recording == {"register.approvals", "register.document", "register.defense",
                 "register.submit", "register.save"}
Revising == {"version.approvals", "version.replace", "version.inactivate", "version.create"}
Writing == {"submit.grade", "create.rows", "reset.approvals", "reset.write"}

LEMMA OfNoOtherKind ==
    ASSUME NEW h
    PROVE  /\ h.pc \notin Reviewing => RowsLeft(h) = {} /\ ~HoldsFiles(h) /\ ReviewOK(h)
           /\ h.pc \notin Recording => ~Registers(h) /\ ~Commits(h) /\ RegisterOK(h)
           /\ h.pc \notin Revising => ~Revises(h) /\ VersionOK(h)
           /\ h.pc \notin Writing =>
                 /\ ~Resets(h) /\ ~Creates(h) /\ ~WritesRows(h) /\ ~GradeToWrite(h)
                 /\ WriterOK(h) /\ GradeOK(h)
<1>1. h.pc \notin Reviewing => RowsLeft(h) = {} /\ ~HoldsFiles(h) /\ ReviewOK(h)
  BY DEF Reviewing, RowsLeft, RowsOf, HoldsFiles, ReviewOK
<1>2. h.pc \notin Recording => ~Registers(h) /\ ~Commits(h) /\ RegisterOK(h)
  BY DEF Recording, Registers, Commits, RegisterOK
<1>3. h.pc \notin Revising => ~Revises(h) /\ VersionOK(h)
  BY DEF Revising, Revises, VersionOK
<1>4. h.pc \notin Writing =>
         /\ ~Resets(h) /\ ~Creates(h) /\ ~WritesRows(h) /\ ~GradeToWrite(h)
         /\ WriterOK(h) /\ GradeOK(h)
  BY DEF Writing, Resets, Creates, WritesRows, GradeToWrite, WriterOK, GradeOK
<1> QED
  BY <1>1, <1>2, <1>3, <1>4

LEMMA OfNoOtherKindNext ==
    ASSUME NEW CONSTANT h
    PROVE  /\ h.pc \notin Reviewing => ReviewOK(h)'
           /\ h.pc \notin Recording => RegisterOK(h)'
           /\ h.pc \notin Revising => VersionOK(h)'
           /\ h.pc \notin Writing => WriterOK(h)' /\ GradeOK(h)'
<1>1. h.pc \notin Reviewing => ReviewOK(h)'
  BY OfNoOtherKind DEF ReviewOK, Reviewing
<1>2. h.pc \notin Recording => RegisterOK(h)'
  BY OfNoOtherKind DEF RegisterOK, Recording
<1>3. h.pc \notin Revising => VersionOK(h)'
  BY OfNoOtherKind DEF VersionOK, Revising
<1>4. h.pc \notin Writing => WriterOK(h)' /\ GradeOK(h)'
  BY OfNoOtherKind DEF WriterOK, GradeOK, Writing
<1> QED
  BY <1>1, <1>2, <1>3, <1>4

LEMMA KindsDiffer ==
    \A p : /\ p \in Reviewing => p \notin Recording /\ p \notin Revising /\ p \notin Writing
           /\ p \in Recording => p \notin Reviewing /\ p \notin Revising /\ p \notin Writing
           /\ p \in Revising => p \notin Reviewing /\ p \notin Recording /\ p \notin Writing
           /\ p \in Writing => p \notin Reviewing /\ p \notin Recording /\ p \notin Revising
BY DEF Reviewing, Recording, Revising, Writing

LEMMA ReviewCurrent ==
    ASSUME NEW h, h.pc \in Reviewing, ReviewOK(h)
    PROVE  Current(h) /\ ~Creates(h)
BY OfNoOtherKind, KindsDiffer DEF Current

LEMMA RegisterCurrent ==
    ASSUME NEW h, h.pc \in Recording, RegisterOK(h)
    PROVE  Current(h) /\ ~Creates(h)
BY OfNoOtherKind, KindsDiffer DEF Current

LEMMA RevisionCurrent ==
    ASSUME NEW h, h.pc \in Revising, VersionOK(h)
    PROVE  Current(h) /\ ~Creates(h)
BY OfNoOtherKind, KindsDiffer DEF Current

LEMMA WriterCurrent ==
    ASSUME NEW h, h.pc \in Writing, WriterOK(h), GradeOK(h)
    PROVE  Current(h)
BY OfNoOtherKind, KindsDiffer DEF Current

LEMMA KindCurrentNext ==
    ASSUME NEW CONSTANT h
    PROVE  /\ h.pc \in Reviewing /\ ReviewOK(h)' => Current(h)'
           /\ h.pc \in Recording /\ RegisterOK(h)' => Current(h)'
           /\ h.pc \in Revising /\ VersionOK(h)' => Current(h)'
           /\ h.pc \in Writing /\ WriterOK(h)' /\ GradeOK(h)' => Current(h)'
BY OfNoOtherKindNext, KindsDiffer DEF Current

-----------------------------------------------------------------------------
(* Steps that only read.                                                   *)

LEMMA EndsKeepsSafe ==
    ASSUME SInv, IInv', ~crossed', NEW r \in Requests,
           SignFails(r) \/ FabricRefuses(r) \/ Abort(r)
    PROVE  SInv'
BY EndsSafe DEF SignFails, FabricRefuses, Abort

LEMMA SubmitBeginSafe ==
    ASSUME SInv, IInv', ~crossed', NEW r \in Requests, NEW c \in Contents, NEW g \in Grades,
           SubmitBegin(r, c, g)
    PROVE  SInv'
<1> DEFINE h == [Idle EXCEPT !.pc = "submit.create", !.content = c, !.grade = g]
<1>1. h = HandlerOf("submit.create", Idle.doc, Idle.who, Idle.read, Idle.rows, c, g, Idle.todo)
  BY IdleType, SetPcContentGrade, Zenon
<1>2. Become(r, h) /\ UNCHANGED <<docs, appr, grade, ledger>>
  BY DEF SubmitBegin, Begin
<1> HIDE DEF h
<1>3. h \in Handler /\ h.pc = "submit.create"
  BY <1>1, IdleType DEF HandlerOf, Handler
<1>4. Current(h) /\ ~Creates(h)
  BY <1>3, OfNoOtherKind DEF Current, Reviewing, Recording, Revising, Writing
<1> QED
  BY <1>2, <1>3, <1>4, ReadStepSafe

LEMMA RowRequestSafe ==
    ASSUME SInv, IInv', ~crossed', NEW r \in Requests, NEW v \in Versions, NEW a \in Approvers,
           ApproveBegin(r, v, a) \/ RejectBegin(r, v, a) \/ OverrideBegin(r, v, a)
    PROVE  SInv'
<1>1. PICK p \in {"approve.document", "reject.save", "override.save"} :
         /\ Become(r, [Idle EXCEPT !.pc = p, !.doc = v, !.who = a])
         /\ p # "approve.document" => a # Coordinator
  BY DEF ApproveBegin, RejectBegin, OverrideBegin, Begin
<1> DEFINE h == [Idle EXCEPT !.pc = p, !.doc = v, !.who = a]
<1>2. h = HandlerOf(p, v, a, Idle.read, Idle.rows, Idle.content, Idle.grade, Idle.todo)
  BY IdleType, SetPcDocWho, Zenon
<1>3. Become(r, h)
  BY <1>1
<1> HIDE DEF h
<1>4. UNCHANGED <<docs, appr, grade, ledger>> /\ NotProcessed(appr[v][a])
  BY DEF ApproveBegin, RejectBegin, OverrideBegin, IsOpen, NotProcessed
<1>5. h \in Handler /\ h.pc = p /\ h.doc = v /\ h.who = a /\ h.todo = {}
  BY <1>2, IdleType, IdleFields DEF Handler, HandlerOf
<1>6. RowsLeft(h) = {a} /\ ~HoldsFiles(h)
  BY <1>5 DEF RowsLeft, RowsOf, HoldsFiles
<1>7. ReviewOK(h) /\ h.pc \in Reviewing
  BY <1>1, <1>4, <1>5, <1>6 DEF ReviewOK, Reviewing
<1> QED
  BY <1>3, <1>4, <1>5, <1>7, ReviewCurrent, ReadStepSafe

LEMMA ApproveLoadDocumentSafe ==
    ASSUME SInv, IInv', ~crossed', NEW r \in Requests, ApproveLoadDocument(r)
    PROVE  SInv'
<1> DEFINE p == IF req[r].who = Coordinator THEN "approve.approvals" ELSE "approve.sign"
           h == [req[r] EXCEPT !.pc = p, !.content = docs[req[r].doc].content]
<1>1. /\ req[r] \in Handler /\ ReviewOK(req[r]) /\ req[r].pc = "approve.document"
      /\ Become(r, h) /\ UNCHANGED <<docs, appr, grade, ledger>>
  BY KnownSafe DEF ApproveLoadDocument, Current
<1>2. p \in {"approve.approvals", "approve.sign"}
      /\ (p = "approve.sign" <=> req[r].who # Coordinator)
  OBVIOUS
<1> HIDE DEF p
<1>3. h = HandlerOf(p, req[r].doc, req[r].who, req[r].read, req[r].rows,
                    docs[req[r].doc].content, req[r].grade, req[r].todo)
  BY <1>1, SetPcContent, Zenon
<1> HIDE DEF h
<1>4. docs[req[r].doc].content \in Contents \cup {NoContent}
  BY KnownSafe, Known DEF DocRow
<1>5. h \in Handler /\ h.pc = p /\ h.doc = req[r].doc /\ h.who = req[r].who
      /\ h.content = docs[req[r].doc].content /\ h.todo = req[r].todo
  BY <1>1, <1>2, <1>3, <1>4 DEF Handler, HandlerOf
<1>6. RowsLeft(h) = RowsLeft(req[r]) /\ req[r].todo = {}
  BY <1>1, <1>2, <1>5 DEF RowsLeft, RowsOf, HoldsFiles, ReviewOK
<1>7. ReviewOK(h) /\ h.pc \in Reviewing
  BY <1>1, <1>2, <1>5, <1>6 DEF ReviewOK, Reviewing
<1> QED
  BY <1>1, <1>5, <1>7, ReviewCurrent, ReadStepSafe

LEMMA ApproveLoadApprovalsSafe ==
    ASSUME SInv, IInv', ~crossed', NEW r \in Requests, ApproveLoadApprovals(r)
    PROVE  SInv'
<1> DEFINE t == AutoApproved(appr[req[r].doc])
           h == [req[r] EXCEPT !.pc = "approve.sign", !.todo = t]
<1>1. /\ req[r] \in Handler /\ ReviewOK(req[r]) /\ req[r].pc = "approve.approvals"
      /\ req[r].who = Coordinator /\ UNCHANGED <<docs, appr, grade, ledger>>
      /\ \/ CoordinatorMayApprove(appr[req[r].doc]) /\ Become(r, h)
         \/ Become(r, Idle)
  BY KnownSafe DEF ApproveLoadApprovals, Current, ReviewOK
<1>2. /\ t \subseteq {Advisor} /\ t \in SUBSET Approvers
      /\ \A a \in t : NotProcessed(appr[req[r].doc][a])
  BY CoordinatorApproves DEF AutoApproved, NotProcessed
<1> HIDE DEF t
<1>3. h = HandlerOf("approve.sign", req[r].doc, req[r].who, req[r].read, req[r].rows,
                    req[r].content, req[r].grade, t)
  BY <1>1, SetPcTodo, Zenon
<1> HIDE DEF h
<1>4. /\ h \in Handler /\ h.pc = "approve.sign" /\ h.doc = req[r].doc /\ h.todo = t
      /\ h.content = req[r].content /\ h.who = Coordinator
  BY <1>1, <1>2, <1>3 DEF Handler, HandlerOf
<1>5. RowsLeft(h) = {Coordinator} \cup t /\ Coordinator \in RowsLeft(req[r])
  BY <1>1, <1>4 DEF RowsLeft, RowsOf, HoldsFiles
<1>6. h.content = docs[h.doc].content
  BY <1>1, <1>4 DEF ReviewOK, HoldsFiles
<1>7. \A a \in RowsLeft(h) : NotProcessed(appr[h.doc][a])
  BY <1>1, <1>2, <1>4, <1>5 DEF ReviewOK
<1>8. CoordinatorMayApprove(appr[req[r].doc]) => ReviewOK(h) /\ h.pc \in Reviewing
  BY <1>1, <1>2, <1>4, <1>6, <1>7 DEF ReviewOK, Reviewing
<1> QED
  BY <1>1, <1>4, <1>8, ReviewCurrent, ReadStepSafe, EndsSafe

LEMMA RegisterReadApprovalsSafe ==
    ASSUME SInv, IInv', ~crossed', NEW r \in Requests, RegisterReadApprovals(r)
    PROVE  SInv'
<1> DEFINE rows == appr[req[r].doc]
           h == [req[r] EXCEPT !.pc = "register.document", !.rows = rows]
<1>1. /\ req[r] \in Handler /\ RegisterOK(req[r]) /\ req[r].pc = "register.approvals"
      /\ UNCHANGED <<docs, appr, grade, ledger>>
      /\ Become(r, Idle) \/ (AllApproved(rows) /\ Become(r, h))
  BY KnownSafe DEF RegisterReadApprovals, RegistrationComplete, Current
<1>2. rows \in [Approvers -> ApprovalRow] /\ rows = appr[req[r].doc]
  BY KnownSafe DEF IInv, StateOK
<1> HIDE DEF rows
<1>3. h = HandlerOf("register.document", req[r].doc, req[r].who, req[r].read, rows,
                    req[r].content, req[r].grade, req[r].todo)
  BY <1>1, SetPcRows, Zenon
<1> HIDE DEF h
<1>4. h \in Handler /\ h.pc = "register.document" /\ h.doc = req[r].doc /\ h.rows = rows
  BY <1>1, <1>2, <1>3 DEF Handler, HandlerOf
<1>5. AllApproved(rows) => RegisterOK(h) /\ h.pc \in Recording
  BY <1>1, <1>2, <1>4 DEF RegisterOK, Recording, Registers
<1> QED
  BY <1>1, <1>4, <1>5, RegisterCurrent, ReadStepSafe, EndsSafe

LEMMA RegisterReadDocumentSafe ==
    ASSUME SInv, IInv', ~crossed', NEW r \in Requests, RegisterReadDocument(r)
    PROVE  SInv'
<1> DEFINE row == docs[req[r].doc]
           h == [req[r] EXCEPT !.pc = "register.defense", !.read = row]
<1>1. /\ req[r] \in Handler /\ RegisterOK(req[r]) /\ req[r].pc = "register.document"
      /\ UNCHANGED <<docs, appr, grade, ledger>>
      /\ Become(r, Idle) \/ Become(r, h)
  BY KnownSafe DEF RegisterReadDocument, Current
<1>2. row \in DocRow /\ row = docs[req[r].doc]
  BY KnownSafe, Known
<1> HIDE DEF row
<1>3. h = HandlerOf("register.defense", req[r].doc, req[r].who, row, req[r].rows,
                    req[r].content, req[r].grade, req[r].todo)
  BY <1>1, SetPcRead, Zenon
<1> HIDE DEF h
<1>4. h \in Handler /\ h.pc = "register.defense" /\ h.doc = req[r].doc
      /\ h.read = row /\ h.rows = req[r].rows
  BY <1>1, <1>2, <1>3 DEF Handler, HandlerOf
<1>5. RegisterOK(h) /\ h.pc \in Recording
  BY <1>1, <1>2, <1>4 DEF RegisterOK, Recording, Registers
<1> QED
  BY <1>1, <1>4, <1>5, RegisterCurrent, ReadStepSafe, EndsSafe

LEMMA RegisterReadDefenseSafe ==
    ASSUME SInv, IInv', ~crossed', NEW r \in Requests, RegisterReadDefense(r)
    PROVE  SInv'
<1> DEFINE h == [req[r] EXCEPT !.pc = "register.submit", !.grade = grade]
<1>1. /\ req[r] \in Handler /\ RegisterOK(req[r]) /\ req[r].pc = "register.defense"
      /\ UNCHANGED <<docs, appr, grade, ledger>>
      /\ Become(r, Idle) \/ Become(r, h)
  BY KnownSafe DEF RegisterReadDefense, Current
<1>2. grade \in Grades \cup {NoGrade}
  BY KnownSafe DEF IInv, StateOK
<1>3. h = HandlerOf("register.submit", req[r].doc, req[r].who, req[r].read,
                    req[r].rows, req[r].content, grade, req[r].todo)
  BY <1>1, SetPcGrade, Zenon
<1> HIDE DEF h
<1>4. h \in Handler /\ h.pc = "register.submit" /\ h.doc = req[r].doc
      /\ h.read = req[r].read /\ h.rows = req[r].rows /\ h.grade = grade
  BY <1>1, <1>2, <1>3 DEF Handler, HandlerOf
<1>5. RegisterOK(h) /\ h.pc \in Recording
  BY <1>1, <1>4 DEF RegisterOK, Recording, Registers
<1> QED
  BY <1>1, <1>4, <1>5, RegisterCurrent, ReadStepSafe, EndsSafe

LEMMA VersionBeginSafe ==
    ASSUME SInv, IInv', ~crossed', NEW r \in Requests, NEW v \in Versions,
           NEW c \in Contents, NEW g \in Grades \cup {NoGrade}, VersionBegin(r, v, c, g)
    PROVE  SInv'
<1> DEFINE row == docs[v]
           h == [Idle EXCEPT !.pc = "version.approvals", !.doc = v, !.read = row,
                             !.content = c, !.grade = g]
<1>1. Become(r, h) /\ UNCHANGED <<docs, appr, grade, ledger>>
  BY DEF VersionBegin, Begin
<1>2. row \in DocRow /\ row = docs[v]
  BY DEF SInv, IInv, StateOK
<1> HIDE DEF row
<1>3. h = HandlerOf("version.approvals", v, Idle.who, row, Idle.rows, c, g, Idle.todo)
  BY IdleType, SetPcDocReadContentGrade, Zenon
<1> HIDE DEF h
<1>4. h \in Handler /\ h.pc = "version.approvals" /\ h.doc = v /\ h.read = row
  BY <1>2, <1>3, IdleType DEF Handler, HandlerOf
<1>5. VersionOK(h) /\ h.pc \in Revising
  BY <1>2, <1>4 DEF VersionOK, Revising
<1> QED
  BY <1>1, <1>4, <1>5, RevisionCurrent, ReadStepSafe

LEMMA VersionDecideSafe ==
    ASSUME SInv, IInv', ~crossed', NEW r \in Requests, VersionDecide(r)
    PROVE  SInv'
<1>1. /\ req[r] \in Handler /\ VersionOK(req[r]) /\ HandlerOK(req[r], docs, ledger)
      /\ req[r].doc \in Versions /\ req[r].pc = "version.approvals"
      /\ UNCHANGED <<docs, appr, grade, ledger>>
  BY KnownSafe DEF VersionDecide, Current
<1>2. CASE Become(r, Idle)
  BY <1>1, <1>2, EndsSafe
<1>3. CASE \E p \in {"version.replace", "version.inactivate"} :
              /\ p = "version.inactivate" <=> IsFullyApproved(appr[req[r].doc])
              /\ Become(r, [req[r] EXCEPT !.pc = p])
  <2>1. PICK p \in {"version.replace", "version.inactivate"} :
              /\ p = "version.inactivate" <=> IsFullyApproved(appr[req[r].doc])
              /\ Become(r, [req[r] EXCEPT !.pc = p])
    BY <1>3
  <2> DEFINE h == [req[r] EXCEPT !.pc = p]
  <2>2. h = HandlerOf(p, req[r].doc, req[r].who, req[r].read, req[r].rows,
                      req[r].content, req[r].grade, req[r].todo)
    BY <1>1, SetPc, Zenon
  <2>3. Become(r, h)
    BY <2>1
  <2> HIDE DEF h
  <2>4. h \in Handler /\ h.pc = p /\ h.doc = req[r].doc /\ h.read = req[r].read
    BY <1>1, <2>2 DEF Handler, HandlerOf
  <2>5. Full(docs[req[r].doc]) /\ req[r].read = docs[req[r].doc]
    BY <1>1 DEF HandlerOK, VersionOK, Revises
  <2>6. p = "version.replace" => Unrecorded(req[r].doc)
    BY <1>1, <2>1, <2>5, NotFullyApproved
  <2>7. VersionOK(h) /\ h.pc \in Revising
    BY <2>1, <2>4, <2>5, <2>6 DEF VersionOK, Revising
  <2> QED
    BY <1>1, <2>3, <2>4, <2>7, RevisionCurrent, ReadStepSafe
<1> QED
  BY <1>2, <1>3 DEF VersionDecide

\* What is left to do of a submission or of new files concerns one version.
LEMMA SettlesSafe ==
    ASSUME SInv, IInv', ~crossed', NEW r \in Requests, NEW h \in Handler, Settle(r, h),
           UNCHANGED <<docs, appr, grade, ledger>>, Current(h),
           Creates(h) => Creates(req[r]) /\ h.doc = req[r].doc
    PROVE  SInv'
<1>1. Become(r, Idle) \/ Become(r, h)
  BY DEF Settle
<1> QED
  BY <1>1, ReadStepSafe, EndsSafe

LEMMA ResetReadApprovalsSafe ==
    ASSUME SInv, IInv', ~crossed', NEW r \in Requests, ResetReadApprovals(r)
    PROVE  SInv'
<1> DEFINE t == ToReset(appr[req[r].doc])
           h == [req[r] EXCEPT !.pc = "reset.write", !.todo = t]
<1>1. /\ req[r] \in Handler /\ WriterOK(req[r]) /\ GradeOK(req[r])
      /\ req[r].pc = "reset.approvals"
      /\ UNCHANGED <<docs, appr, grade, ledger>> /\ Settle(r, h)
  BY KnownSafe DEF ResetReadApprovals, Current
<1>2. /\ t \in SUBSET Approvers
      /\ \A a \in t : Exists(appr[req[r].doc], a)
      /\ Coordinator \in t \/ ~CoordinatorIn(appr[req[r].doc])
  BY CoordinatorApproves DEF ToReset, CoordinatorIn, Exists
<1> HIDE DEF t
<1>3. h = HandlerOf("reset.write", req[r].doc, req[r].who, req[r].read, req[r].rows,
                    req[r].content, req[r].grade, t)
  BY <1>1, SetPcTodo, Zenon
<1> HIDE DEF h
<1>4. /\ h \in Handler /\ h.pc = "reset.write" /\ h.doc = req[r].doc /\ h.todo = t
      /\ h.grade = req[r].grade
  BY <1>1, <1>2, <1>3 DEF Handler, HandlerOf
<1>5. WriterOK(h) /\ ~Creates(h)
  BY <1>1, <1>2, <1>4 DEF WriterOK, Resets, Creates
<1>6. GradeOK(h) /\ h.pc \in Writing
  BY <1>1, <1>4 DEF GradeOK, GradeToWrite, Writing
<1> QED
  BY <1>1, <1>4, <1>5, <1>6, WriterCurrent, SettlesSafe

LEMMA CreateRowsFailsSafe ==
    ASSUME SInv, IInv', ~crossed', NEW r \in Requests, CreateRowsFails(r)
    PROVE  SInv'
<1> DEFINE h == [req[r] EXCEPT !.todo = {}]
<1>1. /\ req[r] \in Handler /\ GradeOK(req[r]) /\ req[r].pc = "create.rows"
      /\ UNCHANGED <<docs, appr, grade, ledger>> /\ Settle(r, h)
  BY KnownSafe DEF CreateRowsFails, Current
<1>2. h = HandlerOf(req[r].pc, req[r].doc, req[r].who, req[r].read, req[r].rows,
                    req[r].content, req[r].grade, {})
  BY <1>1, SetTodo, Zenon
<1> HIDE DEF h
<1>3. /\ h \in Handler /\ h.pc = "create.rows" /\ h.doc = req[r].doc /\ h.todo = {}
      /\ h.grade = req[r].grade
  BY <1>1, <1>2 DEF Handler, HandlerOf
<1>4. WriterOK(h) /\ ~Creates(h) /\ GradeOK(h) /\ h.pc \in Writing
  BY <1>1, <1>3 DEF WriterOK, Creates, Resets, GradeOK, GradeToWrite, Writing
<1> QED
  BY <1>1, <1>3, <1>4, WriterCurrent, SettlesSafe

-----------------------------------------------------------------------------
(* Steps that write an approval row.                                       *)

LEMMA RowLemma ==
    ASSUME SInv, NEW v \in Versions, NEW a \in Approvers, NEW row,
           appr' = [appr EXCEPT ![v][a] = row]
    PROVE  appr'[v][a] = row /\ \A b \in Approvers : b # a => appr'[v][b] = appr[v][b]
BY DEF SInv, IInv, StateOK

\* Whoever works beside an approval is about another row, or relies on none.
LEMMA BesideApproval ==
    ASSUME SInv, NEW r \in Requests, NEW v \in Versions, NEW a \in Approvers, NEW row,
           appr' = [appr EXCEPT ![v][a] = row], UNCHANGED <<docs, grade, ledger>>,
           req[r].doc = v, a \in RowsLeft(req[r]), row.status = "APPROVED",
           a = Coordinator => ReliesOnRows(req[r]),
           NEW k \in Handler, Beside(k, r), k.doc = v
    PROVE  Current(k)'
<1>1. /\ appr'[v][a].status = "APPROVED"
      /\ \A b \in Approvers : b # a => appr'[v][b] = appr[v][b]
  <2>1. appr'[v][a] = row /\ \A b \in Approvers : b # a => appr'[v][b] = appr[v][b]
    BY RowLemma
  <2> QED
    BY <2>1
<1>2. /\ NotProcessed(appr[v][a]) /\ Exists(appr[v], a)
      /\ ~AllApproved(appr[v]) /\ ~IsFullyApproved(appr[v])
  <2>1. NotProcessed(appr[v][a])
    BY KnownSafe DEF Current, ReviewOK
  <2> QED
    BY <2>1, OpenRow
<1>3. /\ ReviewOK(k) /\ VersionOK(k) /\ WriterOK(k) /\ RegisterOK(k) /\ GradeOK(k)
      /\ RowsOf(k) \cap RowsOf(req[r]) = {}
      /\ a = Coordinator => ~WritesRows(k)
  BY DEF Beside, Current, Collide
<1>4. \A b \in Approvers : Exists(appr'[v], b) <=> Exists(appr[v], b)
  BY <1>1, <1>2 DEF Exists
<1>5. ReviewOK(k)'
  <2>1. RowsLeft(k) \subseteq RowsOf(k) /\ a \in RowsOf(req[r])
    BY DEF RowsLeft, RowsOf, HoldsFiles
  <2>2. \A b \in RowsLeft(k) : b # a /\ b \in Approvers
    <3>1. k.who \in Approvers /\ k.todo \subseteq Approvers
      BY DEF Handler
    <3>2. RowsOf(k) \subseteq Approvers
      BY <3>1 DEF RowsOf
    <3> QED
      BY <1>3, <2>1, <3>2
  <2>3. \A b \in RowsLeft(k) : NotProcessed(appr'[v][b])
    BY <1>1, <1>3, <2>2 DEF ReviewOK
  <2>4. CoordinatorMayApprove(appr[v]) => CoordinatorMayApprove(appr'[v])
    <3>1. Students \subseteq Approvers /\ Advisor \in Approvers
      BY DEF Approvers
    <3> QED
      BY <1>1, <1>4, <3>1 DEF CoordinatorMayApprove, AdvisorOrCoordinatorApproved
  <2> QED
    BY <1>3, <2>3, <2>4 DEF ReviewOK
<1>6. VersionOK(k)'
  BY <1>2, <1>3 DEF VersionOK, Unrecorded, HasRecord
<1>7. WriterOK(k)'
  <2>1. Resets(k) => Unrecorded(v)'
    BY <1>3 DEF WriterOK, Unrecorded, HasRecord
  <2>2. WritesRows(k) /\ ~CoordinatorIn(appr[v]) => ~CoordinatorIn(appr'[v])
    BY <1>1, <1>3, CoordinatorApproves DEF CoordinatorIn
  <2>3. k.pc = "submit.grade" => FALSE
    BY <1>2, <1>3 DEF WriterOK
  <2>4. k.todo \subseteq Approvers
    BY DEF Handler
  <2> QED
    BY <1>3, <1>4, <2>1, <2>2, <2>3, <2>4 DEF WriterOK, WritesRows, Resets, Creates
<1>8. RegisterOK(k)'
  BY <1>2, <1>3 DEF RegisterOK, Unrecorded, HasRecord
<1>9. GradeOK(k)'
  BY <1>3 DEF GradeOK
<1> QED
  BY <1>5, <1>6, <1>7, <1>8, <1>9 DEF Current

\* A rejection or an override leaves the row open, and it is not the coordinator's.
LEMMA BesideReview ==
    ASSUME SInv, NEW r \in Requests, NEW v \in Versions, NEW a \in Approvers, NEW row,
           appr' = [appr EXCEPT ![v][a] = row], UNCHANGED <<docs, grade, ledger>>,
           NotProcessed(appr[v][a]), NotProcessed(row), a # Coordinator,
           NEW k \in Handler, Beside(k, r), k.doc = v
    PROVE  Current(k)'
<1>1. /\ NotProcessed(appr'[v][a])
      /\ \A b \in Approvers : b # a => appr'[v][b] = appr[v][b]
  <2>1. appr'[v][a] = row /\ \A b \in Approvers : b # a => appr'[v][b] = appr[v][b]
    BY RowLemma
  <2> QED
    BY <2>1
<1>2. /\ Exists(appr[v], a) /\ appr[v][a].status # "APPROVED"
      /\ ~AllApproved(appr[v]) /\ ~IsFullyApproved(appr[v])
  BY OpenRow DEF NotProcessed
<1>3. ReviewOK(k) /\ VersionOK(k) /\ WriterOK(k) /\ RegisterOK(k) /\ GradeOK(k)
  BY DEF Beside, Current
<1>4. \A b \in Approvers : Exists(appr'[v], b) <=> Exists(appr[v], b)
  BY <1>1, <1>2 DEF Exists, NotProcessed
<1>5. ReviewOK(k)'
  <2>1. RowsLeft(k) \subseteq Approvers
    BY DEF RowsLeft, RowsOf, Handler
  <2>2. \A b \in RowsLeft(k) : NotProcessed(appr'[v][b])
    BY <1>1, <1>3, <2>1 DEF ReviewOK
  <2>3. CoordinatorMayApprove(appr[v]) => CoordinatorMayApprove(appr'[v])
    <3>1. Students \subseteq Approvers /\ Advisor \in Approvers
      BY DEF Approvers
    <3> QED
      BY <1>1, <1>2, <1>4, <3>1 DEF CoordinatorMayApprove, AdvisorOrCoordinatorApproved
  <2> QED
    BY <1>3, <2>2, <2>3 DEF ReviewOK
<1>6. VersionOK(k)'
  BY <1>2, <1>3 DEF VersionOK, Unrecorded, HasRecord
<1>7. WriterOK(k)'
  <2>1. Resets(k) => Unrecorded(v)'
    BY <1>3 DEF WriterOK, Unrecorded, HasRecord
  <2>2. ~CoordinatorIn(appr[v]) => ~CoordinatorIn(appr'[v])
    BY <1>1, CoordinatorApproves DEF CoordinatorIn
  <2>3. k.pc = "submit.grade" => FALSE
    BY <1>2, <1>3 DEF WriterOK
  <2>4. k.todo \subseteq Approvers
    BY DEF Handler
  <2> QED
    BY <1>3, <1>4, <2>1, <2>2, <2>3, <2>4 DEF WriterOK
<1>8. RegisterOK(k)'
  BY <1>2, <1>3 DEF RegisterOK, Unrecorded, HasRecord
<1>9. GradeOK(k)'
  BY <1>3 DEF GradeOK
<1> QED
  BY <1>5, <1>6, <1>7, <1>8, <1>9 DEF Current

\* Nobody relies on the rows while they are created or reset.
LEMMA BesidePending ==
    ASSUME SInv, NEW r \in Requests, NEW v \in Versions, NEW a \in Approvers, NEW row,
           appr' = [appr EXCEPT ![v][a] = row], UNCHANGED <<docs, grade, ledger>>,
           req[r].doc = v, WritesRows(req[r]), row.status = "PENDING",
           Exists(appr[v], a) \/ Creates(req[r]),
           NEW k \in Handler, Beside(k, r), k.doc = v
    PROVE  Current(k)'
<1>1. /\ appr'[v][a].status = "PENDING"
      /\ \A b \in Approvers : b # a => appr'[v][b] = appr[v][b]
  <2>1. appr'[v][a] = row /\ \A b \in Approvers : b # a => appr'[v][b] = appr[v][b]
    BY RowLemma
  <2> QED
    BY <2>1
<1>2. /\ ReviewOK(k) /\ VersionOK(k) /\ WriterOK(k) /\ RegisterOK(k) /\ GradeOK(k)
      /\ ~ReliesOnRows(k) /\ (Creates(k) => ~Creates(req[r]))
  BY DEF Beside, Current, Collide
<1>3. \A b \in Approvers : Exists(appr[v], b) => Exists(appr'[v], b)
  BY <1>1 DEF Exists
<1>4. ReviewOK(k)'
  <2>1. RowsLeft(k) \subseteq Approvers
    BY DEF RowsLeft, RowsOf, Handler
  <2>2. \A b \in RowsLeft(k) : NotProcessed(appr'[v][b])
    BY <1>1, <1>2, <2>1 DEF ReviewOK, NotProcessed
  <2> QED
    BY <1>2, <2>2 DEF ReviewOK, ReliesOnRows
<1>5. VersionOK(k)'
  BY <1>2 DEF VersionOK, Unrecorded, HasRecord, ReliesOnRows
<1>6. WriterOK(k)'
  <2>1. Resets(k) => Unrecorded(v)'
    BY <1>2 DEF WriterOK, Unrecorded, HasRecord
  <2>2. ~CoordinatorIn(appr[v]) => ~CoordinatorIn(appr'[v])
    BY <1>1, CoordinatorApproves DEF CoordinatorIn
  <2>3. Creates(k) => \A b \in Approvers : ~Exists(appr[v], b) => ~Exists(appr'[v], b)
    BY <1>1, <1>2 DEF Exists
  <2>4. k.todo \subseteq Approvers
    BY DEF Handler
  <2> QED
    BY <1>2, <1>3, <2>1, <2>2, <2>3, <2>4 DEF WriterOK, Creates
<1>7. RegisterOK(k)'
  BY <1>2 DEF RegisterOK, Unrecorded, HasRecord, ReliesOnRows, Commits
<1>8. GradeOK(k)'
  BY <1>2 DEF GradeOK
<1> QED
  BY <1>4, <1>5, <1>6, <1>7, <1>8 DEF Current

\* The coordinator's row is the first to be created and the first to be reset.
LEMMA PendingRowSafe ==
    ASSUME SInv, IInv', ~crossed', NEW r \in Requests, CreateRow(r) \/ ResetWrite(r)
    PROVE  SInv'
<1>1. PICK a \in First(req[r].todo) :
         /\ appr' = [appr EXCEPT ![req[r].doc][a] = Pending]
         /\ Settle(r, [req[r] EXCEPT !.todo = @ \ {a}])
  BY DEF CreateRow, ResetWrite
<1> DEFINE v == req[r].doc
           h == [req[r] EXCEPT !.todo = @ \ {a}]
<1>2. /\ req[r] \in Handler /\ WriterOK(req[r]) /\ GradeOK(req[r]) /\ v \in Versions
      /\ req[r].todo \subseteq Approvers
      /\ req[r].pc \in {"create.rows", "reset.write"}
      /\ UNCHANGED <<docs, grade, ledger>> /\ Settle(r, h)
  BY <1>1, KnownSafe DEF CreateRow, ResetWrite, Current
<1>3. h = HandlerOf(req[r].pc, req[r].doc, req[r].who, req[r].read, req[r].rows,
                    req[r].content, req[r].grade, req[r].todo \ {a})
  BY <1>2, SetTodo, Zenon
<1> HIDE DEF h
<1>4. /\ h \in Handler /\ h.pc = req[r].pc /\ h.doc = v /\ h.todo = req[r].todo \ {a}
      /\ h.grade = req[r].grade
  BY <1>2, <1>3 DEF Handler, HandlerOf
<1>5. /\ a \in Approvers /\ a \in req[r].todo
      /\ Coordinator \in req[r].todo => a = Coordinator
  BY <1>2, CoordinatorApproves DEF First, Rank
<1>6. WritesRows(req[r]) /\ (Exists(appr[v], a) \/ Creates(req[r]))
  BY <1>2, <1>5 DEF WritesRows, Resets, Creates, WriterOK
<1>7. docs[v].status = "PENDING" /\ ~HasRecord(v)
  BY <1>2, <1>5, MissingRow DEF WriterOK, Resets, Creates, Unrecorded
<1>8. GradeToWrite(h) => \A w \in Versions : docs[w].status # "APPROVED"
  BY <1>2, <1>4 DEF GradeOK, GradeToWrite
<1>9. /\ \A b \in req[r].todo : Creates(req[r]) => ~Exists(appr[v], b)
      /\ \A b \in req[r].todo : req[r].pc = "reset.write" => Exists(appr[v], b)
      /\ Coordinator \in req[r].todo \/ ~CoordinatorIn(appr[v])
  BY <1>2, <1>5 DEF WriterOK, Resets, Creates
<1>10. Creates(h) => Creates(req[r])
  BY <1>2, <1>4 DEF Creates
<1> HIDE DEF v
<1>11. /\ appr' = [appr EXCEPT ![v][a] = Pending] /\ req[r].doc = v
       /\ Pending.status = "PENDING"
  BY <1>1 DEF v, Pending
<1>12. /\ appr'[v][a] = Pending
       /\ \A b \in Approvers : b # a => appr'[v][b] = appr[v][b]
  <2>1. PICK row \in {Pending} : appr' = [appr EXCEPT ![v][a] = row]
    BY <1>11
  <2>2. appr'[v][a] = row /\ \A b \in Approvers : b # a => appr'[v][b] = appr[v][b]
    BY <1>2, <1>5, <2>1, RowLemma
  <2> QED
    BY <2>2
<1>13. ~CoordinatorIn(appr'[v])
  <2>1. CASE a = Coordinator
    BY <1>11, <1>12, <2>1 DEF CoordinatorIn
  <2>2. CASE a # Coordinator
    BY <1>5, <1>9, <1>12, <2>2, CoordinatorApproves DEF CoordinatorIn
  <2> QED
    BY <2>1, <2>2
<1>14. PICK n \in Handler : n = h
  BY <1>4
<1>15. Current(n)'
  <2>1. Unrecorded(n.doc)'
    BY <1>2, <1>4, <1>7, <1>14 DEF Unrecorded, HasRecord
  <2>2. WriterOK(n)'
    <3>1. \A b \in n.todo : b \in Approvers /\ b # a /\ appr'[v][b] = appr[v][b]
      BY <1>2, <1>4, <1>12, <1>14
    <3>2. /\ \A b \in n.todo : Creates(req[r]) => ~Exists(appr'[v], b)
          /\ \A b \in n.todo : req[r].pc = "reset.write" => Exists(appr'[v], b)
      BY <1>4, <1>9, <1>14, <3>1 DEF Exists
    <3> QED
      BY <1>2, <1>4, <1>10, <1>13, <1>14, <2>1, <3>2 DEF WriterOK, Unrecorded, Creates
  <2>3. GradeOK(n)' /\ n.pc \in Writing
    BY <1>2, <1>4, <1>8, <1>14 DEF GradeOK, Writing
  <2> QED
    BY <2>2, <2>3, KindCurrentNext
<1>16. \A k \in Handler : Beside(k, r) /\ k.doc = v => Current(k)'
  BY <1>2, <1>5, <1>6, <1>11, BesidePending
<1>17. RowsInOrder(appr'[v])
  BY <1>13 DEF RowsInOrder
<1>18. CASE Become(r, n)
  BY <1>2, <1>4, <1>5, <1>7, <1>10, <1>11, <1>14, <1>15, <1>16, <1>17, <1>18, RowStepSafe DEF v
<1>19. CASE Become(r, Idle)
  BY <1>2, <1>5, <1>7, <1>11, <1>16, <1>17, <1>19, IdleType, IdleCurrent, RowStepSafe
<1> QED
  BY <1>2, <1>14, <1>18, <1>19 DEF Settle

LEMMA ReviewSafe ==
    ASSUME SInv, IInv', ~crossed', NEW r \in Requests, Review(r)
    PROVE  SInv'
<1> DEFINE v == req[r].doc
           a == req[r].who
<1>1. /\ ReviewOK(req[r]) /\ v \in Versions /\ a \in Approvers
      /\ req[r].pc \in {"reject.save", "override.save"}
      /\ UNCHANGED <<docs, grade, ledger>> /\ Become(r, Idle)
  BY KnownSafe DEF Review, RejectSave, OverrideSave, Current
<1>2. PICK row \in {Rejected, Pending} : appr' = [appr EXCEPT ![v][a] = row]
  BY DEF Review, RejectSave, OverrideSave
<1>3. a # Coordinator /\ NotProcessed(appr[v][a])
  BY <1>1 DEF ReviewOK, RowsLeft, RowsOf, HoldsFiles
<1> HIDE DEF v, a
<1>4. Unrecorded(v) /\ Exists(appr[v], a) /\ appr[v][a].status # "APPROVED"
  BY <1>1, <1>3, OpenRow DEF NotProcessed
<1>5. NotProcessed(row)
  BY DEF NotProcessed, Rejected, Pending
<1>6. appr'[v][a] = row /\ \A b \in Approvers : b # a => appr'[v][b] = appr[v][b]
  BY <1>1, <1>2, RowLemma
\* Had the coordinator approved, only the advisor's row could still be open.
<1>7. RowsInOrder(appr'[v])
  <2> SUFFICES ASSUME CoordinatorIn(appr'[v]), NEW b \in Approvers, Exists(appr'[v], b)
               PROVE  appr'[v][b].status = "APPROVED" \/ (b = Advisor /\ CoordIsAdvisor)
    BY DEF RowsInOrder
  <2>1. CoordinatorIn(appr[v]) /\ RowsInOrder(appr[v])
    BY <1>1, <1>3, <1>6, CoordinatorApproves DEF CoordinatorIn, SInv, CoordinatorLast
  <2>2. CASE b = a
    BY <1>1, <1>4, <2>1, <2>2 DEF RowsInOrder
  <2>3. CASE b # a
    BY <1>6, <2>1, <2>3 DEF RowsInOrder, Exists
  <2> QED
    BY <2>2, <2>3
<1>8. \A k \in Handler : Beside(k, r) /\ k.doc = v => Current(k)'
  BY <1>1, <1>2, <1>3, <1>5, BesideReview
<1> QED
  BY <1>1, <1>2, <1>4, <1>7, <1>8, IdleType, IdleCurrent, RowStepSafe DEF Unrecorded

LEMMA ThenRegisterLemma ==
    ASSUME NEW h \in Handler
    PROVE  /\ ThenRegister(h) \in Handler
           /\ ThenRegister(h).pc = "register.approvals" /\ ThenRegister(h).doc = h.doc
<1> DEFINE k == [Idle EXCEPT !.pc = "register.approvals", !.doc = h.doc]
<1>1. k = HandlerOf("register.approvals", h.doc, Idle.who, Idle.read, Idle.rows,
                    Idle.content, Idle.grade, Idle.todo)
  BY IdleType, SetPcDoc, Zenon
<1>2. ThenRegister(h) = k
  BY DEF ThenRegister
<1> HIDE DEF k
<1> QED
  BY <1>1, <1>2, IdleType DEF Handler, HandlerOf

\* The coordinator approves when everybody else has, or is the advisor too.
LEMMA ApproveSignSafe ==
    ASSUME SInv, IInv', ~crossed', NEW r \in Requests, ApproveSign(r) \/ ApproveAdvisor(r)
    PROVE  SInv'
<1> DEFINE v == req[r].doc
           h == [req[r] EXCEPT !.pc = "approve.advisor"]
<1>1. /\ req[r] \in Handler /\ ReviewOK(req[r]) /\ v \in Versions /\ req[r].who \in Approvers
      /\ req[r].pc \in {"approve.sign", "approve.advisor"}
      /\ UNCHANGED <<docs, grade, ledger>>
      /\ \/ Become(r, h) /\ req[r].todo # {} /\ req[r].pc = "approve.sign"
         \/ Become(r, ThenRegister(req[r]))
  BY KnownSafe DEF ApproveSign, ApproveAdvisor, Current
<1>2. PICK a \in Approvers :
         /\ appr' = [appr EXCEPT ![v][a] = Approved(req[r].content)]
         /\ a \in RowsLeft(req[r])
         /\ req[r].pc = "approve.sign" => a = req[r].who
         /\ a = Coordinator => req[r].pc = "approve.sign" /\ req[r].who = Coordinator
  <2>1. CASE req[r].pc = "approve.sign"
    BY <1>1, <2>1 DEF ApproveSign, ApproveAdvisor, RowsLeft, RowsOf, HoldsFiles
  <2>2. CASE req[r].pc = "approve.advisor"
    BY <1>1, <2>2, CoordinatorApproves DEF ApproveSign, ApproveAdvisor, RowsLeft, ReviewOK
  <2> QED
    BY <1>1, <2>1, <2>2
<1>3. h = HandlerOf("approve.advisor", req[r].doc, req[r].who, req[r].read,
                    req[r].rows, req[r].content, req[r].grade, req[r].todo)
  BY <1>1, SetPc, Zenon
<1> HIDE DEF h
<1>4. /\ h \in Handler /\ h.pc = "approve.advisor" /\ h.doc = v
      /\ h.content = req[r].content /\ h.todo = req[r].todo
  BY <1>1, <1>3 DEF Handler, HandlerOf
<1>5. NotProcessed(appr[v][a])
  BY <1>1, <1>2 DEF ReviewOK
<1>6. a = Coordinator => CoordinatorMayApprove(appr[v]) /\ ReliesOnRows(req[r])
  BY <1>1, <1>2 DEF ReviewOK, ReliesOnRows
<1>7. req[r].content = docs[v].content
  BY <1>1 DEF ReviewOK, HoldsFiles
\* The advisor's row is still to be approved, and it is open.
<1>8. Become(r, h) => /\ h.todo = {Advisor} /\ a # Advisor
                      /\ NotProcessed(appr[v][Advisor])
  <2>1. CASE req[r].pc = "approve.sign" /\ req[r].todo # {}
    <3>1. req[r].who = Coordinator /\ req[r].todo = {Advisor}
      BY <1>1, <2>1 DEF ReviewOK
    <3>2. Advisor \in RowsLeft(req[r])
      BY <2>1, <3>1 DEF RowsLeft, RowsOf, HoldsFiles
    <3> QED
      BY <1>1, <1>2, <1>4, <2>1, <3>1, <3>2, CoordinatorApproves DEF ReviewOK
  <2>2. CASE Become(r, ThenRegister(req[r])) /\ ~(req[r].pc = "approve.sign" /\ req[r].todo # {})
    <3>1. req'[r].pc = "register.approvals"
      BY <1>1, <2>2, ThenRegisterLemma, StepsApart DEF SInv
    <3>2. Become(r, h) => req'[r].pc = "approve.advisor"
      BY <1>4, StepsApart DEF SInv
    <3> QED
      BY <3>1, <3>2
  <2> QED
    BY <1>1, <2>1, <2>2
<1> HIDE DEF v
<1>9. PICK row \in {Approved(req[r].content)} : appr' = [appr EXCEPT ![v][a] = row]
  BY <1>2
<1>10. row.status = "APPROVED"
  BY DEF Approved
<1>11. /\ appr'[v][a].status = "APPROVED"
       /\ \A b \in Approvers : b # a => appr'[v][b] = appr[v][b]
  <2>1. appr'[v][a] = row /\ \A b \in Approvers : b # a => appr'[v][b] = appr[v][b]
    BY <1>1, <1>9, RowLemma
  <2> QED
    BY <1>10, <2>1
<1>12. Unrecorded(v)
  BY <1>1, <1>5, OpenRow
<1>13. RowsInOrder(appr'[v])
  <2>1. CASE a = Coordinator
    <3>1. CoordinatorMayApprove(appr[v])
      BY <1>6, <2>1
    <3>2. \A b \in Approvers : b = Coordinator \/ b = Advisor \/ b \in Students
      BY DEF Approvers
    <3> QED
      BY <1>11, <2>1, <3>1, <3>2
         DEF RowsInOrder, CoordinatorMayApprove, AdvisorOrCoordinatorApproved, Exists
  <2>2. CASE a # Coordinator
    <3>1. RowsInOrder(appr[v])
      BY <1>1 DEF SInv, CoordinatorLast
    <3> QED
      BY <1>11, <2>2, <3>1, CoordinatorApproves DEF RowsInOrder, CoordinatorIn, Exists
  <2> QED
    BY <2>1, <2>2
<1>14. \A k \in Handler : Beside(k, r) /\ k.doc = v => Current(k)'
  <2>1. req[r].doc = v
    BY DEF v
  <2> QED
    BY <1>1, <1>2, <1>6, <1>9, <1>10, <2>1, BesideApproval
<1>15. CASE Become(r, h)
  <2>1. PICK n \in Handler : n = h
    BY <1>4
  <2>2. RowsLeft(n) = {Advisor} /\ n.pc \in Reviewing
    BY <1>4, <1>8, <1>15, <2>1 DEF RowsLeft, Reviewing
  <2>3. ReviewOK(n)'
    BY <1>1, <1>4, <1>7, <1>8, <1>11, <1>15, <2>1, <2>2, CoordinatorApproves DEF ReviewOK
  <2>4. Current(n)' /\ ~Creates(n)
    BY <2>2, <2>3, KindCurrentNext, OfNoOtherKind, KindsDiffer
  <2> QED
    BY <1>1, <1>9, <1>12, <1>13, <1>14, <1>15, <2>1, <2>4, RowStepSafe DEF Unrecorded
<1>16. CASE Become(r, ThenRegister(req[r]))
  <2>1. PICK n \in Handler : n = ThenRegister(req[r])
    BY <1>1, ThenRegisterLemma
  <2>2. n.pc = "register.approvals" /\ n.doc = v
    BY <1>1, <2>1, ThenRegisterLemma DEF v
  <2>3. RegisterOK(n)' /\ n.pc \in Recording
    BY <1>1, <1>12, <2>2 DEF RegisterOK, Unrecorded, HasRecord, Recording
  <2>4. Current(n)' /\ ~Creates(n)
    BY <2>3, KindCurrentNext, OfNoOtherKind, KindsDiffer
  <2> QED
    BY <1>1, <1>9, <1>12, <1>13, <1>14, <1>16, <2>1, <2>4, RowStepSafe DEF Unrecorded
<1> QED
  BY <1>1, <1>15, <1>16

-----------------------------------------------------------------------------
(* Steps that write the grade: no version is in force meanwhile, and no    *)
(* registration has read the defense.                                      *)

LEMMA GradeStepSafe ==
    ASSUME SInv, IInv', NEW r \in Requests, NEW h \in Handler, Become(r, h), ~crossed',
           UNCHANGED <<docs, appr, ledger>>, GradeToWrite(req[r]), Current(h)',
           Creates(h) => Creates(req[r]) /\ h.doc = req[r].doc
    PROVE  SInv'
<1>1. IInv /\ Recorded /\ Versioned /\ CoordinatorLast
  BY DEF SInv
<1>2. \A w \in Versions : docs[w].status # "APPROVED"
  BY KnownSafe DEF Current, GradeOK
<1>3. Recorded'
  BY <1>1, <1>2 DEF Recorded, OneRecord, GradeInForce
<1>4. Versioned'
  BY <1>1 DEF Versioned, LatestIsOpen
<1>5. CoordinatorLast'
  BY <1>1 DEF CoordinatorLast
<1>6. \A k \in Handler : Beside(k, r) => Current(k)'
  <2> SUFFICES ASSUME NEW k \in Handler, Beside(k, r) PROVE Current(k)'
    OBVIOUS
  <2>1. k.pc \notin {"register.submit", "register.save"}
    BY DEF Beside, Collide
  <2> QED
    BY <2>1, Untouched DEF Beside, HasRecord
<1>7. \A k \in Handler : Beside(k, r) /\ Creates(k) /\ Creates(h) => k.doc # h.doc
  BY DEF Beside
<1> QED
  BY <1>1, <1>3, <1>4, <1>5, <1>6, <1>7, SafeStep

LEMMA SubmitGradeSafe ==
    ASSUME SInv, IInv', ~crossed', NEW r \in Requests, SubmitGrade(r)
    PROVE  SInv'
<1> DEFINE h == [Idle EXCEPT !.pc = "create.rows", !.todo = Approvers]
<1>1. h = HandlerOf("create.rows", Idle.doc, Idle.who, Idle.read, Idle.rows,
                    Idle.content, Idle.grade, Approvers)
  BY IdleType, SetPcTodo, Zenon
<1>2. Become(r, h) /\ UNCHANGED <<docs, appr, ledger>> /\ req[r].pc = "submit.grade"
  BY DEF SubmitGrade
<1> HIDE DEF h
<1>3. /\ WriterOK(req[r]) /\ req[r].doc = 1 /\ req[r].grade # NoGrade
      /\ GradeToWrite(req[r]) /\ Creates(req[r])
  BY <1>2, KnownSafe DEF HandlerOK, Current, GradeToWrite, Creates
<1>4. PICK k \in Handler : /\ Become(r, k) /\ k.pc = "create.rows" /\ k.doc = 1
                           /\ k.todo = Approvers /\ k.grade = NoGrade
  BY <1>1, <1>2, IdleType, IdleFields DEF Handler, HandlerOf
<1>5. WriterOK(k)'
  BY <1>2, <1>3, <1>4, CoordinatorApproves
     DEF WriterOK, Resets, Creates, Exists, CoordinatorIn
<1>6. GradeOK(k)' /\ k.pc \in Writing
  BY <1>4 DEF GradeOK, GradeToWrite, Writing
<1>7. Current(k)'
  BY <1>5, <1>6, KindCurrentNext
<1> QED
  BY <1>2, <1>3, <1>4, <1>7, GradeStepSafe

LEMMA UpdateGradeSafe ==
    ASSUME SInv, IInv', ~crossed', NEW r \in Requests, UpdateGrade(r)
    PROVE  SInv'
<1> DEFINE h == [req[r] EXCEPT !.grade = NoGrade]
<1>1. /\ req[r] \in Handler /\ req[r].pc \in {"create.rows", "reset.write"}
      /\ UNCHANGED <<docs, appr, ledger>> /\ Settle(r, h) /\ WriterOK(req[r])
      /\ GradeToWrite(req[r])
  BY KnownSafe DEF UpdateGrade, Current, GradeToWrite
<1>2. h = HandlerOf(req[r].pc, req[r].doc, req[r].who, req[r].read, req[r].rows,
                    req[r].content, NoGrade, req[r].todo)
  BY <1>1, SetGrade, Zenon
<1> HIDE DEF h
<1>3. /\ h \in Handler /\ h.pc = req[r].pc /\ h.doc = req[r].doc /\ h.todo = req[r].todo
      /\ h.grade = NoGrade
  BY <1>1, <1>2 DEF Handler, HandlerOf
<1>4. PICK k \in Handler : k = h
  BY <1>3
<1>5. WriterOK(k)'
  BY <1>1, <1>3, <1>4 DEF WriterOK, Resets, Creates, Unrecorded, HasRecord
<1>6. GradeOK(k)' /\ k.pc \in Writing
  BY <1>1, <1>3, <1>4 DEF GradeOK, GradeToWrite, Writing
<1>7. Current(k)' /\ (Creates(k) => Creates(req[r]) /\ k.doc = req[r].doc)
  BY <1>3, <1>4, <1>5, <1>6, KindCurrentNext DEF Creates
<1>8. Become(r, Idle) \/ Become(r, k)
  BY <1>1, <1>4 DEF Settle
<1> QED
  BY <1>1, <1>7, <1>8, IdleType, IdleCurrent, GradeStepSafe

-----------------------------------------------------------------------------
(* Steps that write a document row.                                        *)

LEMMA DocStepSafe ==
    ASSUME SInv, IInv', NEW r \in Requests, NEW h \in Handler, Become(r, h), ~crossed',
           NEW v \in Versions, NEW row, docs' = [docs EXCEPT ![v] = row],
           UNCHANGED <<appr, grade, ledger>>,
           HasRecord(v) => row.content = docs[v].content,
           row.status = "APPROVED" => ledger[row.tx].grade = grade,
           row.status = "INACTIVE" => IsFullyApproved(appr[v]),
           \A w \in Versions : w < v => docs[w].status = "INACTIVE",
           row.status = "INACTIVE" \/ \A w \in Versions : w > v => docs[w] = NoDoc,
           Current(h)',
           row.status = "APPROVED" => \A k \in Handler : Beside(k, r) => ~GradeToWrite(k),
           \A k \in Handler : Beside(k, r) /\ StaysApart(k, h) /\ k.doc = v => Current(k)',
           \A k \in Handler : Beside(k, r) /\ Creates(k) /\ Creates(h) => k.doc # h.doc
    PROVE  SInv'
<1>1. IInv /\ Recorded /\ Versioned /\ CoordinatorLast
  BY DEF SInv
<1>2. docs'[v] = row /\ \A w \in Versions : w # v => docs'[w] = docs[w]
  BY <1>1 DEF IInv, StateOK
<1>3. Recorded'
  <2>1. GradeInForce'
    BY <1>1, <1>2 DEF Recorded, GradeInForce
  <2>2. \A i \in 1..Len(ledger) : ledger[i].content = docs'[ledger[i].doc].content
    BY <1>1, <1>2, EntryLemma DEF Recorded, HasRecord
  <2> QED
    BY <1>1, <2>1, <2>2 DEF Recorded, OneRecord
<1>4. Versioned'
  <2>1. LatestIsOpen'
    <3> SUFFICES ASSUME NEW x \in Versions, NEW w \in Versions, x < w, docs'[w] # NoDoc
                 PROVE  docs'[x].status = "INACTIVE"
      BY DEF LatestIsOpen
    <3>1. CASE x = v
      BY <1>2, <3>1 DEF Versions
    <3>2. CASE w = v
      BY <1>2, <3>2 DEF Versions
    <3>3. CASE x # v /\ w # v
      BY <1>1, <1>2, <3>3 DEF Versioned, LatestIsOpen
    <3> QED
      BY <3>1, <3>2, <3>3
  <2> QED
    BY <1>1, <1>2, <2>1 DEF Versioned
<1>5. CoordinatorLast'
  BY <1>1 DEF CoordinatorLast
<1>6. \A k \in Handler : Beside(k, r) /\ StaysApart(k, h) => Current(k)'
  <2> SUFFICES ASSUME NEW k \in Handler, Beside(k, r), StaysApart(k, h), k.doc # v
               PROVE  Current(k)'
    OBVIOUS
  <2>1. docs'[k.doc] = docs[k.doc]
    BY <1>2 DEF Handler
  <2>2. GradeToWrite(k) =>
           \A w \in Versions : docs'[w].status = "APPROVED" => docs[w].status = "APPROVED"
    BY <1>2
  <2> QED
    BY <2>1, <2>2, Untouched DEF Beside, HasRecord
<1> QED
  BY <1>1, <1>3, <1>4, <1>5, <1>6, SafeStep

\* No handler is about a version that does not exist.
LEMMA BesideAbsent ==
    ASSUME NEW r \in Requests, NEW v \in Versions, docs[v] = NoDoc,
           NEW k \in Handler, Beside(k, r), k.doc = v
    PROVE  Current(k)' /\ ~Creates(k)
<1>1. ~Full(docs[v])
  BY DEF Full, NoDoc
<1>2. k.pc \in {"idle", "submit.create"}
  BY <1>1 DEF Beside, HandlerOK
<1>3. k.pc \notin Reviewing /\ k.pc \notin Recording /\ k.pc \notin Revising /\ k.pc \notin Writing
  BY <1>2 DEF Reviewing, Recording, Revising, Writing
<1> QED
  BY <1>3, OfNoOtherKind, OfNoOtherKindNext DEF Current

\* A document row whose files stay disturbs only those who read its status.
LEMMA BesideStatus ==
    ASSUME SInv, NEW v \in Versions, NEW row, docs' = [docs EXCEPT ![v] = row],
           UNCHANGED <<appr, grade, ledger>>, row.content = docs[v].content,
           NEW k \in Handler, Current(k), k.doc = v,
           ~Revises(k), ~Registers(k), ~WritesRows(k), k.pc # "submit.grade",
           k.pc = "version.create" => row.status = "INACTIVE",
           GradeToWrite(k) => row.status # "APPROVED"
    PROVE  Current(k)'
<1>1. docs'[v] = row /\ \A w \in Versions : w # v => docs'[w] = docs[w]
  BY DEF SInv, IInv, StateOK
<1>2. ReviewOK(k)'
  BY <1>1 DEF Current, ReviewOK
<1>3. VersionOK(k)'
  BY <1>1 DEF VersionOK, Revises
<1>4. WriterOK(k)'
  BY DEF WriterOK, WritesRows, Resets, Creates
<1>5. RegisterOK(k)'
  BY DEF RegisterOK, Registers
<1>6. GradeOK(k)'
  BY <1>1 DEF Current, GradeOK
<1> QED
  BY <1>2, <1>3, <1>4, <1>5, <1>6 DEF Current

LEMMA SubmitCreateSafe ==
    ASSUME SInv, IInv', ~crossed', NEW r \in Requests, SubmitCreate(r)
    PROVE  SInv'
<1> DEFINE h == [req[r] EXCEPT !.pc = "submit.grade", !.content = NoContent]
           row == NewDocument(req[r].content)
<1>1. CASE docs[1] # NoDoc
  BY <1>1, EndsSafe DEF SubmitCreate
<1>2. CASE docs[1] = NoDoc
  <2>1. /\ Become(r, h) /\ docs' = [docs EXCEPT ![1] = row]
        /\ UNCHANGED <<appr, grade, ledger>>
        /\ req[r] \in Handler /\ req[r].doc = 1 /\ 1 \in Versions
    BY <1>2, KnownSafe DEF SubmitCreate, HandlerOK
  <2>2. h = HandlerOf("submit.grade", req[r].doc, req[r].who, req[r].read,
                      req[r].rows, NoContent, req[r].grade, req[r].todo)
    BY KnownSafe, SetPcContent, Zenon
  <2> HIDE DEF h
  <2>3. PICK k \in Handler : Become(r, k) /\ k.pc = "submit.grade" /\ k.doc = 1
    BY <2>1, <2>2 DEF Handler, HandlerOf
  <2>4. row.status = "PENDING"
    BY DEF NewDocument
  <2> HIDE DEF row
  <2>5. PICK x \in {row} : docs' = [docs EXCEPT ![1] = x]
    BY <2>1
  <2>6. docs'[1].status = "PENDING" /\ \A w \in Versions : w # 1 => docs'[w] = docs[w]
    BY <2>1, <2>4, <2>5 DEF SInv, IInv, StateOK
  <2>7. ~HasRecord(1) /\ (\A a \in Approvers : appr[1][a].status = "none")
        /\ (\A w \in Versions : w > 1 => docs[w] = NoDoc)
    BY <1>2, <2>1, AbsentVersion
  <2>8. WriterOK(k)'
    BY <2>1, <2>3, <2>6, <2>7 DEF WriterOK, Resets, Creates, Exists
  <2>9. GradeOK(k)' /\ k.pc \in Writing
    <3>1. \A w \in Versions : docs'[w].status # "APPROVED"
      BY <2>6, <2>7 DEF Versions, NoDoc
    <3> QED
      BY <2>3, <3>1 DEF GradeOK, Writing
  <2>10. Current(k)'
    BY <2>8, <2>9, KindCurrentNext
  <2>11. \A w \in Versions : w < 1 => docs[w].status = "INACTIVE"
    BY DEF Versions
  <2>12. \A n \in Handler : Beside(n, r) /\ n.doc = 1 => Current(n)' /\ ~Creates(n)
    BY <1>2, <2>1, BesideAbsent
  <2>13. \A n \in Handler : Beside(n, r) /\ Creates(n) /\ Creates(k) => n.doc # k.doc
    BY <2>3, <2>12
  <2>14. x.status = "PENDING" /\ 1 \in Versions /\ UNCHANGED <<appr, grade, ledger>>
    BY <2>1, <2>4
  <2>15. \A n \in Handler : Beside(n, r) /\ n.doc = 1 => Current(n)'
    BY <2>12
  <2> QED
    BY <2>3, <2>5, <2>7, <2>10, <2>11, <2>13, <2>14, <2>15, DocStepSafe
<1> QED
  BY <1>1, <1>2

LEMMA VersionCreateSafe ==
    ASSUME SInv, IInv', ~crossed', NEW r \in Requests, VersionCreate(r)
    PROVE  SInv'
<1> DEFINE next == req[r].doc + 1
           row == NextVersion(req[r].read, req[r].content)
           g == req[r].grade
           h == [Idle EXCEPT !.pc = "create.rows", !.doc = next, !.grade = g,
                             !.todo = Approvers]
<1>1. CASE docs[next] # NoDoc
  BY <1>1, EndsSafe DEF VersionCreate
<1>2. CASE docs[next] = NoDoc
  <2>1. /\ req[r] \in Handler /\ HandlerOK(req[r], docs, ledger) /\ VersionOK(req[r])
        /\ req[r].pc = "version.create" /\ req[r].doc \in Versions
        /\ UNCHANGED <<appr, grade, ledger>>
        /\ docs' = [docs EXCEPT ![next] = row] /\ Become(r, h)
    BY <1>2, KnownSafe DEF VersionCreate, Current
  <2>2. next \in Versions /\ g \in Grades \cup {NoGrade} /\ next = req[r].doc + 1
    BY <2>1 DEF HandlerOK, Handler
  <2>3. row.status = "PENDING"
    BY DEF NextVersion, NewDocument
  <2>4. docs[req[r].doc].status = "INACTIVE"
    BY <2>1 DEF VersionOK
  <2> HIDE DEF next, row, g
  <2>5. h = HandlerOf("create.rows", next, Idle.who, Idle.read, Idle.rows,
                      Idle.content, g, Approvers)
    <3>1. \A z, t :
             [Idle EXCEPT !.pc = "create.rows", !.doc = next, !.grade = z, !.todo = t] =
               HandlerOf("create.rows", next, Idle.who, Idle.read, Idle.rows,
                         Idle.content, z, t)
      BY IdleType, SetPcDocGradeTodo, Zenon
    <3> QED
      BY <3>1, Zenon
  <2> HIDE DEF h
  <2>6. PICK n \in Versions : n = next
    BY <2>2
  <2>7. PICK k \in Handler : Become(r, k) /\ k.pc = "create.rows" /\ k.doc = n
    BY <2>1, <2>2, <2>5, <2>6, IdleType DEF Handler, HandlerOf
  <2>8. PICK x \in {row} : docs' = [docs EXCEPT ![n] = x]
    BY <2>1, <2>6
  <2>9. docs'[n].status = "PENDING" /\ \A w \in Versions : w # n => docs'[w] = docs[w]
    BY <2>3, <2>8 DEF SInv, IInv, StateOK
  <2>10. ~HasRecord(n) /\ (\A a \in Approvers : appr[n][a].status = "none")
         /\ (\A w \in Versions : w > n => docs[w] = NoDoc)
    BY <1>2, <2>6, AbsentVersion
  <2>11. \A w \in Versions : w < n => docs[w].status = "INACTIVE"
    <3>1. docs[req[r].doc] # NoDoc
      BY <2>4 DEF NoDoc
    <3>2. \A w \in Versions : w < n => w = req[r].doc \/ w < req[r].doc
      BY <2>1, <2>2, <2>6 DEF Versions
    <3> QED
      BY <2>1, <2>4, <3>1, <3>2, EarlierInactive
  <2>12. WriterOK(k)'
    <3>1. /\ appr' = appr /\ docs'[k.doc].status = "PENDING"
          /\ ~CoordinatorIn(appr[k.doc]) /\ \A a \in Approvers : ~Exists(appr[k.doc], a)
      BY <2>1, <2>7, <2>9, <2>10, CoordinatorApproves DEF Exists, CoordinatorIn
    <3>2. ~Resets(k) /\ k.todo \subseteq Approvers
      BY <2>7 DEF Resets, Handler
    <3> QED
      BY <2>7, <3>1, <3>2 DEF WriterOK
  <2>13. GradeOK(k)' /\ k.pc \in Writing
    <3>1. \A w \in Versions : docs'[w].status # "APPROVED"
      BY <2>9, <2>10, <2>11 DEF Versions, NoDoc
    <3> QED
      BY <2>7, <3>1 DEF GradeOK, Writing
  <2>14. Current(k)'
    BY <2>12, <2>13, KindCurrentNext
  <2>15. \A m \in Handler : Beside(m, r) /\ m.doc = n => Current(m)' /\ ~Creates(m)
    BY <1>2, <2>6, BesideAbsent
  <2>16. \A m \in Handler : Beside(m, r) /\ Creates(m) /\ Creates(k) => m.doc # k.doc
    BY <2>7, <2>15
  <2>17. x.status = "PENDING" /\ UNCHANGED <<appr, grade, ledger>>
    BY <2>1, <2>3
  <2> QED
    BY <2>7, <2>8, <2>10, <2>11, <2>14, <2>15, <2>16, <2>17, DocStepSafe
<1> QED
  BY <1>1, <1>2

LEMMA VersionInactivateSafe ==
    ASSUME SInv, IInv', ~crossed', NEW r \in Requests, VersionInactivate(r)
    PROVE  SInv'
<1> DEFINE v == req[r].doc
           row == Inactivated(req[r].read)
           h == [req[r] EXCEPT !.pc = "version.create"]
<1>1. /\ req[r] \in Handler /\ HandlerOK(req[r], docs, ledger) /\ VersionOK(req[r])
      /\ req[r].pc = "version.inactivate" /\ v \in Versions
      /\ UNCHANGED <<appr, grade, ledger>>
      /\ docs' = [docs EXCEPT ![v] = row] /\ Become(r, h)
  BY KnownSafe DEF VersionInactivate, Current
<1>2. req[r].read = docs[v] /\ IsFullyApproved(appr[v]) /\ Full(docs[v])
  BY <1>1 DEF VersionOK, Revises, HandlerOK
<1>3. docs[v] \in DocRow
  BY <1>1 DEF SInv, IInv, StateOK
<1>4. row.status = "INACTIVE" /\ row.content = docs[v].content
  BY <1>2, <1>3 DEF Inactivated, DocRow
<1>5. h = HandlerOf("version.create", req[r].doc, req[r].who, req[r].read,
                    req[r].rows, req[r].content, req[r].grade, req[r].todo)
  BY <1>1, SetPc, Zenon
<1> HIDE DEF h, row
<1>6. PICK k \in Handler : Become(r, k) /\ k.pc = "version.create" /\ k.doc = v
  BY <1>1, <1>5 DEF Handler, HandlerOf
<1>7. \A n \in Handler : Beside(n, r) /\ n.doc = v =>
         /\ ~Revises(n) /\ ~Registers(n) /\ ~WritesRows(n) /\ n.pc # "submit.grade"
         /\ Current(n)
  <2> SUFFICES ASSUME NEW n \in Handler, Beside(n, r), n.doc = v
               PROVE  /\ ~Revises(n) /\ ~Registers(n) /\ ~WritesRows(n)
                      /\ n.pc # "submit.grade" /\ Current(n)
    OBVIOUS
  <2>1. Revises(req[r]) /\ ReliesOnRows(req[r])
    BY <1>1 DEF Revises, ReliesOnRows
  <2>2. ~Revises(n) /\ ~Registers(n) /\ ~WritesRows(n)
    BY <1>1, <2>1 DEF Beside, Collide
  <2>3. n.pc # "submit.grade"
    BY <1>2 DEF Beside, Current, WriterOK, IsFullyApproved
  <2> QED
    BY <2>2, <2>3 DEF Beside
<1> HIDE DEF v
<1>8. PICK x \in {row} : docs' = [docs EXCEPT ![v] = x]
  BY <1>1
<1>9. docs'[k.doc].status = "INACTIVE"
  BY <1>1, <1>4, <1>6, <1>8 DEF SInv, IInv, StateOK
<1>10. VersionOK(k)' /\ k.pc \in Revising
  BY <1>6, <1>9 DEF VersionOK, Revises, Revising
<1>11. Current(k)' /\ ~Creates(k)
  BY <1>10, KindCurrentNext, OfNoOtherKind, KindsDiffer
<1>12. docs[v] # NoDoc
  BY <1>2 DEF Full, NoDoc
<1>13. \A w \in Versions : w < v => docs[w].status = "INACTIVE"
  BY <1>1, <1>12, EarlierInactive
<1>14. /\ x.status = "INACTIVE" /\ x.content = docs[v].content /\ v \in Versions
       /\ UNCHANGED <<appr, grade, ledger>>
  BY <1>1, <1>4
<1>15. \A n \in Handler : Beside(n, r) /\ n.doc = v => Current(n)'
  BY <1>7, <1>8, <1>14, BesideStatus
<1> QED
  BY <1>2, <1>6, <1>8, <1>11, <1>13, <1>14, <1>15, DocStepSafe

LEMMA RegisterSaveSafe ==
    ASSUME SInv, IInv', ~crossed', NEW r \in Requests, RegisterSave(r)
    PROVE  SInv'
<1> DEFINE v == req[r].doc
           row == req[r].read
<1>1. /\ RegisterOK(req[r]) /\ HandlerOK(req[r], docs, ledger)
      /\ req[r].pc = "register.save" /\ v \in Versions
      /\ UNCHANGED <<appr, grade, ledger>>
      /\ docs' = [docs EXCEPT ![v] = row] /\ Become(r, Idle)
  BY KnownSafe DEF RegisterSave, Current
<1>2. /\ docs[v].status = "PENDING"
      /\ row.status = "APPROVED" /\ row.content = docs[v].content
      /\ ledger[row.tx].grade = grade /\ HasRecord(v)
  BY <1>1 DEF RegisterOK, HandlerOK, TxOK, HasRecord
<1>3. \A n \in Handler : Beside(n, r) =>
         /\ ~GradeToWrite(n)
         /\ n.doc = v => /\ ~Revises(n) /\ ~Registers(n) /\ ~WritesRows(n)
                         /\ n.pc \notin {"submit.grade", "version.create"} /\ Current(n)
  <2> SUFFICES ASSUME NEW n \in Handler, Beside(n, r)
               PROVE  /\ ~GradeToWrite(n)
                      /\ n.doc = v =>
                           /\ ~Revises(n) /\ ~Registers(n) /\ ~WritesRows(n)
                           /\ n.pc \notin {"submit.grade", "version.create"} /\ Current(n)
    OBVIOUS
  <2>1. Registers(req[r]) /\ Commits(req[r]) /\ ReliesOnRows(req[r])
    BY <1>1 DEF Registers, Commits, ReliesOnRows
  <2>2. ~GradeToWrite(n) /\ (n.doc = v => ~Revises(n) /\ ~Registers(n) /\ ~WritesRows(n))
    BY <1>1, <2>1 DEF Beside, Collide
  <2>3. n.doc = v => n.pc \notin {"submit.grade", "version.create"}
    BY <1>1, <1>2, MissingRow, CoordinatorApproves DEF Beside, Current, WriterOK, VersionOK
  <2> QED
    BY <2>2, <2>3 DEF Beside
<1> HIDE DEF v, row
<1>4. docs[v] # NoDoc
  BY <1>2 DEF NoDoc
<1>5. /\ \A w \in Versions : w < v => docs[w].status = "INACTIVE"
      /\ \A w \in Versions : w > v => docs[w] = NoDoc
  BY <1>1, <1>2, <1>4, EarlierInactive, PendingIsLatest
<1>6. \A n \in Handler : Beside(n, r) /\ n.doc = v => Current(n)'
  BY <1>1, <1>2, <1>3, BesideStatus
<1>7. \A n \in Handler : Beside(n, r) => ~GradeToWrite(n)
  BY <1>3
<1> QED
  BY <1>1, <1>2, <1>5, <1>6, <1>7, IdleType, IdleCurrent, DocStepSafe

LEMMA VersionReplaceSafe ==
    ASSUME SInv, IInv', ~crossed', NEW r \in Requests, VersionReplace(r)
    PROVE  SInv'
<1> DEFINE v == req[r].doc
           row == Replaced(req[r].read, req[r].content)
           g == req[r].grade
           h == [Idle EXCEPT !.pc = "reset.approvals", !.doc = v, !.grade = g]
<1>1. /\ req[r] \in Handler /\ HandlerOK(req[r], docs, ledger) /\ VersionOK(req[r])
      /\ req[r].pc = "version.replace" /\ v \in Versions
      /\ UNCHANGED <<appr, grade, ledger>>
      /\ docs' = [docs EXCEPT ![v] = row] /\ Become(r, h)
  BY KnownSafe DEF VersionReplace, Current
<1>2. req[r].read = docs[v] /\ docs[v].status = "PENDING" /\ ~HasRecord(v)
  BY <1>1 DEF VersionOK, Revises, Unrecorded
<1>3. docs[v] \in DocRow /\ g \in Grades \cup {NoGrade}
  BY <1>1 DEF SInv, IInv, StateOK, Handler
<1>4. row.status = "PENDING"
  BY <1>2, <1>3 DEF Replaced, DocRow
<1>5. \A n \in Handler : Beside(n, r) /\ n.doc = v => ~Revises(n) /\ ~Commits(n)
  BY <1>1 DEF Beside, Collide, Revises
<1> HIDE DEF v, row, g
<1>6. h = HandlerOf("reset.approvals", v, Idle.who, Idle.read, Idle.rows,
                    Idle.content, g, Idle.todo)
  BY IdleType, SetPcDocGrade, Zenon
<1> HIDE DEF h
<1>7. PICK k \in Handler : Become(r, k) /\ k = h /\ k.pc = "reset.approvals" /\ k.doc = v
  BY <1>1, <1>3, <1>6, IdleType DEF Handler, HandlerOf
<1>8. PICK x \in {row} : docs' = [docs EXCEPT ![v] = x]
  BY <1>1
<1>9. docs'[v] = x /\ \A w \in Versions : w # v => docs'[w] = docs[w]
  BY <1>1, <1>8 DEF SInv, IInv, StateOK
<1>10. x.status = "PENDING" /\ \A w \in Versions : docs'[w].status = docs[w].status
  BY <1>2, <1>4, <1>9
<1>11. \A w \in Versions : Unrecorded(w)' <=> Unrecorded(w)
  BY <1>1, <1>10 DEF Unrecorded, HasRecord
<1>12. docs[v] # NoDoc
  BY <1>2 DEF NoDoc
<1>13. /\ \A w \in Versions : w < v => docs[w].status = "INACTIVE"
       /\ \A w \in Versions : w > v => docs[w] = NoDoc
       /\ \A w \in Versions : docs[w].status # "APPROVED"
  BY <1>1, <1>2, <1>12, EarlierInactive, PendingIsLatest
<1>14. Current(k)' /\ ~Creates(k)
  <2>1. WriterOK(k)'
    BY <1>1, <1>2, <1>7, <1>11 DEF WriterOK, Resets, Creates, Unrecorded
  <2>2. GradeOK(k)' /\ k.pc \in Writing
    BY <1>7, <1>10, <1>13 DEF GradeOK, Writing
  <2> QED
    BY <1>7, <2>1, <2>2, KindCurrentNext DEF Creates
\* Who has read the old files, or the row, collides.
<1>15. \A n \in Handler : Beside(n, r) /\ StaysApart(n, k) /\ n.doc = v => Current(n)'
  <2> SUFFICES ASSUME NEW n \in Handler, Beside(n, r), StaysApart(n, k), n.doc = v
               PROVE  Current(n)'
    OBVIOUS
  <2>1. ReviewOK(n) /\ VersionOK(n) /\ WriterOK(n) /\ RegisterOK(n) /\ GradeOK(n)
    BY DEF Beside, Current
  <2>2. ~Revises(n) /\ ~Commits(n) /\ ~HoldsFiles(n)
    BY <1>5, <1>7 DEF StaysApart, Collide
  <2>3. ReviewOK(n)'
    BY <1>1, <2>1, <2>2 DEF ReviewOK
  <2>4. VersionOK(n)'
    BY <1>1, <1>10, <2>1, <2>2 DEF VersionOK, Revises
  <2>5. WriterOK(n)'
    BY <1>1, <1>10, <1>11, <2>1 DEF WriterOK
  <2>6. RegisterOK(n)'
    BY <1>1, <1>11, <2>1, <2>2 DEF RegisterOK, Commits
  <2>7. GradeOK(n)'
    BY <1>10, <2>1 DEF GradeOK
  <2> QED
    BY <2>3, <2>4, <2>5, <2>6, <2>7 DEF Current
<1>16. UNCHANGED <<appr, grade, ledger>> /\ v \in Versions
  BY <1>1
<1> QED
  BY <1>2, <1>7, <1>8, <1>10, <1>13, <1>14, <1>15, <1>16, DocStepSafe
-----------------------------------------------------------------------------
(* The step that puts a record on the ledger.                              *)

\* What a registration about to submit knows of its version.
LEMMA SubmittedRecord ==
    ASSUME SInv, NEW r \in Requests, req[r].pc = "register.submit"
    PROVE  /\ RecordOf(req[r]) \in Record /\ RecordOf(req[r]).doc = req[r].doc
           /\ RecordOf(req[r]).content = docs[req[r].doc].content
           /\ RecordOf(req[r]).grade = grade
           /\ RecordOf(req[r]).sigs = Signatures(appr[req[r].doc])
           /\ req[r].doc \in Versions /\ Unrecorded(req[r].doc)
           /\ HasAllRows(appr[req[r].doc]) /\ AllApproved(appr[req[r].doc])
<1>1. /\ RegisterOK(req[r]) /\ HandlerOK(req[r], docs, ledger)
      /\ req[r] \in Handler /\ req[r].doc \in Versions
  BY KnownSafe DEF Current
<1>2. /\ Unrecorded(req[r].doc) /\ req[r].rows = appr[req[r].doc] /\ AllApproved(req[r].rows)
      /\ req[r].read = docs[req[r].doc] /\ req[r].grade = grade
  BY <1>1 DEF RegisterOK, Registers
<1>3. HasAllRows(req[r].rows) /\ Full(req[r].read) /\ grade # NoGrade
  BY <1>1, <1>2 DEF HandlerOK
<1>4. /\ grade \in Grades \cup {NoGrade} /\ docs[req[r].doc] \in DocRow
      /\ appr[req[r].doc] \in [Approvers -> ApprovalRow]
  BY <1>1 DEF SInv, IInv, StateOK
<1>5. docs[req[r].doc].content \in Contents
  BY <1>2, <1>3, <1>4 DEF Full, DocRow
<1>6. Signatures(appr[req[r].doc]) \in [Approvers -> Contents \cup {NoContent}]
  BY <1>4 DEF Signatures, ApprovalRow
<1> QED
  BY <1>1, <1>2, <1>3, <1>4, <1>5, <1>6 DEF RecordOf, Record

LEMMA LedgerStepSafe ==
    ASSUME SInv, IInv', NEW r \in Requests, NEW h \in Handler, Become(r, h), ~crossed',
           req[r].pc = "register.submit", ledger' = Append(ledger, RecordOf(req[r])),
           UNCHANGED <<docs, appr, grade>>, Current(h)', ~Creates(h)
    PROVE  SInv'
<1>1. IInv /\ Recorded /\ Versioned /\ CoordinatorLast
  BY DEF SInv
<1>2. PICK e \in Record : e = RecordOf(req[r])
  BY SubmittedRecord
<1>3. PICK v \in Versions : v = req[r].doc
  BY SubmittedRecord
<1>4. /\ e.doc = v /\ e.content = docs[v].content /\ ~HasRecord(v)
      /\ HasAllRows(appr[v]) /\ AllApproved(appr[v])
  BY <1>2, <1>3, SubmittedRecord DEF Unrecorded
<1>5. ledger \in Seq(Record) /\ ledger' = Append(ledger, e)
  BY <1>1, <1>2 DEF IInv, StateOK
<1>6. /\ Len(ledger') = Len(ledger) + 1 /\ ledger'[Len(ledger) + 1] = e
      /\ \A i \in 1..Len(ledger) : ledger'[i] = ledger[i]
      /\ \A i \in 1..Len(ledger') : i \in 1..Len(ledger) \/ i = Len(ledger) + 1
      /\ Len(ledger) \in Nat
  BY <1>5
<1>7. \A i \in 1..Len(ledger) : ledger[i].doc # v
  BY <1>4 DEF HasRecord
<1>8. Recorded'
  <2>1. \A i \in 1..Len(ledger') :
           /\ HasAllRows(appr[ledger'[i].doc]) /\ AllApproved(appr[ledger'[i].doc])
           /\ ledger'[i].content = docs[ledger'[i].doc].content
    BY <1>1, <1>4, <1>6 DEF Recorded
  <2>2. OneRecord'
    <3> SUFFICES ASSUME NEW i \in 1..Len(ledger'), NEW j \in 1..Len(ledger'),
                        ledger'[i].doc = ledger'[j].doc
                 PROVE  i = j
      BY DEF OneRecord
    <3>1. CASE i \in 1..Len(ledger) /\ j \in 1..Len(ledger)
      BY <1>1, <1>6, <3>1 DEF Recorded, OneRecord
    <3>2. CASE i = Len(ledger) + 1 \/ j = Len(ledger) + 1
      BY <1>4, <1>6, <1>7, <3>2
    <3> QED
      BY <1>6, <3>1, <3>2
  <2>3. GradeInForce'
    <3>1. \A w \in Versions : docs[w].status = "APPROVED" => docs[w].tx \in 1..Len(ledger)
      BY <1>1 DEF IInv, DocOK, TxOK
    <3> QED
      BY <1>1, <1>6, <3>1 DEF Recorded, GradeInForce
  <2> QED
    BY <2>1, <2>2, <2>3 DEF Recorded
<1>9. Versioned' /\ CoordinatorLast'
  BY <1>1 DEF Versioned, LatestIsOpen, CoordinatorLast
<1>10. \A w \in Versions : w # v => (HasRecord(w)' => HasRecord(w))
  BY <1>4, <1>6 DEF HasRecord
<1>11. Commits(req[r]) /\ ReliesOnRows(req[r])
  BY DEF Commits, ReliesOnRows
<1>12. \A k \in Handler : Beside(k, r) => Current(k)'
  <2> SUFFICES ASSUME NEW k \in Handler, Beside(k, r) PROVE Current(k)'
    OBVIOUS
  <2>1. CASE k.doc # v
    <3>1. k.pc = "register.save" => k.read.tx \in 1..Len(ledger)
      BY DEF Beside, Current, RegisterOK, HandlerOK, TxOK
    <3>2. k.doc \in Versions
      BY DEF Handler
    <3> QED
      BY <1>6, <1>10, <2>1, <3>1, <3>2, Untouched DEF Beside
  <2>2. CASE k.doc = v
    <3>1. ~Registers(k) /\ ~Revises(k) /\ ~WritesRows(k)
      BY <1>3, <1>11, <2>2 DEF Beside, Collide
    <3>2. ReviewOK(k)'
      BY DEF Beside, Current, ReviewOK
    <3>3. VersionOK(k)'
      BY <3>1 DEF Beside, Current, VersionOK, Revises
    <3>4. WriterOK(k)'
      BY <3>1 DEF Beside, Current, WriterOK, WritesRows
    <3>5. RegisterOK(k)'
      BY <3>1 DEF RegisterOK, Registers
    <3>6. GradeOK(k)'
      BY DEF Beside, Current, GradeOK
    <3> QED
      BY <3>2, <3>3, <3>4, <3>5, <3>6 DEF Current
  <2> QED
    BY <2>1, <2>2
<1> QED
  BY <1>1, <1>8, <1>9, <1>12, SafeStep

LEMMA FabricReplyLostSafe ==
    ASSUME SInv, IInv', ~crossed', NEW r \in Requests, FabricReplyLost(r)
    PROVE  SInv'
BY IdleType, IdleCurrent, LedgerStepSafe DEF FabricReplyLost

LEMMA FabricCommitsSafe ==
    ASSUME SInv, IInv', ~crossed', NEW r \in Requests, FabricCommits(r)
    PROVE  SInv'
<1> DEFINE t == Len(ledger) + 1
           row == Registered(req[r].read, t)
           h == [req[r] EXCEPT !.pc = "register.save", !.rows = NoRows, !.grade = NoGrade,
                               !.read = row]
<1>1. /\ req[r] \in Handler /\ RegisterOK(req[r]) /\ HandlerOK(req[r], docs, ledger)
      /\ req[r].pc = "register.submit" /\ UNCHANGED <<docs, appr, grade>>
      /\ ledger' = Append(ledger, RecordOf(req[r])) /\ Become(r, h)
      /\ req[r].doc \in Versions
  BY KnownSafe DEF FabricCommits, Current
<1>2. /\ docs[req[r].doc].status = "PENDING" /\ req[r].read = docs[req[r].doc]
  BY <1>1, SubmittedRecord DEF RegisterOK, Unrecorded
<1>3. ledger \in Seq(Record) /\ docs[req[r].doc] \in DocRow
  BY <1>1 DEF SInv, IInv, StateOK
<1>4. /\ row \in DocRow /\ row.status = "APPROVED" /\ row.tx = t
      /\ row.content = docs[req[r].doc].content
  <2>1. t \in Nat
    BY <1>3
  <2>2. row = [status |-> "APPROVED", content |-> req[r].read.content, tx |-> t]
    BY <1>2, <1>3, <2>1, RegisteredRow, Zenon
  <2> HIDE DEF row
  <2> QED
    BY <1>2, <1>3, <2>1, <2>2 DEF DocRow
<1>5. ledger'[t].grade = grade
  BY <1>1, <1>3, SubmittedRecord
<1> HIDE DEF t, row
<1>6. h = HandlerOf("register.save", req[r].doc, req[r].who, row, NoRows,
                    req[r].content, NoGrade, req[r].todo)
  <2>1. \A p, y, g, x :
           [req[r] EXCEPT !.pc = p, !.rows = y, !.grade = g, !.read = x] =
             HandlerOf(p, req[r].doc, req[r].who, x, y, req[r].content, g, req[r].todo)
    BY <1>1, SetPcRowsGradeRead, Zenon
  <2>2. \A g, x :
           [req[r] EXCEPT !.pc = "register.save", !.rows = NoRows, !.grade = g,
                          !.read = x] =
             HandlerOf("register.save", req[r].doc, req[r].who, x, NoRows,
                       req[r].content, g, req[r].todo)
    BY <2>1, Zenon
  <2> QED
    BY <2>2, Zenon
<1> HIDE DEF h
<1>7. PICK k \in Handler : /\ Become(r, k) /\ k.pc = "register.save"
                           /\ k.doc = req[r].doc /\ k.read = row
  BY <1>1, <1>4, <1>6, Nothing DEF Handler, HandlerOf
<1>8. RegisterOK(k)' /\ k.pc \in Recording
  BY <1>1, <1>2, <1>4, <1>5, <1>7 DEF RegisterOK, Recording
<1>9. Current(k)' /\ ~Creates(k)
  BY <1>8, KindCurrentNext, OfNoOtherKind, KindsDiffer
<1> QED
  BY <1>1, <1>7, <1>9, LedgerStepSafe
-----------------------------------------------------------------------------
LEMMA InitSafe == Init => SInv
<1> SUFFICES ASSUME Init PROVE SInv
  OBVIOUS
<1>1. IInv
  BY InitHolds
<1>2. /\ docs = [v \in Versions |-> NoDoc] /\ appr = [v \in Versions |-> NoRows]
      /\ ledger = <<>> /\ req = [r \in Requests |-> Idle] /\ NoDoc.status = "none"
  BY DEF Init, NoDoc
<1>3. Recorded
  BY <1>2 DEF Recorded, OneRecord, GradeInForce
<1>4. Versioned
  BY <1>2 DEF Versioned, LatestIsOpen
<1>5. CoordinatorLast
  BY <1>2, CoordinatorApproves DEF CoordinatorLast, RowsInOrder, CoordinatorIn, NoRows, NoRow
<1>6. \A r \in Requests : Current(req[r])
  BY <1>2, IdleCurrent
<1>7. Apart
  BY <1>2, IdleCurrent, IdleFields
     DEF Apart, Collide, Revises, Registers, WritesRows, Resets, RowsOf, HoldsFiles, GradeToWrite
<1> QED
  BY <1>1, <1>3, <1>4, <1>5, <1>6, <1>7 DEF SInv

LEMMA StutterSafe == SInv /\ UNCHANGED vars => SInv'
<1> SUFFICES ASSUME SInv, UNCHANGED vars PROVE SInv'
  OBVIOUS
<1>1. /\ docs' = docs /\ appr' = appr /\ grade' = grade /\ ledger' = ledger /\ req' = req
  BY DEF vars
<1>2. IInv'
  BY StutterHolds DEF SInv
<1>3. Recorded' /\ Versioned' /\ CoordinatorLast' /\ Apart'
  BY <1>1 DEF SInv, Recorded, OneRecord, GradeInForce, Versioned, LatestIsOpen,
              CoordinatorLast, Apart
<1>4. \A r \in Requests : Current(req[r])'
  <2> TAKE r \in Requests
  <2>1. PICK k \in Handler : k = req[r] /\ Current(k)
    BY KnownSafe
  <2>2. HasRecord(k.doc)' => HasRecord(k.doc)
    BY <1>1 DEF HasRecord
  <2>3. Current(k)'
    BY <1>1, <2>1, <2>2, Untouched
  <2>4. req'[r] = k
    BY <1>1, <2>1
  <2> QED
    BY <2>3, <2>4 DEF Current, ReviewOK, VersionOK, WriterOK, RegisterOK, GradeOK
<1> QED
  BY <1>1, <1>2, <1>3, <1>4 DEF SInv

\* Once crossed, the handlers have crossed for good.
LEMMA CrossedStays ==
    ASSUME [Next]_vars, crossed
    PROVE  crossed'
<1>1. CASE UNCHANGED vars
  BY <1>1 DEF vars
<1>2. CASE Next
  <2>1. \E h, r : Become(r, h)
    BY <1>2, ArriveUnreset, ContinueUnreset DEF Next, Abort
  <2> QED
    BY <2>1 DEF Become
<1> QED
  BY <1>1, <1>2

LEMMA NextSafe ==
    ASSUME SInv, IInv', [Next]_vars, ~crossed'
    PROVE  SInv'
<1> SUFFICES ASSUME Next PROVE SInv'
  BY StutterSafe
<1>1. PICK r \in Requests : Arrive(r) \/ Continue(r) \/ Abort(r)
  BY DEF Next
<1>2. CASE Arrive(r)
  BY <1>2, SubmitBeginSafe, RowRequestSafe, VersionBeginSafe DEF Arrive
<1>3. CASE Submit(r)
  BY <1>3, SubmitCreateSafe, SubmitGradeSafe DEF Submit
<1>4. CASE Finish(r)
  BY <1>4, PendingRowSafe, CreateRowsFailsSafe, UpdateGradeSafe DEF Finish
<1>5. CASE Approve(r)
  BY <1>5, ApproveLoadDocumentSafe, ApproveLoadApprovalsSafe, ApproveSignSafe,
     EndsKeepsSafe DEF Approve
<1>6. CASE Register(r)
  BY <1>6, RegisterReadApprovalsSafe, RegisterReadDocumentSafe,
     RegisterReadDefenseSafe, FabricCommitsSafe, EndsKeepsSafe,
     FabricReplyLostSafe, RegisterSaveSafe DEF Register
<1>7. CASE Review(r)
  BY <1>7, ReviewSafe
<1>8. CASE Version(r)
  BY <1>8, VersionDecideSafe, VersionInactivateSafe, VersionCreateSafe,
     VersionReplaceSafe, ResetReadApprovalsSafe, PendingRowSafe DEF Version
<1>9. CASE Abort(r)
  BY <1>9, EndsKeepsSafe
<1> QED
  BY <1>1, <1>2, <1>3, <1>4, <1>5, <1>6, <1>7, <1>8, <1>9 DEF Continue

\* Until two handlers collide, SInv holds in every reachable state.
THEOREM Safe == Spec => [](crossed \/ SInv)
<1>1. Init => crossed \/ SInv
  BY InitSafe
<1>2. IInv' /\ (crossed \/ SInv) /\ [Next]_vars => (crossed \/ SInv)'
  BY NextSafe, CrossedStays
<1> QED
  BY <1>1, <1>2, Inductive, PTL DEF Spec

-----------------------------------------------------------------------------
(* The theorems.                                                           *)

\* A version is put on the ledger at most once, as long as no two handlers
\* collided: a lost reply, a refusal or a stop does not lead to a second record.
THEOREM RecordedOnce == Spec => []AtMostOneRecord
<1>1. crossed \/ SInv => AtMostOneRecord
  BY DEF SInv, Recorded, OneRecord, AtMostOneRecord
<1> QED
  BY <1>1, Safe, PTL

\* The files the ledger has of a registered version are those of the database.
THEOREM ContentMatches == Spec => []RegisteredContentMatches
<1>1. SInv => RegisteredContentMatches
  <2> SUFFICES ASSUME SInv, NEW v \in Versions, docs[v].tx # 0
               PROVE  ledger[docs[v].tx].content = docs[v].content
    BY DEF RegisteredContentMatches
  <2>1. docs[v].tx \in 1..Len(ledger) /\ ledger[docs[v].tx].doc = v
    BY DEF SInv, IInv, DocOK, TxOK
  <2> QED
    BY <2>1 DEF SInv, Recorded
<1>2. crossed \/ SInv => RegisteredContentMatches
  BY <1>1 DEF RegisteredContentMatches
<1> QED
  BY <1>2, Safe, PTL

\* The grade on the ledger of the version in force is the defense's.
THEOREM GradeMatches == Spec => []RecordInForceHasTheGrade
<1>1. crossed \/ SInv => RecordInForceHasTheGrade
  BY DEF SInv, Recorded, GradeInForce, RecordInForceHasTheGrade
<1> QED
  BY <1>1, Safe, PTL

\* The coordinator approves last, however the others' approvals, rejections and
\* overrides and the creation and the reset of the rows overlap.
THEOREM CoordinatorIsLast == Spec => []CoordinatorApprovesLast
<1>1. crossed \/ SInv => CoordinatorApprovesLast
  BY DEF SInv, CoordinatorLast, RowsInOrder, CoordinatorIn, CoordinatorApprovesLast
<1> QED
  BY <1>1, Safe, PTL

\* Only the latest version is open.
THEOREM OnlyLatest == Spec => []OnlyLatestIsOpen
<1>1. crossed \/ SInv => OnlyLatestIsOpen
  BY DEF SInv, Versioned, LatestIsOpen, OnlyLatestIsOpen
<1> QED
  BY <1>1, Safe, PTL
LEMMA LedgerWrites ==
    ASSUME [Next]_vars
    PROVE  \/ ledger' = ledger
           \/ \E r \in Requests : /\ req[r].pc = "register.submit"
                                  /\ ledger' = Append(ledger, RecordOf(req[r]))
BY DEF vars, Next, Arrive, Continue, Submit, Finish, Approve, Register, Review,
   Version, SubmitBegin, SubmitCreate, SubmitGrade, CreateRow, CreateRowsFails,
   UpdateGrade, ApproveBegin, ApproveLoadDocument, ApproveLoadApprovals, ApproveSign,
   ApproveAdvisor, SignFails, RegisterReadApprovals, RegisterReadDocument,
   RegisterReadDefense, FabricCommits, FabricRefuses, FabricReplyLost, RegisterSave,
   RejectBegin, RejectSave, OverrideBegin, OverrideSave, VersionBegin, VersionDecide,
   VersionInactivate, VersionCreate, VersionReplace, ResetReadApprovals, ResetWrite, Abort

\* The ledger grows only by a version all of whose rows are APPROVED at that
\* moment, however long before it the registration read them.
THEOREM ApprovedWhenSubmitted == Spec => OnlyApprovedIsSubmitted
<1> DEFINE Submission == crossed' \/ \A i \in 1..Len(ledger') : i > Len(ledger) =>
                \A a \in Approvers : appr[ledger'[i].doc][a].status = "APPROVED"
<1>1. (crossed \/ SInv) /\ (crossed \/ SInv)' /\ [Next]_vars => Submission
  <2> SUFFICES ASSUME crossed \/ SInv, [Next]_vars, ~crossed' PROVE Submission
    OBVIOUS
  <2>1. SInv
    BY CrossedStays
  <2>2. ledger \in Seq(Record)
    BY <2>1 DEF SInv, IInv, StateOK
  <2>3. CASE ledger' = ledger
    BY <2>2, <2>3
  <2>4. ASSUME NEW r \in Requests, req[r].pc = "register.submit",
               ledger' = Append(ledger, RecordOf(req[r]))
        PROVE  Submission
    <3>1. PICK e \in Record : e = RecordOf(req[r])
      BY <2>1, <2>4, SubmittedRecord
    <3>2. HasAllRows(appr[e.doc]) /\ AllApproved(appr[e.doc])
      BY <2>1, <2>4, <3>1, SubmittedRecord
    <3>3. \A i \in 1..Len(ledger') : i > Len(ledger) => ledger'[i] = e
      BY <2>2, <2>4, <3>1
    <3> QED
      BY <3>2, <3>3 DEF HasAllRows, AllApproved
  <2> QED
    BY <2>3, <2>4, LedgerWrites
<1>2. Submission => [crossed' \/ \A i \in 1..Len(ledger') : i > Len(ledger) =>
                \A a \in Approvers : appr[ledger'[i].doc][a].status = "APPROVED"]_vars
  OBVIOUS
<1> HIDE DEF Submission
<1> QED
  BY <1>1, <1>2, Safe, PTL DEF Spec, OnlyApprovedIsSubmitted

-----------------------------------------------------------------------------
(* The files that were signed.  A row is APPROVED over the files as they   *)
(* are, or some handler is still going to reset it, or one that was going  *)
(* to has stopped.                                                         *)

ToBeReset(h, v, a) ==
    h.doc = v /\ (h.pc = "reset.approvals" \/ (h.pc = "reset.write" /\ a \in h.todo))

SignedFiles ==
    \A v \in Versions, a \in Approvers : appr[v][a].status = "APPROVED" =>
        \/ v \in unreset \/ appr[v][a].sig = docs[v].content
        \/ \E q \in Requests : ToBeReset(req[q], v, a)
Covered ==
    \A i \in 1..Len(ledger), a \in Approvers :
        ledger[i].doc \in unreset \/ ledger[i].sigs[a] = ledger[i].content

FInv == SInv /\ SignedFiles /\ Covered

\* What a step has to show of each row.
Stays(r, v, a) ==
    /\ appr'[v][a] = appr[v][a] /\ docs'[v].content = docs[v].content
    /\ ToBeReset(req[r], v, a) => ToBeReset(req'[r], v, a) \/ v \in unreset'

LEMMA FilesStep ==
    ASSUME FInv, SInv', NEW r \in Requests, NEW h, Become(r, h), unreset \subseteq unreset',
           \A v \in Versions, a \in Approvers : appr'[v][a].status = "APPROVED" =>
               \/ appr'[v][a].sig = docs'[v].content
               \/ ToBeReset(req'[r], v, a) \/ Stays(r, v, a),
           Covered'
    PROVE  FInv'
<1>1. \A q \in Requests : q # r => req'[q] = req[q]
  BY DEF Become, FInv, SInv, IInv, StateOK
<1>2. SignedFiles'
  <2> SUFFICES ASSUME NEW v \in Versions, NEW a \in Approvers,
                      appr'[v][a].status = "APPROVED"
               PROVE  \/ v \in unreset' \/ appr'[v][a].sig = docs'[v].content
                      \/ \E q \in Requests : ToBeReset(req'[q], v, a)
    BY DEF SignedFiles, ToBeReset
  <2>1. CASE Stays(r, v, a)
    <3>1. \/ v \in unreset' \/ appr'[v][a].sig = docs'[v].content
          \/ \E q \in Requests : ToBeReset(req[q], v, a)
      BY <2>1 DEF Stays, FInv, SignedFiles
    <3>2. \A q \in Requests : ToBeReset(req[q], v, a) =>
             v \in unreset' \/ ToBeReset(req'[q], v, a)
      BY <1>1, <2>1 DEF Stays
    <3> QED
      BY <3>1, <3>2
  <2>2. CASE ~Stays(r, v, a)
    BY <2>2
  <2> QED
    BY <2>1, <2>2
<1> QED
  BY <1>2 DEF FInv

LEMMA CoveredStays == Covered /\ UNCHANGED ledger /\ unreset \subseteq unreset' => Covered'
BY DEF Covered

\* A step that writes no approval row, no files and no record.
LEMMA ReadStepFiles ==
    ASSUME FInv, SInv', NEW r \in Requests, NEW h, Become(r, h), unreset \subseteq unreset',
           UNCHANGED <<appr, ledger>>,
           \A v \in Versions : docs'[v].content = docs[v].content,
           \A v \in Versions, a \in Approvers :
               ToBeReset(req[r], v, a) /\ appr[v][a].status = "APPROVED" =>
                   ToBeReset(req'[r], v, a) \/ v \in unreset'
    PROVE  FInv'
<1>1. \A v \in Versions, a \in Approvers :
         appr'[v][a].status = "APPROVED" => Stays(r, v, a)
  BY DEF Stays
<1>2. Covered'
  BY CoveredStays DEF FInv
<1> QED
  BY <1>1, <1>2, FilesStep

NotResetting(r) == req[r].pc \notin {"reset.approvals", "reset.write"}

LEMMA NoneToBeReset ==
    ASSUME NEW r \in Requests, NotResetting(r)
    PROVE  \A v \in Versions, a \in Approvers : ~ToBeReset(req[r], v, a)
BY DEF NotResetting, ToBeReset

\* The steps of Next that leave the tables and the ledger as they are.
LEMMA ReadersFiles ==
    ASSUME FInv, SInv', NEW r \in Requests,
           \/ Arrive(r) \/ SubmitGrade(r) \/ CreateRowsFails(r) \/ UpdateGrade(r)
           \/ ApproveLoadDocument(r) \/ ApproveLoadApprovals(r) \/ SignFails(r)
           \/ RegisterReadApprovals(r) \/ RegisterReadDocument(r) \/ RegisterReadDefense(r)
           \/ FabricRefuses(r) \/ VersionDecide(r)
    PROVE  FInv'
<1>1. /\ UNCHANGED <<docs, appr, ledger, unreset>>
      /\ NotResetting(r) \/ UpdateGrade(r)
      /\ \E h : Become(r, h)
  BY DEF Arrive, SubmitBegin, SubmitGrade, CreateRowsFails, UpdateGrade, ApproveBegin,
     ApproveLoadDocument, ApproveLoadApprovals, SignFails, RegisterReadApprovals,
     RegisterReadDocument, RegisterReadDefense, FabricRefuses, RejectBegin, OverrideBegin,
     VersionBegin, VersionDecide, Begin, Settle, NotResetting
<1>2. \A v \in Versions, a \in Approvers : ~ToBeReset(req[r], v, a)
  BY <1>1, NoneToBeReset DEF UpdateGrade, ToBeReset
<1> QED
  BY <1>1, <1>2, ReadStepFiles

\* A handler that stops before the rows are reset leaves its mark.
LEMMA AbortFiles ==
    ASSUME FInv, SInv', NEW r \in Requests, Abort(r)
    PROVE  FInv'
<1>1. /\ UNCHANGED <<docs, appr, ledger>> /\ Become(r, Idle)
      /\ unreset' = IF Resets(req[r]) THEN unreset \cup {req[r].doc} ELSE unreset
  BY DEF Abort
<1>2. \A v \in Versions, a \in Approvers : ToBeReset(req[r], v, a) => v \in unreset'
  BY <1>1 DEF ToBeReset, Resets
<1> QED
  BY <1>1, <1>2, ReadStepFiles

LEMMA ResetReadApprovalsFiles ==
    ASSUME FInv, SInv', NEW r \in Requests, ResetReadApprovals(r)
    PROVE  FInv'
<1> DEFINE t == ToReset(appr[req[r].doc])
           h == [req[r] EXCEPT !.pc = "reset.write", !.todo = t]
<1>1. /\ UNCHANGED <<docs, appr, ledger, unreset>> /\ Settle(r, h) /\ req[r] \in Handler
      /\ req \in [Requests -> Handler]
  BY KnownSafe DEF ResetReadApprovals, FInv, SInv, IInv, StateOK
<1>2. \A a \in Approvers : appr[req[r].doc][a].status = "APPROVED" => a \in t
  BY DEF ToReset
<1> HIDE DEF t
<1>3. h = HandlerOf("reset.write", req[r].doc, req[r].who, req[r].read, req[r].rows,
                    req[r].content, req[r].grade, t)
  BY <1>1, SetPcTodo, Zenon
<1> HIDE DEF h
<1>4. h.pc = "reset.write" /\ h.doc = req[r].doc /\ h.todo = t
  BY <1>3 DEF HandlerOf
<1>5. t # {} => req'[r] = h
  BY <1>1, <1>4 DEF Settle, Become
<1>6. \A v \in Versions, a \in Approvers :
         ToBeReset(req[r], v, a) /\ appr[v][a].status = "APPROVED" => ToBeReset(req'[r], v, a)
  BY <1>2, <1>4, <1>5 DEF ToBeReset
<1>7. \E k : Become(r, k)
  BY <1>1 DEF Settle
<1> QED
  BY <1>1, <1>6, <1>7, ReadStepFiles

\* A step that writes one approval row.
LEMMA RowStepFiles ==
    ASSUME FInv, SInv', NEW r \in Requests, NEW h, Become(r, h),
           NEW v \in Versions, NEW a \in Approvers, NEW row,
           appr' = [appr EXCEPT ![v][a] = row], UNCHANGED <<docs, ledger, unreset>>,
           row.status = "APPROVED" => row.sig = docs[v].content,
           \A w \in Versions, b \in Approvers :
               ToBeReset(req[r], w, b) => ToBeReset(req'[r], w, b) \/ (w = v /\ b = a)
    PROVE  FInv'
<1>1. /\ appr'[v][a] = row
      /\ \A w \in Versions, b \in Approvers : ~(w = v /\ b = a) => appr'[w][b] = appr[w][b]
  BY DEF FInv, SInv, IInv, StateOK
<1>2. \A w \in Versions, b \in Approvers : ~(w = v /\ b = a) => Stays(r, w, b)
  BY <1>1 DEF Stays
<1>3. row.status = "APPROVED" => appr'[v][a].sig = docs'[v].content
  BY <1>1
<1>4. Covered'
  BY CoveredStays DEF FInv
<1> QED
  BY <1>1, <1>2, <1>3, <1>4, FilesStep

LEMMA PendingRowFiles ==
    ASSUME FInv, SInv', NEW r \in Requests, CreateRow(r) \/ ResetWrite(r)
    PROVE  FInv'
<1>1. PICK a \in First(req[r].todo) :
         /\ appr' = [appr EXCEPT ![req[r].doc][a] = Pending]
         /\ Settle(r, [req[r] EXCEPT !.todo = @ \ {a}])
  BY DEF CreateRow, ResetWrite
<1> DEFINE h == [req[r] EXCEPT !.todo = @ \ {a}]
<1>2. /\ req[r] \in Handler /\ UNCHANGED <<docs, ledger, unreset>> /\ Settle(r, h)
      /\ req[r].doc \in Versions /\ a \in Approvers /\ req \in [Requests -> Handler]
      /\ req[r].pc \in {"create.rows", "reset.write"}
  BY <1>1, KnownSafe DEF CreateRow, ResetWrite, FInv, SInv, IInv, StateOK, First
<1>3. h = HandlerOf(req[r].pc, req[r].doc, req[r].who, req[r].read, req[r].rows,
                    req[r].content, req[r].grade, req[r].todo \ {a})
  BY <1>2, SetTodo, Zenon
<1> HIDE DEF h
<1>4. h.pc = req[r].pc /\ h.doc = req[r].doc /\ h.todo = req[r].todo \ {a}
  BY <1>3 DEF HandlerOf
<1>5. h.todo # {} => req'[r] = h
  BY <1>2 DEF Settle, Become
<1>6. \A w \in Versions, b \in Approvers :
         ToBeReset(req[r], w, b) => ToBeReset(req'[r], w, b) \/ (w = req[r].doc /\ b = a)
  BY <1>2, <1>4, <1>5 DEF ToBeReset
<1>7. PICK row \in {Pending} : appr' = [appr EXCEPT ![req[r].doc][a] = row]
  BY <1>1
<1>8. row.status # "APPROVED" /\ \E k : Become(r, k)
  BY <1>2 DEF Pending, Settle
<1> QED
  BY <1>2, <1>6, <1>7, <1>8, RowStepFiles

LEMMA ReviewFiles ==
    ASSUME FInv, SInv', NEW r \in Requests, Review(r)
    PROVE  FInv'
<1>1. PICK row \in {Rejected, Pending} :
         appr' = [appr EXCEPT ![req[r].doc][req[r].who] = row]
  BY DEF Review, RejectSave, OverrideSave
<1>2. /\ row.status # "APPROVED" /\ UNCHANGED <<docs, ledger, unreset>>
      /\ NotResetting(r) /\ Become(r, Idle)
  BY DEF Rejected, Pending, Review, RejectSave, OverrideSave, NotResetting
<1>3. req[r].doc \in Versions /\ req[r].who \in Approvers
  BY KnownSafe DEF FInv
<1> QED
  BY <1>1, <1>2, <1>3, NoneToBeReset, RowStepFiles

\* What is signed is the files as read, and nobody has replaced them since.
LEMMA ApproveSignFiles ==
    ASSUME FInv, SInv', NEW r \in Requests, ApproveSign(r) \/ ApproveAdvisor(r)
    PROVE  FInv'
<1>1. /\ req[r].pc \in {"approve.sign", "approve.advisor"}
      /\ UNCHANGED <<docs, ledger, unreset>> /\ (\E h : Become(r, h))
      /\ req[r].doc \in Versions /\ req[r].who \in Approvers /\ ReviewOK(req[r])
  BY KnownSafe DEF ApproveSign, ApproveAdvisor, FInv, Current
<1>2. PICK a \in Approvers, row \in {Approved(req[r].content)} :
         appr' = [appr EXCEPT ![req[r].doc][a] = row]
  BY <1>1, CoordinatorApproves DEF ApproveSign, ApproveAdvisor
<1>3. row.sig = docs[req[r].doc].content
  BY <1>1 DEF Approved, ReviewOK, HoldsFiles
<1>4. NotResetting(r)
  BY <1>1 DEF NotResetting
<1> QED
  BY <1>1, <1>2, <1>3, <1>4, NoneToBeReset, RowStepFiles
\* A step that writes one document row.
LEMMA DocStepFiles ==
    ASSUME FInv, SInv', NEW r \in Requests, NEW h, Become(r, h),
           NEW v \in Versions, NEW row, docs' = [docs EXCEPT ![v] = row],
           UNCHANGED <<appr, ledger, unreset>>, NotResetting(r),
           \/ row.content = docs[v].content
           \/ \A a \in Approvers : appr[v][a].status = "APPROVED" => ToBeReset(req'[r], v, a)
    PROVE  FInv'
<1>1. docs'[v] = row /\ \A w \in Versions : w # v => docs'[w] = docs[w]
  BY DEF FInv, SInv, IInv, StateOK
<1>2. \A w \in Versions, a \in Approvers : appr'[w][a].status = "APPROVED" =>
         ToBeReset(req'[r], w, a) \/ Stays(r, w, a)
  BY <1>1, NoneToBeReset DEF Stays
<1>3. Covered'
  BY CoveredStays DEF FInv
<1> QED
  BY <1>2, <1>3, FilesStep

LEMMA CreateFiles ==
    ASSUME FInv, SInv', NEW r \in Requests, SubmitCreate(r) \/ VersionCreate(r)
    PROVE  FInv'
<1>1. /\ SInv /\ NotResetting(r) /\ UNCHANGED <<appr, ledger, unreset>>
      /\ HandlerOK(req[r], docs, ledger) /\ req[r].doc \in Versions /\ \E h : Become(r, h)
  BY KnownSafe DEF SubmitCreate, VersionCreate, FInv, NotResetting
<1>2. CASE UNCHANGED docs
  BY <1>1, <1>2, NoneToBeReset, ReadStepFiles
<1>3. ASSUME NEW v \in Versions, NEW row, docs[v] = NoDoc, docs' = [docs EXCEPT ![v] = row]
      PROVE  FInv'
  <2>1. \A a \in Approvers : appr[v][a].status # "APPROVED"
    BY <1>1, <1>3, AbsentVersion
  <2> QED
    BY <1>1, <1>3, <2>1, DocStepFiles
<1>4. CASE SubmitCreate(r)
  <2>1. req[r].doc = 1
    BY <1>1, <1>4 DEF SubmitCreate, HandlerOK
  <2> QED
    BY <1>1, <1>2, <1>3, <1>4, <2>1 DEF SubmitCreate
<1>5. CASE VersionCreate(r)
  <2>1. req[r].doc + 1 \in Versions
    BY <1>1, <1>5 DEF VersionCreate, HandlerOK
  <2> QED
    BY <1>2, <1>3, <1>5, <2>1 DEF VersionCreate
<1> QED
  BY <1>4, <1>5

LEMMA VersionInactivateFiles ==
    ASSUME FInv, SInv', NEW r \in Requests, VersionInactivate(r)
    PROVE  FInv'
<1> DEFINE v == req[r].doc
<1>1. /\ SInv /\ VersionOK(req[r]) /\ req[r].pc = "version.inactivate" /\ v \in Versions
      /\ UNCHANGED <<appr, ledger, unreset>> /\ NotResetting(r) /\ (\E h : Become(r, h))
      /\ docs' = [docs EXCEPT ![v] = Inactivated(req[r].read)]
  BY KnownSafe DEF VersionInactivate, FInv, Current, NotResetting
<1>2. req[r].read = docs[v] /\ docs[v] \in DocRow
  BY <1>1 DEF VersionOK, Revises, SInv, IInv, StateOK
<1>3. Inactivated(req[r].read).content = docs[v].content
  BY <1>2 DEF Inactivated, DocRow
<1>4. PICK row \in {Inactivated(req[r].read)} : docs' = [docs EXCEPT ![v] = row]
  BY <1>1
<1> HIDE DEF v
<1> QED
  BY <1>1, <1>3, <1>4, DocStepFiles

\* The files are replaced, and every row is to be reset.
LEMMA VersionReplaceFiles ==
    ASSUME FInv, SInv', NEW r \in Requests, VersionReplace(r)
    PROVE  FInv'
<1> DEFINE v == req[r].doc
           g == req[r].grade
           h == [Idle EXCEPT !.pc = "reset.approvals", !.doc = v, !.grade = g]
<1>1. /\ SInv /\ v \in Versions /\ UNCHANGED <<appr, ledger, unreset>> /\ NotResetting(r)
      /\ docs' = [docs EXCEPT ![v] = Replaced(req[r].read, req[r].content)]
      /\ Become(r, h) /\ req \in [Requests -> Handler]
  BY KnownSafe DEF VersionReplace, FInv, NotResetting, SInv, IInv, StateOK
<1> HIDE DEF v, g
<1>2. h = HandlerOf("reset.approvals", v, Idle.who, Idle.read, Idle.rows,
                    Idle.content, g, Idle.todo)
  BY IdleType, SetPcDocGrade, Zenon
<1> HIDE DEF h
<1>3. h.pc = "reset.approvals" /\ h.doc = v
  BY <1>2 DEF HandlerOf
<1>4. \A a \in Approvers : ToBeReset(req'[r], v, a)
  BY <1>1, <1>3 DEF ToBeReset, Become
<1>5. \E row : docs' = [docs EXCEPT ![v] = row]
  BY <1>1
<1>6. v \in Versions /\ UNCHANGED <<appr, ledger, unreset>> /\ NotResetting(r) /\ Become(r, h)
  BY <1>1
<1> QED
  BY <1>4, <1>5, <1>6, DocStepFiles

LEMMA RegisterSaveFiles ==
    ASSUME FInv, SInv', NEW r \in Requests, RegisterSave(r)
    PROVE  FInv'
<1> DEFINE v == req[r].doc
           row == req[r].read
<1>1. /\ SInv /\ RegisterOK(req[r]) /\ req[r].pc = "register.save" /\ v \in Versions
      /\ UNCHANGED <<appr, ledger, unreset>> /\ NotResetting(r) /\ Become(r, Idle)
      /\ docs' = [docs EXCEPT ![v] = row]
  BY KnownSafe DEF RegisterSave, FInv, Current, NotResetting
<1>2. row.content = docs[v].content
  BY <1>1 DEF RegisterOK
<1> HIDE DEF v, row
<1> QED
  BY <1>1, <1>2, DocStepFiles

\* What a registration sends carries everybody's signature of the files it
\* sends: who is still going to reset a row would collide with it.
LEMMA SubmittedSigned ==
    ASSUME FInv, NEW r \in Requests, req[r].pc = "register.submit"
    PROVE  \/ req[r].doc \in unreset
           \/ \A a \in Approvers : RecordOf(req[r]).sigs[a] = RecordOf(req[r]).content
<1> DEFINE v == req[r].doc
           e == RecordOf(req[r])
<1>1. SInv
  BY DEF FInv
<1>2. /\ v \in Versions /\ e.content = docs[v].content
      /\ e.sigs = Signatures(appr[v]) /\ HasAllRows(appr[v]) /\ AllApproved(appr[v])
  BY <1>1, SubmittedRecord
<1>3. \A q \in Requests, a \in Approvers : ~ToBeReset(req[q], v, a)
  <2> SUFFICES ASSUME NEW q \in Requests, NEW a \in Approvers, ToBeReset(req[q], v, a)
               PROVE  FALSE
    OBVIOUS
  <2>1. q # r /\ req[q].doc = v /\ WritesRows(req[q])
    BY DEF ToBeReset, WritesRows, Resets
  <2>2. ReliesOnRows(req[r])
    BY DEF ReliesOnRows, Commits
  <2> QED
    BY <1>1, <2>1, <2>2 DEF SInv, Apart, Collide
<1> HIDE DEF v, e
<1>4. v \in unreset \/
      \A a \in Approvers : appr[v][a].status = "APPROVED" => appr[v][a].sig = docs[v].content
  BY <1>2, <1>3 DEF FInv, SignedFiles
<1>5. v \in unreset \/ \A a \in Approvers : e.sigs[a] = e.content
  BY <1>2, <1>4 DEF HasAllRows, AllApproved, Signatures
<1> QED
  BY <1>5 DEF e, v

LEMMA SubmitFiles ==
    ASSUME FInv, SInv', NEW r \in Requests, FabricCommits(r) \/ FabricReplyLost(r)
    PROVE  FInv'
<1>1. /\ SInv /\ req[r].pc = "register.submit" /\ NotResetting(r)
      /\ ledger' = Append(ledger, RecordOf(req[r])) /\ UNCHANGED <<docs, appr, unreset>>
      /\ \E h : Become(r, h)
  BY DEF FabricCommits, FabricReplyLost, FInv, NotResetting
<1>2. PICK e \in Record : e = RecordOf(req[r])
  BY <1>1, SubmittedRecord
<1>3. e.doc \in unreset \/ \A a \in Approvers : e.sigs[a] = e.content
  BY <1>1, <1>2, SubmittedSigned, SubmittedRecord
<1>4. ledger \in Seq(Record) /\ Covered
  BY DEF FInv, SInv, IInv, StateOK
<1>5. Covered'
  <2> SUFFICES ASSUME NEW i \in 1..Len(ledger'), NEW a \in Approvers
               PROVE  ledger'[i].doc \in unreset \/ ledger'[i].sigs[a] = ledger'[i].content
    BY <1>1 DEF Covered
  <2>1. CASE i \in 1..Len(ledger)
    BY <1>1, <1>2, <1>4, <2>1 DEF Covered
  <2>2. CASE i = Len(ledger) + 1
    BY <1>1, <1>2, <1>3, <1>4, <2>2
  <2> QED
    BY <1>1, <1>2, <1>4, <2>1, <2>2
<1>6. \A v \in Versions, a \in Approvers : Stays(r, v, a)
  BY <1>1, NoneToBeReset DEF Stays
<1>7. unreset \subseteq unreset'
  BY <1>1
<1> QED
  BY <1>1, <1>5, <1>6, <1>7, FilesStep

LEMMA NextFiles ==
    ASSUME FInv, SInv', [Next]_vars
    PROVE  FInv'
<1>1. CASE UNCHANGED vars
  BY <1>1 DEF vars, FInv, SignedFiles, Covered, ToBeReset
<1>2. ASSUME NEW r \in Requests, Arrive(r) \/ Submit(r) \/ Finish(r) PROVE FInv'
  BY <1>2, ReadersFiles, CreateFiles, PendingRowFiles DEF Submit, Finish
<1>3. ASSUME NEW r \in Requests, Approve(r) \/ Review(r) PROVE FInv'
  BY <1>3, ReadersFiles, ApproveSignFiles, ReviewFiles DEF Approve
<1>4. ASSUME NEW r \in Requests, Register(r) PROVE FInv'
  BY <1>4, ReadersFiles, SubmitFiles, RegisterSaveFiles DEF Register
<1>5. ASSUME NEW r \in Requests, Version(r) PROVE FInv'
  BY <1>5, ReadersFiles, VersionInactivateFiles, CreateFiles, VersionReplaceFiles,
     ResetReadApprovalsFiles, PendingRowFiles DEF Version
<1>6. ASSUME NEW r \in Requests, Abort(r) PROVE FInv'
  BY <1>6, AbortFiles
<1> QED
  BY <1>1, <1>2, <1>3, <1>4, <1>5, <1>6 DEF Next, Continue

\* Until two handlers collide, what is signed is the files, or a reset is due.
THEOREM FilesSafe == Spec => [](crossed \/ FInv)
<1>1. Init => crossed \/ FInv
  <2> SUFFICES ASSUME Init PROVE FInv
    OBVIOUS
  <2>1. SInv
    BY InitSafe
  <2>2. \A v \in Versions, a \in Approvers : appr[v][a].status # "APPROVED"
    BY DEF Init, NoRows, NoRow
  <2>3. \A i \in 1..Len(ledger) : FALSE
    BY DEF Init
  <2> QED
    BY <2>1, <2>2, <2>3 DEF FInv, SignedFiles, Covered
<1>2. (crossed \/ SInv)' /\ (crossed \/ FInv) /\ [Next]_vars => (crossed \/ FInv)'
  BY NextFiles, CrossedStays
<1> QED
  BY <1>1, <1>2, Safe, PTL DEF Spec

\* Every signature of a ledger record was made over the files it records, although
\* files are replaced under approvals given and while others are being given,
\* unless a handler stopped before it had reset the rows of that version.
THEOREM SignaturesMatch == Spec => []SignaturesCoverRecord
<1>1. crossed \/ FInv => SignaturesCoverRecord
  BY DEF FInv, Covered, SignaturesCoverRecord
<1> QED
  BY <1>1, FilesSafe, PTL
-----------------------------------------------------------------------------
(* The refinement of DocumentRegistry, whose variables are these.          *)

RegPhase == [v \in Versions |-> PhaseOf[docs[v].status]]
RegContent == [v \in Versions |-> docs[v].content]
RegEntries == [i \in 1..Len(ledger) |->
                 [doc |-> ledger[i].doc, content |-> ledger[i].content,
                  signers |-> Signers(ledger[i])]]

LEMMA RegistryInit == Init => Registry!Init
<1> SUFFICES ASSUME Init PROVE Registry!Init
  OBVIOUS
<1>1. \A v \in Versions : docs[v] = NoDoc
  BY DEF Init
<1>2. RegPhase = [v \in Versions |-> "none"]
  BY <1>1 DEF RegPhase, NoDoc, PhaseOf
<1>3. RegContent = [v \in Versions |-> NoContent]
  BY <1>1 DEF RegContent, NoDoc
<1>4. RegEntries = <<>>
  BY DEF Init, RegEntries
<1> QED
  BY <1>2, <1>3, <1>4 DEF Registry!Init, Registry!Versions, Versions, RegPhase, RegContent,
     RegEntries

LEMMA FunctionUpdated ==
    ASSUME NEW S, NEW f, NEW g, NEW v \in S, NEW x,
           f = [w \in S |-> f[w]], g = [w \in S |-> g[w]],
           g[v] = x, \A w \in S : w # v => g[w] = f[w]
    PROVE  g = [f EXCEPT ![v] = x]
OBVIOUS

\* Document rows are the versions' phases and files, one by one.
LEMMA DocMaps ==
    ASSUME SInv, NEW v \in Versions, NEW row, docs' = [docs EXCEPT ![v] = row],
           UNCHANGED ledger
    PROVE  /\ RegPhase[v] = PhaseOf[docs[v].status] /\ RegContent[v] = docs[v].content
           /\ RegPhase' = [RegPhase EXCEPT ![v] = PhaseOf[row.status]]
           /\ RegContent' = [RegContent EXCEPT ![v] = row.content]
           /\ RegEntries' = RegEntries
<1>1. docs'[v] = row /\ \A w \in Versions : w # v => docs'[w] = docs[w]
  BY DEF SInv, IInv, StateOK
<1>2. /\ \A w \in Versions : /\ RegPhase[w] = PhaseOf[docs[w].status]
                               /\ RegContent[w] = docs[w].content
                               /\ RegPhase'[w] = PhaseOf[docs'[w].status]
                               /\ RegContent'[w] = docs'[w].content
      /\ RegPhase = [w \in Versions |-> RegPhase[w]]
      /\ RegContent = [w \in Versions |-> RegContent[w]]
      /\ RegPhase' = [w \in Versions |-> RegPhase'[w]]
      /\ RegContent' = [w \in Versions |-> RegContent'[w]]
  BY DEF RegPhase, RegContent
<1>3. RegPhase' = [RegPhase EXCEPT ![v] = PhaseOf[row.status]]
  BY <1>1, <1>2, FunctionUpdated
<1>4. RegContent' = [RegContent EXCEPT ![v] = row.content]
  BY <1>1, <1>2, FunctionUpdated
<1>5. RegEntries' = RegEntries
  BY DEF RegEntries
<1> QED
  BY <1>2, <1>3, <1>4, <1>5

LEMMA EntriesMap ==
    ASSUME SInv
    PROVE  \A v \in Versions : HasRecord(v) <=> \E i \in 1..Len(RegEntries) : RegEntries[i].doc = v
<1>1. ledger \in Seq(Record)
  BY DEF SInv, IInv, StateOK
<1>2. Len(RegEntries) = Len(ledger) /\ \A i \in 1..Len(ledger) : RegEntries[i].doc = ledger[i].doc
  BY <1>1 DEF RegEntries
<1> QED
  BY <1>2 DEF HasRecord
LEMMA DraftMaps ==
    ASSUME NEW w \in Versions, NEW c \in Contents, RegPhase[w] = "none",
           w > 1 => RegPhase[w - 1] = "superseded",
           RegPhase' = [RegPhase EXCEPT ![w] = "draft"],
           RegContent' = [RegContent EXCEPT ![w] = c], RegEntries' = RegEntries
    PROVE  Registry!Next
<1>1. Registry!Draft(w, c)
  BY DEF Registry!Draft, RegPhase, RegContent, RegEntries
<1> QED
  BY <1>1 DEF Registry!Next, Registry!Versions, Versions

LEMMA ReviseMaps ==
    ASSUME NEW w \in Versions, NEW c \in Contents, RegPhase[w] = "draft",
           ~\E i \in 1..Len(RegEntries) : RegEntries[i].doc = w,
           RegContent' = [RegContent EXCEPT ![w] = c],
           UNCHANGED <<RegPhase, RegEntries>>
    PROVE  Registry!Next
<1>1. Registry!Revise(w, c)
  BY DEF Registry!Revise, Registry!HasEntry, RegPhase, RegContent, RegEntries
<1> QED
  BY <1>1 DEF Registry!Next, Registry!Versions, Versions

LEMMA EnterMaps ==
    ASSUME NEW w \in Versions, RegPhase[w] = "draft",
           ~\E i \in 1..Len(RegEntries) : RegEntries[i].doc = w,
           RegEntries' = Append(RegEntries,
                                [doc |-> w, content |-> RegContent[w], signers |-> Approvers]),
           UNCHANGED <<RegPhase, RegContent>>
    PROVE  Registry!Next
<1>1. Registry!Enter(w)
  BY DEF Registry!Enter, Registry!Entry, Registry!HasEntry, RegPhase, RegContent, RegEntries
<1> QED
  BY <1>1 DEF Registry!Next, Registry!Versions, Versions

LEMMA AcknowledgeMaps ==
    ASSUME NEW w \in Versions, RegPhase[w] = "draft",
           \E i \in 1..Len(RegEntries) : RegEntries[i].doc = w,
           RegPhase' = [RegPhase EXCEPT ![w] = "inForce"],
           UNCHANGED <<RegContent, RegEntries>>
    PROVE  Registry!Next
<1>1. Registry!Acknowledge(w)
  BY DEF Registry!Acknowledge, Registry!HasEntry, RegPhase, RegContent, RegEntries
<1> QED
  BY <1>1 DEF Registry!Next, Registry!Versions, Versions

LEMMA SupersedeMaps ==
    ASSUME NEW w \in Versions, RegPhase[w] \in {"draft", "inForce"},
           RegPhase' = [RegPhase EXCEPT ![w] = "superseded"],
           UNCHANGED <<RegContent, RegEntries>>
    PROVE  Registry!Next
<1>1. Registry!Supersede(w)
  BY DEF Registry!Supersede, RegPhase, RegContent, RegEntries
<1> QED
  BY <1>1 DEF Registry!Next, Registry!Versions, Versions

LEMMA StutterMaps ==
    ASSUME UNCHANGED <<RegPhase, RegContent, RegEntries>>
    PROVE  UNCHANGED Registry!vars
BY DEF Registry!vars, RegPhase, RegContent, RegEntries
LEMMA SameTables ==
    ASSUME UNCHANGED <<docs, ledger>> PROVE UNCHANGED Registry!vars
<1>1. UNCHANGED <<RegPhase, RegContent, RegEntries>>
  BY DEF RegPhase, RegContent, RegEntries
<1> QED
  BY <1>1, StutterMaps

\* A function written where it was takes the value it had.
LEMMA FunctionKept ==
    ASSUME NEW S, NEW f, NEW v \in S, f = [w \in S |-> f[w]]
    PROVE  [f EXCEPT ![v] = f[v]] = f
OBVIOUS

LEMMA MapsAreFunctions ==
    /\ RegPhase = [w \in Versions |-> RegPhase[w]]
    /\ RegContent = [w \in Versions |-> RegContent[w]]
BY DEF RegPhase, RegContent

LEMMA CreateMaps ==
    ASSUME SInv, NEW v \in Versions, NEW c \in Contents, docs[v] = NoDoc,
           v > 1 => docs[v - 1].status = "INACTIVE",
           docs' = [docs EXCEPT ![v] = NewDocument(c)], UNCHANGED ledger
    PROVE  Registry!Next
<1>1. PICK row \in {NewDocument(c)} : docs' = [docs EXCEPT ![v] = row]
  OBVIOUS
<1>2. PhaseOf[row.status] = "draft" /\ row.content = c
  BY DEF NewDocument, PhaseOf
<1>3. /\ RegPhase[v] = PhaseOf[docs[v].status]
      /\ RegPhase' = [RegPhase EXCEPT ![v] = "draft"]
      /\ RegContent' = [RegContent EXCEPT ![v] = c]
      /\ RegEntries' = RegEntries
  <2>1. /\ RegPhase[v] = PhaseOf[docs[v].status] /\ RegContent[v] = docs[v].content
        /\ RegPhase' = [RegPhase EXCEPT ![v] = PhaseOf[row.status]]
        /\ RegContent' = [RegContent EXCEPT ![v] = row.content]
        /\ RegEntries' = RegEntries
    BY <1>1, <1>2, DocMaps
  <2> QED
    BY <1>1, <1>2, <2>1
<1>4. RegPhase[v] = "none"
  BY <1>3 DEF NoDoc, PhaseOf
<1>5. v > 1 => RegPhase[v - 1] = "superseded"
  <2>1. PhaseOf["INACTIVE"] = "superseded" /\ \A w \in Versions : RegPhase[w] = PhaseOf[docs[w].status]
    BY DEF PhaseOf, RegPhase
  <2>2. v > 1 => v - 1 \in Versions
    BY BoundsAssumption DEF Versions
  <2> QED
    BY <2>1, <2>2
<1> QED
  BY <1>3, <1>4, <1>5, DraftMaps

LEMMA SubmitCreateMaps ==
    ASSUME SInv, NEW r \in Requests, SubmitCreate(r)
    PROVE  Registry!Next \/ UNCHANGED Registry!vars
<1>1. /\ req[r] \in Handler /\ HandlerOK(req[r], docs, ledger) /\ UNCHANGED ledger
      /\ req[r].pc = "submit.create" /\ req[r].doc \in Versions
  BY KnownSafe DEF SubmitCreate
<1>2. 1 \in Versions /\ req[r].content \in Contents
  BY <1>1 DEF HandlerOK, Handler
<1>3. CASE docs[1] = NoDoc
  BY <1>1, <1>2, <1>3, CreateMaps DEF SubmitCreate
<1>4. CASE docs[1] # NoDoc
  BY <1>1, <1>4, SameTables DEF SubmitCreate
<1> QED
  BY <1>3, <1>4

LEMMA VersionCreateMaps ==
    ASSUME SInv, NEW r \in Requests, VersionCreate(r)
    PROVE  Registry!Next \/ UNCHANGED Registry!vars
<1> DEFINE next == req[r].doc + 1
<1>1. /\ req[r] \in Handler /\ HandlerOK(req[r], docs, ledger) /\ Current(req[r])
      /\ UNCHANGED ledger /\ req[r].pc = "version.create" /\ req[r].doc \in Versions
  BY KnownSafe DEF VersionCreate
<1>2. /\ next \in Versions /\ req[r].content \in Contents /\ next - 1 = req[r].doc
      /\ docs[req[r].doc].status = "INACTIVE"
  BY <1>1 DEF HandlerOK, Handler, Current, VersionOK, Versions
<1>3. CASE docs[next] = NoDoc
  <2>1. docs' = [docs EXCEPT ![next] = NewDocument(req[r].content)]
    BY <1>3 DEF VersionCreate, NextVersion
  <2> HIDE DEF next
  <2> QED
    BY <1>1, <1>2, <1>3, <2>1, CreateMaps
<1>4. CASE docs[next] # NoDoc
  BY <1>1, <1>4, SameTables DEF VersionCreate
<1> QED
  BY <1>3, <1>4

LEMMA VersionReplaceMaps ==
    ASSUME SInv, NEW r \in Requests, VersionReplace(r)
    PROVE  Registry!Next
<1> DEFINE v == req[r].doc
           c == req[r].content
<1>1. /\ req[r] \in Handler /\ HandlerOK(req[r], docs, ledger) /\ Current(req[r])
      /\ UNCHANGED ledger /\ req[r].pc = "version.replace" /\ v \in Versions
      /\ docs' = [docs EXCEPT ![v] = Replaced(req[r].read, c)]
  BY KnownSafe DEF VersionReplace
<1>2. /\ c \in Contents /\ req[r].read = docs[v]
      /\ docs[v].status = "PENDING" /\ ~HasRecord(v) /\ docs[v] \in DocRow
  BY <1>1 DEF HandlerOK, Handler, Current, VersionOK, Revises, Unrecorded, SInv, IInv, StateOK
<1> HIDE DEF v, c
<1>3. PICK row \in {Replaced(docs[v], c)} : docs' = [docs EXCEPT ![v] = row]
  BY <1>1, <1>2
<1>4. row.status = docs[v].status /\ row.content = c
  BY <1>2 DEF Replaced, DocRow
<1>5. /\ RegPhase[v] = PhaseOf[docs[v].status]
      /\ RegPhase' = [RegPhase EXCEPT ![v] = RegPhase[v]]
      /\ RegContent' = [RegContent EXCEPT ![v] = c]
      /\ RegEntries' = RegEntries
  <2>1. /\ RegPhase[v] = PhaseOf[docs[v].status] /\ RegContent[v] = docs[v].content
        /\ RegPhase' = [RegPhase EXCEPT ![v] = PhaseOf[row.status]]
        /\ RegContent' = [RegContent EXCEPT ![v] = row.content]
        /\ RegEntries' = RegEntries
    BY <1>1, <1>3, <1>4, DocMaps
  <2> QED
    BY <1>1, <1>3, <1>4, <2>1
<1>6. RegPhase' = RegPhase
  BY <1>1, <1>5, MapsAreFunctions, FunctionKept
<1>7. RegPhase[v] = "draft"
  BY <1>2, <1>5 DEF PhaseOf
<1>8. ~\E i \in 1..Len(RegEntries) : RegEntries[i].doc = v
  BY <1>1, <1>2, EntriesMap
<1> QED
  BY <1>1, <1>2, <1>5, <1>6, <1>7, <1>8, ReviseMaps

\* A version that is INACTIVE already may be made so again.
LEMMA VersionInactivateMaps ==
    ASSUME SInv, NEW r \in Requests, VersionInactivate(r)
    PROVE  Registry!Next \/ UNCHANGED Registry!vars
<1> DEFINE v == req[r].doc
<1>1. /\ HandlerOK(req[r], docs, ledger) /\ Current(req[r])
      /\ UNCHANGED ledger /\ req[r].pc = "version.inactivate" /\ v \in Versions
      /\ docs' = [docs EXCEPT ![v] = Inactivated(req[r].read)]
  BY KnownSafe DEF VersionInactivate
<1>2. req[r].read = docs[v] /\ Full(docs[v]) /\ docs[v] \in DocRow
  BY <1>1 DEF HandlerOK, Current, VersionOK, Revises, SInv, IInv, StateOK
<1> HIDE DEF v
<1>3. PICK row \in {Inactivated(docs[v])} : docs' = [docs EXCEPT ![v] = row]
  BY <1>1, <1>2
<1>4. PhaseOf[row.status] = "superseded" /\ row.content = docs[v].content
  BY <1>2 DEF Inactivated, DocRow, PhaseOf
<1>5. /\ RegPhase[v] = PhaseOf[docs[v].status]
      /\ RegPhase' = [RegPhase EXCEPT ![v] = "superseded"]
      /\ RegContent' = [RegContent EXCEPT ![v] = RegContent[v]]
      /\ RegEntries' = RegEntries
  <2>1. /\ RegPhase[v] = PhaseOf[docs[v].status] /\ RegContent[v] = docs[v].content
        /\ RegPhase' = [RegPhase EXCEPT ![v] = PhaseOf[row.status]]
        /\ RegContent' = [RegContent EXCEPT ![v] = row.content]
        /\ RegEntries' = RegEntries
    BY <1>1, <1>3, <1>4, DocMaps
  <2> QED
    BY <1>1, <1>3, <1>4, <2>1
<1>6. RegContent' = RegContent
  BY <1>1, <1>5, MapsAreFunctions, FunctionKept
<1>7. RegPhase[v] \in {"draft", "inForce", "superseded"}
  BY <1>2, <1>5 DEF PhaseOf, Full, DocRow
<1>8. CASE RegPhase[v] = "superseded"
  <2>1. RegPhase' = RegPhase
    BY <1>1, <1>5, <1>8, MapsAreFunctions, FunctionKept
  <2> QED
    BY <1>5, <1>6, <2>1, StutterMaps
<1>9. CASE RegPhase[v] # "superseded"
  BY <1>1, <1>5, <1>6, <1>7, <1>9, SupersedeMaps
<1> QED
  BY <1>8, <1>9

LEMMA RegisterSaveMaps ==
    ASSUME SInv, NEW r \in Requests, RegisterSave(r)
    PROVE  Registry!Next
<1> DEFINE v == req[r].doc
           row == req[r].read
<1>1. /\ HandlerOK(req[r], docs, ledger) /\ Current(req[r])
      /\ UNCHANGED ledger /\ req[r].pc = "register.save" /\ v \in Versions
      /\ docs' = [docs EXCEPT ![v] = row]
  BY KnownSafe DEF RegisterSave
<1>2. /\ docs[v].status = "PENDING" /\ row.status = "APPROVED"
      /\ row.content = docs[v].content /\ HasRecord(v)
  BY <1>1 DEF HandlerOK, TxOK, Current, RegisterOK, HasRecord
<1> HIDE DEF v, row
<1>3. PhaseOf[row.status] = "inForce" /\ PhaseOf[docs[v].status] = "draft"
  BY <1>2 DEF PhaseOf
<1>4. /\ RegPhase[v] = "draft"
      /\ RegPhase' = [RegPhase EXCEPT ![v] = "inForce"]
      /\ RegContent' = [RegContent EXCEPT ![v] = RegContent[v]]
      /\ RegEntries' = RegEntries
  <2>1. /\ RegPhase[v] = PhaseOf[docs[v].status] /\ RegContent[v] = docs[v].content
        /\ RegPhase' = [RegPhase EXCEPT ![v] = PhaseOf[row.status]]
        /\ RegContent' = [RegContent EXCEPT ![v] = row.content]
        /\ RegEntries' = RegEntries
    BY <1>1, <1>2, <1>3, DocMaps
  <2> QED
    BY <1>1, <1>2, <1>3, <2>1
<1>5. RegContent' = RegContent
  BY <1>1, <1>4, MapsAreFunctions, FunctionKept
<1>6. \E i \in 1..Len(RegEntries) : RegEntries[i].doc = v
  BY <1>1, <1>2, EntriesMap
<1> QED
  BY <1>1, <1>4, <1>5, <1>6, AcknowledgeMaps
LEMMA SubmitMaps ==
    ASSUME FInv, NEW r \in Requests, FabricCommits(r) \/ FabricReplyLost(r), unreset' = {}
    PROVE  Registry!Next
<1> DEFINE v == req[r].doc
           e == RecordOf(req[r])
           entry == [doc |-> v, content |-> RegContent[v], signers |-> Approvers]
<1>1. /\ SInv /\ req[r].pc = "register.submit" /\ ledger' = Append(ledger, e)
      /\ UNCHANGED <<docs, unreset>>
  BY DEF FabricCommits, FabricReplyLost, FInv
<1>2. /\ v \in Versions /\ e \in Record /\ e.doc = v /\ e.content = docs[v].content
      /\ docs[v].status = "PENDING" /\ ~HasRecord(v)
  BY <1>1, SubmittedRecord DEF Unrecorded
<1>3. Signers(e) = Approvers
  BY <1>1, SubmittedSigned DEF Signers
<1> HIDE DEF v, e
<1>4. UNCHANGED <<RegPhase, RegContent>>
  BY <1>1 DEF RegPhase, RegContent
<1>5. RegPhase[v] = "draft" /\ RegContent[v] = e.content
  BY <1>2 DEF RegPhase, RegContent, PhaseOf
<1>6. ~\E i \in 1..Len(RegEntries) : RegEntries[i].doc = v
  BY <1>1, <1>2, EntriesMap
<1>7. RegEntries' = Append(RegEntries, entry)
  <2> DEFINE EntryOf(x) == [doc |-> x.doc, content |-> x.content, signers |-> Signers(x)]
  <2>1. EntryOf(e) = entry
    BY <1>2, <1>3, <1>5
  <2>2. ledger \in Seq(Record)
    BY <1>1 DEF SInv, IInv, StateOK
  <2>3. /\ RegEntries = [i \in 1..Len(ledger) |-> EntryOf(ledger[i])]
        /\ RegEntries' = [i \in 1..Len(ledger') |-> EntryOf(ledger'[i])]
    BY DEF RegEntries
  <2> HIDE DEF EntryOf, entry
  <2>4. [i \in 1..Len(ledger') |-> EntryOf(ledger'[i])] =
           Append([i \in 1..Len(ledger) |-> EntryOf(ledger[i])], EntryOf(e))
    BY <1>1, <1>2, <2>2
  <2> QED
    BY <2>1, <2>3, <2>4
<1> QED
  BY <1>2, <1>4, <1>5, <1>6, <1>7, EnterMaps

LEMMA NextMaps ==
    ASSUME FInv, [Next]_vars, unreset' = {}
    PROVE  Registry!Next \/ UNCHANGED Registry!vars
<1>1. SInv
  BY DEF FInv
<1>2. CASE UNCHANGED <<docs, ledger>>
  BY <1>2, SameTables
<1>3. CASE ~UNCHANGED <<docs, ledger>>
  <2>1. PICK r \in Requests :
           \/ SubmitCreate(r) \/ VersionCreate(r) \/ VersionReplace(r) \/ VersionInactivate(r)
           \/ RegisterSave(r) \/ FabricCommits(r) \/ FabricReplyLost(r)
    BY <1>3 DEF vars, Next, Arrive, Continue, Submit, Finish, Approve, Register, Review,
       Version, SubmitBegin, SubmitGrade, CreateRow, CreateRowsFails, UpdateGrade,
       ApproveBegin, ApproveLoadDocument, ApproveLoadApprovals, ApproveSign, ApproveAdvisor,
       SignFails, RegisterReadApprovals, RegisterReadDocument, RegisterReadDefense,
       FabricRefuses, RejectBegin, RejectSave, OverrideBegin, OverrideSave, VersionBegin,
       VersionDecide, ResetReadApprovals, ResetWrite, Abort
  <2> QED
    BY <1>1, <2>1, SubmitCreateMaps, VersionCreateMaps, VersionReplaceMaps,
       VersionInactivateMaps, RegisterSaveMaps, SubmitMaps
<1> QED
  BY <1>2, <1>3

\* Every step is one of DocumentRegistry's, however many handlers run and although
\* signing, Fabric and its replies fail, until two handlers collide or a handler
\* stops before it has reset the rows of a version.
THEOREM Refinement == Spec => FollowsRegistry
<1>1. Init => Registry!Init
  BY RegistryInit
<1>2. (crossed \/ FInv) /\ [Next]_vars => [Registry!Next \/ crossed' \/ unreset' # {}]_(Registry!vars)
  BY NextMaps, CrossedStays
<1> QED
  BY <1>1, <1>2, FilesSafe, PTL DEF Spec, FollowsRegistry

===============================================================================
