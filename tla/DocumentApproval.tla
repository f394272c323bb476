-------------------------- MODULE DocumentApproval --------------------------
(***************************************************************************)
(* The approval workflow of one defense's document: the versions of the    *)
(* document, the approval rows of each version, the ledger (Hyperledger    *)
(* Fabric) and the handlers that read and write them.                      *)
(*                                                                         *)
(* Each handler is split at its awaits.  Between two awaits other requests *)
(* run; the repositories' update writes the WHOLE row from the object the  *)
(* handler read earlier, so a handler carries what it read in req[r] and   *)
(* writes it back.  A request slot also runs the work its handler started  *)
(* and did not await (registration on the ledger, creation of approvals).  *)
(*                                                                         *)
(* Abstractions: the pair (minutes, evaluation) of files with their hashes *)
(* and CIDs is one value of Contents, and a signature is the content that  *)
(* was signed.  Certificates are the business of another component: here   *)
(* signing either succeeds or fails.  E-mail, dates and names are left     *)
(* out, and a row of an approver is approved and rejected by that approver.*)
(***************************************************************************)
EXTENDS Naturals, Sequences, FiniteSets

CONSTANTS
    Coordinator, Advisor, Students,  \* the approvers of the defense's document
    CoordIsAdvisor,  \* the course coordinator is also the advisor
    Contents, NoContent,
    Grades, NoGrade,
    Requests,        \* request slots: how many handlers may be in flight
    MaxVersions,     \* bound on the versions of the document
    MaxEdits,        \* bound on the createVersion requests
    MaxRecords,      \* bound on the ledger
    Faults           \* which of AllFaults may happen

Approvers == {Coordinator, Advisor} \cup Students
Versions == 1..MaxVersions

\* Signing fails, Fabric refuses a transaction, Fabric commits one but the reply
\* is lost, a handler stops between two awaits.
AllFaults == {"sign", "refuse", "reply", "abort"}

ASSUME ApproversAssumption ==
    /\ Coordinator # Advisor /\ {Coordinator, Advisor} \cap Students = {}
    /\ CoordIsAdvisor \in BOOLEAN
ASSUME DataAssumption ==
    /\ NoContent \notin Contents
    /\ NoGrade \notin Grades
ASSUME BoundsAssumption ==
    /\ MaxVersions \in Nat \ {0}
    /\ MaxEdits \in Nat /\ MaxRecords \in Nat
    /\ Faults \subseteq AllFaults

VARIABLES
    docs,    \* documents table: version -> row; tx is 0 or an index of ledger
    appr,    \* approvals table: version -> approver -> row
    grade,   \* final grade of the defense; NoGrade while it is SCHEDULED
    ledger,  \* what registerDocument committed, in order
    edits,   \* createVersion requests accepted so far (only to bound them)
    req,     \* the handler each slot is running
    crossed, \* auxiliary: two handlers were in flight that Collide
    unreset  \* auxiliary: versions whose reset of the rows was cut short

vars == <<docs, appr, grade, ledger, edits, req, crossed, unreset>>

-----------------------------------------------------------------------------
(* Rows and what the entities' methods make of them.                       *)

DocRow == [status : {"none", "PENDING", "APPROVED", "INACTIVE"},
           content : Contents \cup {NoContent},
           tx : Nat]
NoDoc == [status |-> "none", content |-> NoContent, tx |-> 0]

NewDocument(c) == [status |-> "PENDING", content |-> c, tx |-> 0]
Replaced(row, c) == [row EXCEPT !.content = c]
NotInactivated(row) == row                                      \* a mutant
Inactivated(row) == [row EXCEPT !.status = "INACTIVE"]
ApprovedOnly(row, t) == [row EXCEPT !.status = "APPROVED"]      \* a mutant
Registered(row, t) == [row EXCEPT !.status = "APPROVED", !.tx = t]
CopiedVersion(row, c) == [row EXCEPT !.status = "PENDING", !.content = c] \* a mutant
NextVersion(row, c) == NewDocument(c)

ApprovalRow == [status : {"none", "PENDING", "APPROVED", "REJECTED"},
                sig : Contents \cup {NoContent}]
NoRow == [status |-> "none", sig |-> NoContent]
NoRows == [a \in Approvers |-> NoRow]

Pending == [status |-> "PENDING", sig |-> NoContent]
Approved(c) == [status |-> "APPROVED", sig |-> c]
Rejected == [status |-> "REJECTED", sig |-> NoContent]

\* approve and reject refuse a row that was processed before.
OpenOrApproved(row) == row.status \in {"PENDING", "APPROVED"}    \* a mutant
IsOpen(row) == row.status = "PENDING"

Exists(rows, a) == rows[a].status # "none"
HasAllRows(rows) == \A a \in Approvers : Exists(rows, a)
AllApproved(rows) ==
    \A a \in Approvers : Exists(rows, a) => rows[a].status = "APPROVED"
IsFullyApproved(rows) ==
    (\E a \in Approvers : Exists(rows, a)) /\ AllApproved(rows)
AdvisorOrCoordinatorApproved(rows) ==
    \/ rows[Advisor].status = "APPROVED"
    \/ CoordIsAdvisor /\ Exists(rows, Advisor)
CoordinatorAfterAdvisor(rows) == AdvisorOrCoordinatorApproved(rows) \* a mutant
CoordinatorMayApprove(rows) ==
    /\ AdvisorOrCoordinatorApproved(rows)
    /\ \A a \in Students : Exists(rows, a) => rows[a].status = "APPROVED"
NoneRejected(rows) == \A a \in Approvers : rows[a].status # "REJECTED" \* a mutant
RegistrationComplete(rows) == AllApproved(rows)
CoordinatorFound(rows) == Exists(rows, Coordinator)             \* a mutant
ValidApprovalsCount(rows) == HasAllRows(rows)
RejectedRows(rows) == {a \in Approvers : rows[a].status = "REJECTED"} \* a mutant
ToReset(rows) == {a \in Approvers : rows[a].status \in {"APPROVED", "REJECTED"}}

\* Rows are created and listed in the order coordinator, advisor, students.
Rank(a) == IF a = Coordinator THEN 0 ELSE IF a = Advisor THEN 1 ELSE 2
First(S) == {a \in S : \A b \in S : Rank(a) <= Rank(b)}

Record == [doc : Versions, content : Contents, grade : Grades,
           sigs : [Approvers -> Contents \cup {NoContent}]]
OnceEach(rows) ==                                               \* a mutant
    [a \in {x \in Approvers : CoordIsAdvisor => x # Advisor} |-> rows[a].sig]
Signatures(rows) == [a \in Approvers |-> rows[a].sig]

-----------------------------------------------------------------------------
(* Handlers in flight.                                                     *)

Handler ==
    [pc : {"idle",
           "submit.create", "submit.grade",
           "approve.document", "approve.approvals", "approve.sign",
           "approve.advisor",
           "register.approvals", "register.document", "register.defense",
           "register.submit", "register.save",
           "reject.save", "override.save",
           "version.approvals", "version.replace", "version.inactivate",
           "version.create",
           "reset.approvals", "reset.write", "create.rows"},
     doc : Versions,                           \* the version addressed
     who : Approvers,                          \* the approval row addressed
     read : DocRow,                            \* document row read earlier
     rows : [Approvers -> ApprovalRow],        \* approval rows read earlier
     content : Contents \cup {NoContent},      \* file uploaded or to be signed
     grade : Grades \cup {NoGrade},            \* grade to write or registered
     todo : SUBSET Approvers]                  \* rows still to write

Idle == [pc |-> "idle", doc |-> 1, who |-> Coordinator, read |-> NoDoc,
         rows |-> NoRows, content |-> NoContent, grade |-> NoGrade, todo |-> {}]

-----------------------------------------------------------------------------
(* Handlers that do not go together.  Nothing in the program keeps them    *)
(* apart; crossed remembers that two of them met, and the properties of    *)
(* the ledger and the versions are stated up to that.                      *)

Registers(h) == h.pc \in {"register.approvals", "register.document",
                          "register.defense", "register.submit", "register.save"}

\* It has read the document row and will write it, or a record of it.
Commits(h) == h.pc \in {"register.defense", "register.submit", "register.save"}
Revises(h) == h.pc \in {"version.approvals", "version.replace", "version.inactivate"}

\* It still has approval rows of the version to write.
Resets(h) == h.pc = "reset.approvals" \/ (h.pc = "reset.write" /\ h.todo # {})
WritesRows(h) == Resets(h) \/ (h.pc = "create.rows" /\ h.todo # {})

\* It has found the approval rows APPROVED and acts on that.
ReliesOnRows(h) ==
    \/ h.pc \in {"register.document", "version.inactivate"} \/ Commits(h)
    \/ h.pc = "approve.sign" /\ h.who = Coordinator

\* It has read the files it is going to sign.
HoldsFiles(h) == h.pc \in {"approve.approvals", "approve.sign", "approve.advisor"}

\* The approval rows a user's request is about.
RowsOf(h) ==
    IF HoldsFiles(h) \/ h.pc \in {"approve.document", "reject.save", "override.save"}
    THEN {h.who} \cup h.todo ELSE {}

GradeToWrite(h) ==
    /\ h.pc \in {"submit.grade", "create.rows", "reset.approvals", "reset.write"}
    /\ h.grade # NoGrade

Collide(g, h) ==
    \/ /\ g.doc = h.doc
       /\ \/ Revises(g) /\ (Revises(h) \/ Commits(h))
          \/ Registers(g) /\ (Commits(h) \/ h.pc = "version.inactivate")
          \/ WritesRows(g) /\ ReliesOnRows(h)
          \/ g.pc = "reset.approvals" /\ HoldsFiles(h)
          \/ RowsOf(g) \cap RowsOf(h) # {}
    \/ GradeToWrite(g) /\ h.pc \in {"register.submit", "register.save"}

Become(r, h) ==
    /\ req' = [req EXCEPT ![r] = h]
    /\ crossed' = (crossed \/ \E s \in Requests \ {r} :
                                 Collide(h, req[s]) \/ Collide(req[s], h))
Begin(r, h) == req[r].pc = "idle" /\ Become(r, h)

StateOK ==
    /\ docs \in [Versions -> DocRow]
    /\ appr \in [Versions -> [Approvers -> ApprovalRow]]
    /\ grade \in Grades \cup {NoGrade}
    /\ ledger \in Seq(Record)
    /\ edits \in 0..MaxEdits
    /\ req \in [Requests -> Handler]
TypeOK == StateOK /\ crossed \in BOOLEAN /\ unreset \subseteq Versions

Init ==
    /\ docs = [v \in Versions |-> NoDoc]
    /\ appr = [v \in Versions |-> NoRows]
    /\ grade = NoGrade
    /\ ledger = <<>>
    /\ edits = 0
    /\ crossed = FALSE /\ unreset = {}
    /\ req = [r \in Requests |-> Idle]

-----------------------------------------------------------------------------
(* SubmitDefenseResultUseCase: version 1 of the document, then the grade   *)
(* (the defense is SCHEDULED until then), then the approval rows.          *)

SubmitBegin(r, c, g) ==
    /\ grade = NoGrade
    /\ Begin(r, [Idle EXCEPT !.pc = "submit.create", !.content = c, !.grade = g])
    /\ UNCHANGED <<docs, appr, grade, ledger, edits, unreset>>

\* (defenseId, version) is unique: the insert fails when version 1 is there.
SubmitCreate(r) ==
    /\ req[r].pc = "submit.create"
    /\ IF docs[1] = NoDoc
       THEN /\ docs' = [docs EXCEPT ![1] = NewDocument(req[r].content)]
            /\ Become(r, [req[r] EXCEPT !.pc = "submit.grade", !.content = NoContent])
       ELSE Become(r, Idle) /\ UNCHANGED docs
    /\ UNCHANGED <<appr, grade, ledger, edits, unreset>>

SubmitGrade(r) ==
    /\ req[r].pc = "submit.grade"
    /\ grade' = req[r].grade
    /\ Become(r, [Idle EXCEPT !.pc = "create.rows", !.todo = Approvers])
    /\ UNCHANGED <<docs, appr, ledger, edits, unreset>>

-----------------------------------------------------------------------------
(* What is left of a submission or of a new version: the rows still to     *)
(* create or reset, and the grade still to write.                          *)

Settle(r, h) ==
    Become(r, IF h.todo = {} /\ h.grade = NoGrade THEN Idle ELSE h)

\* CreateApprovalsUseCase: one insert per approver, nobody awaits them.
CreateRow(r) ==
    /\ req[r].pc = "create.rows"
    /\ \E a \in First(req[r].todo) :
          /\ appr' = [appr EXCEPT ![req[r].doc][a] = Pending]
          /\ Settle(r, [req[r] EXCEPT !.todo = @ \ {a}])
    /\ UNCHANGED <<docs, grade, ledger, edits, unreset>>

\* Its failure is logged; the handler that started it goes on.
CreateRowsFails(r) ==
    /\ "abort" \in Faults
    /\ req[r].pc = "create.rows" /\ req[r].todo # {}
    /\ Settle(r, [req[r] EXCEPT !.todo = {}])
    /\ UNCHANGED <<docs, appr, grade, ledger, edits, unreset>>

\* updateDefenseGrade: after the resets, but beside the creation of rows.
UpdateGrade(r) ==
    /\ \/ req[r].pc = "create.rows"
       \/ req[r].pc = "reset.write" /\ req[r].todo = {}
    /\ req[r].grade # NoGrade
    /\ grade' = req[r].grade
    /\ Settle(r, [req[r] EXCEPT !.grade = NoGrade])
    /\ UNCHANGED <<docs, appr, ledger, edits, unreset>>

-----------------------------------------------------------------------------
(* ApproveDocumentUseCase.  The row is read first and written last; the    *)
(* hashes that are signed come from the document as read in between.       *)

ApproveBegin(r, v, a) ==
    /\ IsOpen(appr[v][a])
    /\ Begin(r, [Idle EXCEPT !.pc = "approve.document", !.doc = v, !.who = a])
    /\ UNCHANGED <<docs, appr, grade, ledger, edits, unreset>>

\* Only the coordinator's request uses the approval rows it loads.
ApproveLoadDocument(r) ==
    /\ req[r].pc = "approve.document"
    /\ Become(r, [req[r] EXCEPT
                    !.pc = IF req[r].who = Coordinator
                           THEN "approve.approvals" ELSE "approve.sign",
                    !.content = docs[req[r].doc].content])
    /\ UNCHANGED <<docs, appr, grade, ledger, edits, unreset>>

\* A coordinator who is also the advisor approves the advisor's row as well,
\* when it was PENDING as read here.
AutoApproved(rows) ==
    {a \in {Advisor} : CoordIsAdvisor /\ rows[a].status = "PENDING"}

ApproveLoadApprovals(r) ==
    LET rows == appr[req[r].doc] IN
    /\ req[r].pc = "approve.approvals"
    /\ Become(r, IF CoordinatorMayApprove(rows)
                 THEN [req[r] EXCEPT !.pc = "approve.sign",
                                     !.todo = AutoApproved(rows)]
                 ELSE Idle)
    /\ UNCHANGED <<docs, appr, grade, ledger, edits, unreset>>

AfterCoordinator(h) ==                                          \* a mutant
    IF h.who # Coordinator THEN Idle
    ELSE [Idle EXCEPT !.pc = "register.approvals", !.doc = h.doc]
ThenRegister(h) == [Idle EXCEPT !.pc = "register.approvals", !.doc = h.doc]

ApproveSign(r) ==
    LET h == req[r] IN
    /\ h.pc = "approve.sign"
    /\ appr' = [appr EXCEPT ![h.doc][h.who] = Approved(h.content)]
    /\ Become(r, IF h.todo = {} THEN ThenRegister(h)
                 ELSE [h EXCEPT !.pc = "approve.advisor"])
    /\ UNCHANGED <<docs, grade, ledger, edits, unreset>>

ApproveAdvisor(r) ==
    LET h == req[r] IN
    /\ h.pc = "approve.advisor"
    /\ appr' = [appr EXCEPT ![h.doc][Advisor] = Approved(h.content)]
    /\ Become(r, ThenRegister(h))
    /\ UNCHANGED <<docs, grade, ledger, edits, unreset>>

\* No active certificate, or the signature service fails: the request ends.
SignFails(r) ==
    /\ "sign" \in Faults
    /\ req[r].pc \in {"approve.sign", "approve.advisor"}
    /\ Become(r, Idle)
    /\ UNCHANGED <<docs, appr, grade, ledger, edits, unreset>>

-----------------------------------------------------------------------------
(* RegisterOnBlockchainUseCase, started by every approval and not awaited. *)

RegisterReadApprovals(r) ==
    LET rows == appr[req[r].doc] IN
    /\ req[r].pc = "register.approvals"
    /\ Become(r, IF RegistrationComplete(rows)
                 THEN [req[r] EXCEPT !.pc = "register.document", !.rows = rows]
                 ELSE Idle)
    /\ UNCHANGED <<docs, appr, grade, ledger, edits, unreset>>

NeedsRegistration(row) == row.tx = 0

RegisterReadDocument(r) ==
    LET h == req[r] IN
    /\ h.pc = "register.document"
    /\ Become(r, IF NeedsRegistration(docs[h.doc]) /\ ValidApprovalsCount(h.rows)
                 THEN [h EXCEPT !.pc = "register.defense", !.read = docs[h.doc]]
                 ELSE Idle)
    /\ UNCHANGED <<docs, appr, grade, ledger, edits, unreset>>

RegisterReadDefense(r) ==
    /\ req[r].pc = "register.defense"
    /\ Become(r, IF grade # NoGrade
                 THEN [req[r] EXCEPT !.pc = "register.submit", !.grade = grade]
                 ELSE Idle)
    /\ UNCHANGED <<docs, appr, grade, ledger, edits, unreset>>

RecordOf(h) == [doc |-> h.doc, content |-> h.read.content, grade |-> h.grade,
                sigs |-> Signatures(h.rows)]

FabricCommits(r) ==
    LET h == req[r] IN
    /\ h.pc = "register.submit" /\ Len(ledger) < MaxRecords
    /\ ledger' = Append(ledger, RecordOf(h))
    /\ Become(r, [h EXCEPT !.pc = "register.save", !.rows = NoRows, !.grade = NoGrade,
                           !.read = Registered(h.read, Len(ledger) + 1)])
    /\ UNCHANGED <<docs, appr, grade, edits, unreset>>

\* The error is logged by approve; nothing tries again.
FabricRefuses(r) ==
    /\ "refuse" \in Faults
    /\ req[r].pc = "register.submit"
    /\ Become(r, Idle)
    /\ UNCHANGED <<docs, appr, grade, ledger, edits, unreset>>

\* The transaction commits but its status does not arrive in time.
FabricReplyLost(r) ==
    /\ "reply" \in Faults
    /\ req[r].pc = "register.submit" /\ Len(ledger) < MaxRecords
    /\ ledger' = Append(ledger, RecordOf(req[r]))
    /\ Become(r, Idle)
    /\ UNCHANGED <<docs, appr, grade, edits, unreset>>

RegisterSave(r) ==
    /\ req[r].pc = "register.save"
    /\ docs' = [docs EXCEPT ![req[r].doc] = req[r].read]
    /\ Become(r, Idle)
    /\ UNCHANGED <<appr, grade, ledger, edits, unreset>>

-----------------------------------------------------------------------------
(* RejectDocumentUseCase and OverrideRejectionUseCase.                     *)

RejectBegin(r, v, a) ==
    /\ a # Coordinator
    /\ IsOpen(appr[v][a])
    /\ Begin(r, [Idle EXCEPT !.pc = "reject.save", !.doc = v, !.who = a])
    /\ UNCHANGED <<docs, appr, grade, ledger, edits, unreset>>

RejectSave(r) ==
    /\ req[r].pc = "reject.save"
    /\ appr' = [appr EXCEPT ![req[r].doc][req[r].who] = Rejected]
    /\ Become(r, Idle)
    /\ UNCHANGED <<docs, grade, ledger, edits, unreset>>

OverrideBegin(r, v, a) ==
    /\ a # Coordinator
    /\ appr[v][a].status = "REJECTED"
    /\ Begin(r, [Idle EXCEPT !.pc = "override.save", !.doc = v, !.who = a])
    /\ UNCHANGED <<docs, appr, grade, ledger, edits, unreset>>

OverrideSave(r) ==
    /\ req[r].pc = "override.save"
    /\ appr' = [appr EXCEPT ![req[r].doc][req[r].who] = Pending]
    /\ Become(r, Idle)
    /\ UNCHANGED <<docs, grade, ledger, edits, unreset>>

-----------------------------------------------------------------------------
(* CreateDocumentVersionUseCase: a new version when the approval rows read *)
(* before the upload were all APPROVED, else the files are replaced in     *)
(* place and the rows reset.                                               *)

VersionBegin(r, v, c, g) ==
    /\ edits < MaxEdits
    /\ docs[v] # NoDoc /\ docs[v].content # c
    /\ Begin(r, [Idle EXCEPT !.pc = "version.approvals", !.doc = v,
                             !.read = docs[v], !.content = c, !.grade = g])
    /\ edits' = edits + 1
    /\ UNCHANGED <<docs, appr, grade, ledger, unreset>>

\* MaxVersions bounds the model, not the program.
VersionDecide(r) ==
    LET h == req[r] IN
    /\ h.pc = "version.approvals"
    /\ Become(r, IF ~IsFullyApproved(appr[h.doc])
                 THEN [h EXCEPT !.pc = "version.replace"]
                 ELSE IF h.doc < MaxVersions
                 THEN [h EXCEPT !.pc = "version.inactivate"]
                 ELSE Idle)
    /\ UNCHANGED <<docs, appr, grade, ledger, edits, unreset>>

VersionInactivate(r) ==
    LET h == req[r] IN
    /\ h.pc = "version.inactivate"
    /\ docs' = [docs EXCEPT ![h.doc] = Inactivated(h.read)]
    /\ Become(r, [h EXCEPT !.pc = "version.create"])
    /\ UNCHANGED <<appr, grade, ledger, edits, unreset>>

VersionCreate(r) ==
    LET h == req[r]
        next == h.doc + 1
    IN
    /\ h.pc = "version.create"
    /\ IF docs[next] = NoDoc
       THEN /\ docs' = [docs EXCEPT ![next] = NextVersion(h.read, h.content)]
            /\ Become(r, [Idle EXCEPT !.pc = "create.rows", !.doc = next,
                                      !.grade = h.grade, !.todo = Approvers])
       ELSE Become(r, Idle) /\ UNCHANGED docs
    /\ UNCHANGED <<appr, grade, ledger, edits, unreset>>

VersionReplace(r) ==
    LET h == req[r] IN
    /\ h.pc = "version.replace"
    /\ docs' = [docs EXCEPT ![h.doc] = Replaced(h.read, h.content)]
    /\ Become(r, [Idle EXCEPT !.pc = "reset.approvals", !.doc = h.doc,
                              !.grade = h.grade])
    /\ UNCHANGED <<appr, grade, ledger, edits, unreset>>

\* ResetApprovalsForNewVersionUseCase
ResetReadApprovals(r) ==
    LET h == req[r] IN
    /\ h.pc = "reset.approvals"
    /\ Settle(r, [h EXCEPT !.pc = "reset.write", !.todo = ToReset(appr[h.doc])])
    /\ UNCHANGED <<docs, appr, grade, ledger, edits, unreset>>

ResetWrite(r) ==
    /\ req[r].pc = "reset.write"
    /\ \E a \in First(req[r].todo) :
          /\ appr' = [appr EXCEPT ![req[r].doc][a] = Pending]
          /\ Settle(r, [req[r] EXCEPT !.todo = @ \ {a}])
    /\ UNCHANGED <<docs, grade, ledger, edits, unreset>>

-----------------------------------------------------------------------------
\* A database or storage error, or the process restarting: the handler stops
\* at an await and what it wrote stays written.
Abort(r) ==
    /\ "abort" \in Faults
    /\ req[r].pc # "idle"
    /\ Become(r, Idle)
    /\ unreset' = IF Resets(req[r]) THEN unreset \cup {req[r].doc} ELSE unreset
    /\ UNCHANGED <<docs, appr, grade, ledger, edits>>

Submit(r) == SubmitCreate(r) \/ SubmitGrade(r)
Finish(r) == CreateRow(r) \/ CreateRowsFails(r) \/ UpdateGrade(r)
Approve(r) ==
    \/ ApproveLoadDocument(r) \/ ApproveLoadApprovals(r)
    \/ ApproveSign(r) \/ ApproveAdvisor(r) \/ SignFails(r)
Register(r) ==
    \/ RegisterReadApprovals(r) \/ RegisterReadDocument(r)
    \/ RegisterReadDefense(r)
    \/ FabricCommits(r) \/ FabricRefuses(r) \/ FabricReplyLost(r)
    \/ RegisterSave(r)
Review(r) == RejectSave(r) \/ OverrideSave(r)
Version(r) ==
    \/ VersionDecide(r) \/ VersionInactivate(r) \/ VersionCreate(r)
    \/ VersionReplace(r) \/ ResetReadApprovals(r) \/ ResetWrite(r)

\* A step of the handler in slot r.
Continue(r) ==
    Submit(r) \/ Finish(r) \/ Approve(r) \/ Register(r) \/ Review(r) \/ Version(r)

\* A user's request arrives.
Arrive(r) ==
    \/ \E c \in Contents, g \in Grades : SubmitBegin(r, c, g)
    \/ \E v \in Versions, a \in Approvers :
          ApproveBegin(r, v, a) \/ RejectBegin(r, v, a) \/ OverrideBegin(r, v, a)
    \/ \E v \in Versions, c \in Contents, g \in Grades \cup {NoGrade} :
          VersionBegin(r, v, c, g)

Next == \E r \in Requests : Arrive(r) \/ Continue(r) \/ Abort(r)

Spec == Init /\ [][Next]_vars

\* A handler that has started runs on; users need not do anything.
FairSpec == Spec /\ \A r \in Requests : WF_vars(Continue(r))
-----------------------------------------------------------------------------
(* What holds however many handlers are in flight and whatever fails.      *)

\* A document row that names a ledger record names one of its own version,
\* whatever stale row a handler wrote back: createNewVersion copies no
\* blockchainTxId, and registerOnBlockchain is saved on the row it was made for.
TxNamesOwnRecord ==
    \A v \in Versions : docs[v].tx # 0 =>
        docs[v].tx <= Len(ledger) /\ ledger[docs[v].tx].doc = v

\* No document is shown as APPROVED unless the ledger has a record of it:
\* the status and the transaction id are only ever written together.
ApprovedIsOnLedger == \A v \in Versions : docs[v].status = "APPROVED" => docs[v].tx # 0

\* Every record on the ledger carries a signature of the coordinator, of the
\* advisor and of every student, although the creation of the approval rows
\* may stop half way and the coordinator then finds nobody missing.
RecordsAreComplete ==
    \A i \in 1..Len(ledger), a \in Approvers : ledger[i].sigs[a] # NoContent

-----------------------------------------------------------------------------
(* What holds however many handlers are in flight, whatever fails and      *)
(* wherever they stop, until two handlers that Collide were in flight.     *)
(* Approvals of different rows, approvals while rows are being created or  *)
(* files uploaded, rejections, overrides and registrations that run on     *)
(* after their request was answered may overlap in any other way.          *)

\* A version is put on the ledger at most once: a failed registration is not
\* tried again, and a version whose rows were reset was not registered.
AtMostOneRecord ==
    \/ crossed
    \/ \A i, j \in 1..Len(ledger) : ledger[i].doc = ledger[j].doc => i = j

\* What the ledger holds of a registered version is what the database holds.
RegisteredContentMatches ==
    \/ crossed
    \/ \A v \in Versions : docs[v].tx # 0 =>
          ledger[docs[v].tx].content = docs[v].content

\* The grade on the ledger for the version in force is the defense's grade.
RecordInForceHasTheGrade ==
    \/ crossed
    \/ \A v \in Versions : docs[v].status = "APPROVED" =>
          ledger[docs[v].tx].grade = grade

\* Once the coordinator's approval stands, so does every other one there is:
\* "Orientador e aluno(s) devem aprovar antes do coordenador".
CoordinatorApprovesLast ==
    \/ crossed
    \/ \A v \in Versions : appr[v][Coordinator].status = "APPROVED" =>
          \A a \in Approvers : Exists(appr[v], a) =>
              \/ appr[v][a].status = "APPROVED"
              \/ a = Advisor /\ CoordIsAdvisor

\* Only the latest version is open: an older one is INACTIVE, for good.
OnlyLatestIsOpen ==
    \/ crossed
    \/ \A v, w \in Versions :
          v < w /\ docs[w] # NoDoc => docs[v].status = "INACTIVE"

\* The ledger grows only by a version all of whose rows are APPROVED at that
\* very moment: nobody has rejected it, no row was reset or is still missing.
OnlyApprovedIsSubmitted ==
    [][crossed' \/ \A i \in 1..Len(ledger') : i > Len(ledger) =>
          \A a \in Approvers : appr[ledger'[i].doc][a].status = "APPROVED"]_vars

\* Every signature on a ledger record was made over the files it records,
\* unless a handler stopped between replacing them and resetting the rows.
SignaturesCoverRecord ==
    \/ crossed
    \/ \A i \in 1..Len(ledger), a \in Approvers :
          ledger[i].doc \in unreset \/ ledger[i].sigs[a] = ledger[i].content

\* When every approver has approved and nobody takes it back, the version is
\* registered on the ledger: whoever approves last finds the others' approvals,
\* however the handlers interleave ("If all required approvals are completed,
\* document is registered on blockchain").
EventuallyRegistered ==
    \A v \in Versions :
        HasAllRows(appr[v]) /\ AllApproved(appr[v])
            ~> docs[v].tx # 0 \/ ~AllApproved(appr[v])
-----------------------------------------------------------------------------
(* What the documentation says without the exemption.                      *)

\* A record on the ledger has the signatures of its approvers over its files:
\* "Documento requer 3 assinaturas válidas: coordenador, orientador e aluno".
SignaturesAreValid ==
    \A i \in 1..Len(ledger), a \in Approvers :
        ledger[i].sigs[a] = ledger[i].content
-----------------------------------------------------------------------------
(* The workflow as DocumentRegistry sees it.                               *)

PhaseOf == [none |-> "none", PENDING |-> "draft", APPROVED |-> "inForce",
            INACTIVE |-> "superseded"]
Signers(record) == {a \in Approvers : record.sigs[a] = record.content}

Registry == INSTANCE DocumentRegistry WITH
    phase <- [v \in Versions |-> PhaseOf[docs[v].status]],
    content <- [v \in Versions |-> docs[v].content],
    entries <- [i \in 1..Len(ledger) |->
                  [doc |-> ledger[i].doc, content |-> ledger[i].content,
                   signers |-> Signers(ledger[i])]]

\* Run one request at a time, the handlers keep the registry's promise: one
\* entry per version, over the version's files, signed by every approver, and
\* a version superseded before the next one is drafted.
ImplementsRegistry == Registry!Spec

\* However many handlers run, every step is one of the registry's, until two
\* that Collide were in flight or a handler stopped before the rows were reset.
FollowsRegistry ==
    /\ Registry!Init
    /\ [][Registry!Next \/ crossed' \/ unreset' # {}]_(Registry!vars)

=============================================================================
