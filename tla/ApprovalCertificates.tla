------------------------ MODULE ApprovalCertificates ------------------------
(***************************************************************************)
(* The certificates approvers sign with: the jobs that generate them (a    *)
(* Bull queue and its one processor), the certificates table, the Fabric   *)
(* CA, and the handlers that look a certificate up, revoke it and ask for  *)
(* a new one.                                                              *)
(*                                                                         *)
(* Every user has a base certificate, asked for when the user is created;  *)
(* every approval row of an advisor or a student has one of its own, asked *)
(* for with the row, revoked when the document is put on the ledger, and   *)
(* revoked and asked for again when the row is reset.  A coordinator signs *)
(* with the base certificate.                                              *)
(*                                                                         *)
(* The CA is external: it refuses to register a name twice, and enrolls a  *)
(* name that is not revoked for whoever has its secret.  The secret is     *)
(* drawn at random by each registration, so it is represented by the name  *)
(* it was drawn for.  Keys, dates and the two CAs of advisors and students *)
(* are left out.                                                           *)
(***************************************************************************)
EXTENDS Naturals, Sequences, FiniteSets

CONSTANTS
    Users,
    Approvals,      \* approval rows of advisors and students
    NoApproval,
    Owner,          \* the approver of each of Approvals
    Requests,       \* request slots: how many handlers may be in flight
    MaxAttempts,    \* the queue's attempts per job (5 in the code)
    MaxResets,      \* bound on the resets of an approval row
    Faults          \* which of AllFaults may happen

\* The queue takes no job (redis), the CA fails or its answer is lost, a
\* certificate passes its notAfter, the process restarts.
AllFaults == {"redis", "ca", "expiry", "restart"}

ASSUME OwnersAssumption ==
    /\ NoApproval \notin Approvals
    /\ Owner \in [Approvals -> Users]
ASSUME BoundsAssumption ==
    /\ MaxAttempts \in Nat \ {0} /\ MaxResets \in Nat
    /\ Faults \subseteq AllFaults

VARIABLES
    known,       \* users created so far
    coordinators,\* those created as coordinators; they may advise as well
    rows,        \* status of each approval row
    resets,      \* how often each row was reset
    certs,       \* certificates table, in order of insertion
    overdue,     \* certificates whose notAfter has passed
    revocations, \* certificates with a row in the revocations table
    missed,      \* approvals of which a revocation failed or was cut short
    registered,  \* names registered at the CA
    revoked,     \* names revoked at the CA
    waiting,     \* the queue's jobs, first in first out
    delayed,     \* jobs that wait for their next attempt
    failed,      \* whom the jobs that used up their attempts were for
    worker,      \* the job being processed
    req          \* the handler each slot is running

table == <<certs, overdue, revocations>>
authority == <<registered, revoked>>
queue == <<waiting, delayed, failed>>
people == <<known, coordinators, rows, resets>>
vars == <<people, table, missed, authority, queue, worker, req>>

-----------------------------------------------------------------------------
(* Names, certificates and jobs.                                           *)

\* createEnrollmentId: the e-mail and the organization of the role asked for.
\* A coordinator who advises has an advisor's identity besides.
Org(u, a) == IF u \in coordinators /\ a # NoApproval THEN "advisors" ELSE "own"
BaseName(u, a) == [user |-> u, org |-> Org(u, a), suffix |-> 0]

\* registerWithRetry: a name that is taken gets the time as a suffix, here the
\* number of names its user has in that organization.
Versions(u, a) == {n \in registered : n.user = u /\ n.org = Org(u, a)}
NameToRegister(u, a) ==
    [BaseName(u, a) EXCEPT !.suffix = Cardinality(Versions(u, a))]

Name == [user : Users, org : {"own", "advisors"}, suffix : Nat]
Certificate == [user : Users, approval : Approvals \cup {NoApproval}, name : Name,
                status : {"ACTIVE", "REVOKED", "EXPIRED"}]
Job == [user : Users, approval : Approvals \cup {NoApproval},
        nth : 1..(MaxResets + 1), made : 0..MaxAttempts, stalled : BOOLEAN]

Subject(j) == <<j.user, j.approval>>

Active == {i \in 1..Len(certs) : certs[i].status = "ACTIVE"}
ActiveByApproval(a) == {i \in Active : certs[i].approval = a}
ActiveByUser(u) == {i \in Active : certs[i].user = u}

Unmarked(c) == c                                                \* a mutant
MarkedRevoked(c) == [c EXCEPT !.status = "REVOKED"]
MarkedExpired(c) == [c EXCEPT !.status = "EXPIRED"]

\* enqueueCertificateGeneration; a queue out of reach is logged and forgotten.
Enqueue(u, a, n) ==
    LET job == [user |-> u, approval |-> a, nth |-> n, made |-> 0, stalled |-> FALSE]
    IN  \/ waiting' = Append(waiting, job)
        \/ "redis" \in Faults /\ UNCHANGED waiting

-----------------------------------------------------------------------------
(* The processor and the handlers.                                         *)

NoWorker == [pc |-> "idle"]
Worker == [pc : {"idle"}] \cup [pc : {"register", "store"}, job : Job]
              \cup [pc : {"enroll"}, job : Job, secret : Name]

Handler ==
    [pc : {"idle", "sign.find", "sign.save", "expire",
           "revoke.find", "revoke.ca", "revoke.store", "reset.enqueue", "reset.save"},
     approval : Approvals \cup {NoApproval},   \* the row addressed
     cert : Nat,                               \* the certificate found
     then : {"idle", "reset.enqueue"}]         \* what follows a revocation
Idle == [pc |-> "idle", approval |-> NoApproval, cert |-> 0, then |-> "idle"]

Become(r, h) == req' = [req EXCEPT ![r] = h]
Begin(r, pc, a) ==
    /\ req[r].pc = "idle"
    /\ Become(r, [Idle EXCEPT !.pc = pc, !.approval = a])
Revokes(h) == h.pc \in {"revoke.find", "revoke.ca", "revoke.store"}

TypeOK ==
    /\ known \subseteq Users /\ coordinators \subseteq known
    /\ rows \in [Approvals -> {"none", "PENDING", "APPROVED", "REJECTED", "recorded"}]
    /\ resets \in [Approvals -> 0..MaxResets]
    /\ certs \in Seq(Certificate)
    /\ overdue \subseteq 1..Len(certs) /\ revocations \subseteq 1..Len(certs)
    /\ missed \subseteq Approvals
    /\ registered \subseteq Name /\ revoked \subseteq registered
    /\ waiting \in Seq(Job) /\ delayed \subseteq Job
    /\ failed \subseteq Users \X (Approvals \cup {NoApproval})
    /\ worker \in Worker
    /\ req \in [Requests -> Handler]

Init ==
    /\ known = {} /\ coordinators = {}
    /\ rows = [a \in Approvals |-> "none"] /\ resets = [a \in Approvals |-> 0]
    /\ certs = <<>> /\ overdue = {} /\ revocations = {} /\ missed = {}
    /\ registered = {} /\ revoked = {}
    /\ waiting = <<>> /\ delayed = {} /\ failed = {}
    /\ worker = NoWorker
    /\ req = [r \in Requests |-> Idle]

-----------------------------------------------------------------------------
(* Users and approval rows are created, each with a job.                   *)

CreateUser(u, role) ==
    /\ u \notin known
    /\ known' = known \cup {u}
    /\ coordinators' = IF role = "COORDINATOR" THEN coordinators \cup {u}
                                               ELSE coordinators
    /\ Enqueue(u, NoApproval, 1)
    /\ UNCHANGED <<rows, resets, table, missed, authority, delayed, failed, worker, req>>

CreateApproval(a) ==
    /\ Owner[a] \in known /\ rows[a] = "none"
    /\ rows' = [rows EXCEPT ![a] = "PENDING"]
    /\ Enqueue(Owner[a], a, 1)
    /\ UNCHANGED <<known, coordinators, resets, table, missed, authority, delayed, failed, worker, req>>

-----------------------------------------------------------------------------
(* CertificateGenerationProcessor: one job at a time.                      *)

HasActiveCertificate(j) ==
    IF j.approval = NoApproval THEN ActiveByUser(j.user) # {}
                               ELSE ActiveByApproval(j.approval) # {}

TakeJob ==
    /\ worker = NoWorker /\ waiting # <<>>
    /\ waiting' = Tail(waiting)
    /\ worker' = IF HasActiveCertificate(Head(waiting)) THEN NoWorker
                 ELSE [pc |-> "register", job |-> Head(waiting)]
    /\ UNCHANGED <<people, table, missed, authority, delayed, failed, req>>

NeverGivesUp(j) == TRUE                                         \* a mutant
MayRetry(j) == j.made < MaxAttempts

\* The processor throws: Bull tries the job again after a delay.
AttemptFails ==
    LET j == [worker.job EXCEPT !.made = @ + 1] IN
    /\ worker' = NoWorker
    /\ delayed' = IF MayRetry(j) THEN delayed \cup {j} ELSE delayed
    /\ failed' = IF MayRetry(j) THEN failed ELSE failed \cup {Subject(j)}
    /\ UNCHANGED waiting

NextName == NameToRegister(worker.job.user, worker.job.approval)
EnrolledName == BaseName(worker.job.user, worker.job.approval)

RegisterName ==
    /\ worker.pc = "register"
    /\ registered' = registered \cup {NextName}
    /\ worker' = [pc |-> "enroll", job |-> worker.job, secret |-> NextName]
    /\ UNCHANGED <<people, table, missed, revoked, queue, req>>

CAEnrolls(n, secret) == n = secret /\ n \notin revoked

EnrollName ==
    /\ worker.pc = "enroll"
    /\ IF CAEnrolls(EnrolledName, worker.secret)
       THEN worker' = [pc |-> "store", job |-> worker.job] /\ UNCHANGED queue
       ELSE AttemptFails
    /\ UNCHANGED <<people, table, missed, authority, req>>

\* The CA cannot be reached, or registers the name and its answer is lost.
CAFails ==
    /\ "ca" \in Faults
    /\ worker.pc \in {"register", "enroll"}
    /\ \/ UNCHANGED registered
       \/ worker.pc = "register" /\ registered' = registered \cup {NextName}
    /\ AttemptFails
    /\ UNCHANGED <<people, table, missed, revoked, req>>

\* approvalId is unique, whatever the status of the row that has it.
StoreCertificate ==
    LET j == worker.job IN
    /\ worker.pc = "store"
    /\ IF j.approval # NoApproval /\ \E i \in 1..Len(certs) : certs[i].approval = j.approval
       THEN AttemptFails /\ UNCHANGED certs
       ELSE /\ certs' = Append(certs, [user |-> j.user, approval |-> j.approval,
                                       name |-> EnrolledName, status |-> "ACTIVE"])
            /\ worker' = NoWorker
            /\ UNCHANGED queue
    /\ UNCHANGED <<people, overdue, revocations, missed, authority, req>>

Due(j) ==
    /\ j \in delayed
    /\ delayed' = delayed \ {j}
    /\ waiting' = Append(waiting, j)
    /\ UNCHANGED <<people, table, missed, authority, failed, worker, req>>

-----------------------------------------------------------------------------
(* SignatureService.sign and getCertificate.                               *)

ExpireCertificate(i) ==
    /\ "expiry" \in Faults
    /\ i \in Active \ overdue
    /\ overdue' = overdue \cup {i}
    /\ UNCHANGED <<people, certs, revocations, missed, authority, queue, worker, req>>

SignBegin(r, a) ==
    /\ rows[a] = "PENDING"
    /\ Begin(r, "sign.find", a)
    /\ UNCHANGED <<people, table, missed, authority, queue, worker>>

SignFind(r) ==
    LET found == ActiveByApproval(req[r].approval) IN
    /\ req[r].pc = "sign.find"
    /\ IF found = {} THEN Become(r, Idle)
       ELSE \E i \in found :
              Become(r, [req[r] EXCEPT !.cert = i,
                                       !.pc = IF i \in overdue THEN "expire" ELSE "sign.save"])
    /\ UNCHANGED <<people, table, missed, authority, queue, worker>>

\* A coordinator's own row is signed with any certificate of the user; a row of
\* that kind is not in the model, so only finding an overdue one matters.
CoordinatorFindsOverdue(r, u) ==
    /\ u \in coordinators
    /\ \E i \in ActiveByUser(u) \cap overdue :
          req[r].pc = "idle" /\ Become(r, [Idle EXCEPT !.pc = "expire", !.cert = i])
    /\ UNCHANGED <<people, table, missed, authority, queue, worker>>

\* updateStatus writes EXPIRED whatever the status has become since.
MarkExpired(r) ==
    /\ req[r].pc = "expire"
    /\ certs' = [certs EXCEPT ![req[r].cert] = MarkedExpired(@)]
    /\ Become(r, Idle)
    /\ UNCHANGED <<people, overdue, revocations, missed, authority, queue, worker>>

SignSave(r) ==
    /\ req[r].pc = "sign.save"
    /\ rows' = [rows EXCEPT ![req[r].approval] = "APPROVED"]
    /\ Become(r, Idle)
    /\ UNCHANGED <<known, coordinators, resets, table, missed, authority, queue, worker>>

Reject(a) ==
    /\ rows[a] = "PENDING"
    /\ rows' = [rows EXCEPT ![a] = "REJECTED"]
    /\ UNCHANGED <<known, coordinators, resets, table, missed, authority, queue, worker, req>>

-----------------------------------------------------------------------------
(* Revocation: when the row is reset for replaced files, with a new job    *)
(* after it, and when the document is on the ledger.                       *)

ResetBegin(r, a) ==
    /\ rows[a] \in {"APPROVED", "REJECTED"} /\ resets[a] < MaxResets
    /\ req[r].pc = "idle"
    /\ Become(r, [Idle EXCEPT !.pc = "revoke.find", !.approval = a, !.then = "reset.enqueue"])
    /\ resets' = [resets EXCEPT ![a] = @ + 1]
    /\ UNCHANGED <<known, coordinators, rows, table, missed, authority, queue, worker>>

RecordBegin(r, a) ==
    /\ rows[a] = "APPROVED"
    /\ Begin(r, "revoke.find", a)
    /\ rows' = [rows EXCEPT ![a] = "recorded"]
    /\ UNCHANGED <<known, coordinators, resets, table, missed, authority, queue, worker>>

ActiveOfOwner(a) == ActiveByUser(Owner[a])                      \* a mutant
ToRevoke(a) == ActiveByApproval(a)

RevokeFind(r) ==
    LET h == req[r] IN
    /\ h.pc = "revoke.find"
    /\ IF ToRevoke(h.approval) = {} THEN Become(r, [h EXCEPT !.pc = h.then])
       ELSE \E i \in ToRevoke(h.approval) :
              Become(r, [h EXCEPT !.pc = "revoke.ca", !.cert = i])
    /\ UNCHANGED <<people, table, missed, authority, queue, worker>>

RevokedAtCA(i) == revoked \cup {certs[i].name}

RevokeAtCA(r) ==
    /\ req[r].pc = "revoke.ca"
    /\ revoked' = RevokedAtCA(req[r].cert)
    /\ Become(r, [req[r] EXCEPT !.pc = "revoke.store"])
    /\ UNCHANGED <<people, table, missed, registered, queue, worker>>

\* The callers log the failure of a revocation and go on.
RevokeFails(r) ==
    /\ "ca" \in Faults
    /\ req[r].pc = "revoke.ca"
    /\ revoked' \in {revoked, RevokedAtCA(req[r].cert)}
    /\ missed' = missed \cup {req[r].approval}
    /\ Become(r, [req[r] EXCEPT !.pc = req[r].then])
    /\ UNCHANGED <<people, table, registered, queue, worker>>

\* One transaction; certificateId is unique among the revocations.
RevokeStore(r) ==
    LET h == req[r] IN
    /\ h.pc = "revoke.store"
    /\ IF h.cert \in revocations THEN UNCHANGED <<certs, revocations>>
       ELSE /\ certs' = [certs EXCEPT ![h.cert] = MarkedRevoked(@)]
            /\ revocations' = revocations \cup {h.cert}
    /\ Become(r, [h EXCEPT !.pc = h.then])
    /\ UNCHANGED <<people, overdue, missed, authority, queue, worker>>

ResetEnqueue(r) ==
    LET a == req[r].approval IN
    /\ req[r].pc = "reset.enqueue"
    /\ Enqueue(Owner[a], a, resets[a] + 1)
    /\ Become(r, [req[r] EXCEPT !.pc = "reset.save"])
    /\ UNCHANGED <<people, table, missed, authority, delayed, failed, worker>>

ResetSave(r) ==
    /\ req[r].pc = "reset.save"
    /\ rows' = [rows EXCEPT ![req[r].approval] = "PENDING"]
    /\ Become(r, Idle)
    /\ UNCHANGED <<known, coordinators, resets, table, missed, authority, queue, worker>>

-----------------------------------------------------------------------------
\* The process restarts: handlers are gone, and Bull hands a job that was being
\* processed out again, once, as stalled.
Restart ==
    /\ "restart" \in Faults
    /\ worker # NoWorker \/ \E r \in Requests : req[r] # Idle
    /\ req' = [r \in Requests |-> Idle]
    /\ missed' = missed \cup {req[r].approval : r \in {q \in Requests : Revokes(req[q])}}
    /\ worker' = NoWorker
    /\ IF worker = NoWorker THEN UNCHANGED queue
       ELSE IF worker.job.stalled
       THEN failed' = failed \cup {Subject(worker.job)} /\ UNCHANGED <<waiting, delayed>>
       ELSE /\ waiting' = <<[worker.job EXCEPT !.stalled = TRUE]>> \o waiting
            /\ UNCHANGED <<delayed, failed>>
    /\ UNCHANGED <<people, table, authority>>

Process ==
    \/ TakeJob \/ RegisterName \/ EnrollName \/ StoreCertificate \/ CAFails
    \/ \E j \in delayed : Due(j)
Handle(r) ==
    \/ SignFind(r) \/ SignSave(r) \/ MarkExpired(r)
    \/ RevokeFind(r) \/ RevokeAtCA(r) \/ RevokeFails(r) \/ RevokeStore(r)
    \/ ResetEnqueue(r) \/ ResetSave(r)
Arrive(r) ==
    \/ \E a \in Approvals : SignBegin(r, a) \/ ResetBegin(r, a) \/ RecordBegin(r, a)
    \/ \E u \in Users : CoordinatorFindsOverdue(r, u)

Next ==
    \/ \E u \in Users, role \in {"COORDINATOR", "ADVISOR"} : CreateUser(u, role)
    \/ \E a \in Approvals : CreateApproval(a) \/ Reject(a)
    \/ \E i \in Active : ExpireCertificate(i)
    \/ Process
    \/ \E r \in Requests : Arrive(r) \/ Handle(r)
    \/ Restart

Spec == Init /\ [][Next]_vars
-----------------------------------------------------------------------------
\* A base certificate, the only one a coordinator signs with, is never revoked,
\* whatever becomes of the rows its user approves ("Coordenador mantém
\* certificado após revogação").
BaseCertificatesStay ==
    \A i \in 1..Len(certs) : certs[i].approval = NoApproval =>
        certs[i].status # "REVOKED" /\ certs[i].name \notin revoked

\* The table and the CA agree: what the table says is REVOKED the CA has
\* revoked, and a certificate whose identity is revoked is ACTIVE only while its
\* revocation is between the two, or after one that failed or was cut short.
RevocationsAgree ==
    \A i \in 1..Len(certs) :
        /\ certs[i].status = "REVOKED" => certs[i].name \in revoked
        /\ certs[i].name \in revoked /\ certs[i].status = "ACTIVE" =>
              \/ certs[i].approval \in missed
              \/ \E r \in Requests : req[r].pc = "revoke.store" /\ req[r].cert = i

\* Once a document is on the ledger its approvals have no certificate in use,
\* unless a revocation failed, not even one generated late by a queued job.
RecordedHasNoCertificate ==
    \A a \in Approvals :
        \/ rows[a] # "recorded" \/ a \in missed
        \/ \E r \in Requests : req[r].approval = a /\ Revokes(req[r])
        \/ ActiveByApproval(a) = {}

\* What the repository's test of certificates expects: an approver who has the
\* certificate of one approval gets that of another as well ("Múltiplos
\* certificados ativos simultâneos para mesmo orientador").  The row is looked
\* at when no job for it is left.
Sought(a) ==
    \/ \E k \in 1..Len(waiting) : waiting[k].approval = a
    \/ \E j \in delayed : j.approval = a
    \/ worker # NoWorker /\ worker.job.approval = a
SecondDefenseHasCertificate ==
    \A a, b \in Approvals :
        Owner[a] = Owner[b] /\ ActiveByApproval(a) # {}
            /\ rows[b] = "PENDING" /\ ~Sought(b) => ActiveByApproval(b) # {}
=============================================================================
