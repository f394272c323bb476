---------------------- MODULE ApprovalCertificatesProofs ----------------------
(***************************************************************************)
(* Theorems about ApprovalCertificates that hold for any users, approval   *)
(* rows and handlers in flight, and whatever fails.                        *)
(*                                                                         *)
(* The argument: the processor enrolls a name only with the secret drawn   *)
(* when that name was first registered, so a name gives one certificate    *)
(* (Names), and the CA revokes only names of approvals' certificates.  An  *)
(* approval has one certificate in its life, since approvalId is unique    *)
(* whatever became of the row that has it; so the one that is revoked when *)
(* the document is recorded is the only one there will be (Recorded).      *)
(***************************************************************************)
EXTENDS ApprovalCertificates, SequenceTheorems, FiniteSetTheorems, TLAPS

Certs == 1..Len(certs)
Has(a) == \E i \in Certs : certs[i].approval = a

\* The CA revokes a name, not a certificate; no two certificates share one.
OneNameEach == \A i, j \in Certs : certs[i].name = certs[j].name => i = j

\* Certificates, names and revocations.
Names ==
    /\ IsFiniteSet(registered)
    /\ OneNameEach
    /\ \A i, j \in Certs :
          certs[i].approval = certs[j].approval /\ certs[i].approval # NoApproval => i = j
    /\ \A i \in Certs :
          /\ certs[i].name \in registered
          /\ certs[i].status = "REVOKED" => certs[i].name \in revoked
          /\ i \in revocations => certs[i].status # "ACTIVE"
    /\ \A n \in revoked : \E i \in Certs : certs[i].name = n /\ certs[i].approval # NoApproval

\* Jobs are for users who exist, so their organization is settled.
JobOK(j) == j.user \in known
Jobs ==
    /\ \A k \in 1..Len(waiting) : JobOK(waiting[k])
    /\ \A j \in delayed : JobOK(j)
    /\ worker.pc # "idle" => JobOK(worker.job)

\* The name the processor is about to use has no certificate yet.
Fresh(n) == n \in registered /\ \A i \in Certs : certs[i].name # n
Working ==
    /\ worker.pc = "enroll" /\ worker.secret.suffix = 0 => Fresh(worker.secret)
    /\ worker.pc = "store" => Fresh(EnrolledName)

\* An approval that was given has been signed with a certificate of its own.
RowOK(a) ==
    /\ rows[a] # "none" => Owner[a] \in known
    /\ rows[a] \in {"APPROVED", "recorded"} => Has(a)

HandlerOK(h) ==
    /\ h.pc \notin {"idle", "expire"} => h.approval \in Approvals /\ Owner[h.approval] \in known
    /\ h.pc = "sign.save" => Has(h.approval)
    /\ h.pc = "expire" => h.cert \in Certs
    /\ h.pc \in {"revoke.ca", "revoke.store"} =>
          h.cert \in Certs /\ certs[h.cert].approval = h.approval
    /\ h.pc = "revoke.store" => certs[h.cert].name \in revoked

\* A certificate in use whose identity is revoked is about to be marked.
Marking(i) == \E r \in Requests : req[r].pc = "revoke.store" /\ req[r].cert = i
Agreed ==
    \A i \in Certs : certs[i].name \in revoked /\ certs[i].status = "ACTIVE" =>
        certs[i].approval \in missed \/ Marking(i)

Recorded(a) ==
    rows[a] = "recorded" =>
        \/ a \in missed
        \/ \E r \in Requests : req[r].approval = a /\ Revokes(req[r])
        \/ \A i \in Certs : certs[i].approval = a => certs[i].status # "ACTIVE"

IInv ==
    /\ TypeOK /\ Names /\ Jobs /\ Working
    /\ \A a \in Approvals : RowOK(a) /\ Recorded(a)
    /\ \A r \in Requests : HandlerOK(req[r])
    /\ Agreed

USE OwnersAssumption, BoundsAssumption

-----------------------------------------------------------------------------
(* Helpers.                                                                *)

LEMMA IdleLemma ==
    /\ Idle \in Handler /\ Idle.pc = "idle" /\ ~Revokes(Idle)
    /\ NoWorker \in Worker /\ NoWorker.pc = "idle"
BY DEF Idle, Handler, Revokes, NoWorker, Worker

LEMMA IdleOK == HandlerOK(Idle)
BY IdleLemma DEF HandlerOK

LEMMA WorkerLemma ==
    ASSUME worker \in Worker
    PROVE  /\ worker = NoWorker <=> worker.pc = "idle"
           /\ worker.pc # "idle" => worker.job \in Job
           /\ worker.pc = "enroll" => worker.secret \in Name
BY DEF Worker, NoWorker

Status == {"none", "PENDING", "APPROVED", "REJECTED", "recorded"}

LEMMA RowsLemma ==
    ASSUME IInv, NEW a \in Approvals, NEW s \in Status, rows' = [rows EXCEPT ![a] = s]
    PROVE  rows'[a] = s /\ \A b \in Approvals : b # a => rows'[b] = rows[b]
<1>1. rows \in [Approvals -> Status]
  BY DEF IInv, TypeOK, Status
<1> QED
  BY <1>1

LEMMA CertLemma ==
    ASSUME TypeOK, NEW i \in Certs
    PROVE  certs[i] \in Certificate
BY DEF TypeOK, Certs

LEMMA InitHolds == Init => IInv
<1> SUFFICES ASSUME Init PROVE IInv
  OBVIOUS
<1>1. TypeOK
  BY IdleLemma DEF Init, TypeOK
<1>2. Certs = {}
  BY DEF Init, Certs
<1>3. Names
  BY <1>2, FS_EmptySet DEF Init, Names, OneNameEach, Certs
<1>4. Jobs /\ Working
  BY IdleLemma DEF Init, Jobs, Working
<1>5. \A a \in Approvals : RowOK(a) /\ Recorded(a)
  BY DEF Init, RowOK, Recorded
<1>6. \A r \in Requests : HandlerOK(req[r])
  BY IdleOK DEF Init
<1>7. Agreed
  BY <1>2 DEF Agreed
<1> QED
  BY <1>1, <1>3, <1>4, <1>5, <1>6, <1>7 DEF IInv

-----------------------------------------------------------------------------
(* What a step leaves of the invariant.                                    *)

\* Certificates are added and cease to be used; names, users and what was
\* missed stay.
Evolves ==
    /\ Certs \subseteq Certs'
    /\ \A i \in Certs :
          /\ certs'[i].name = certs[i].name /\ certs'[i].approval = certs[i].approval
          /\ certs'[i].status = "ACTIVE" => certs[i].status = "ACTIVE"
    /\ known \subseteq known' /\ revoked \subseteq revoked' /\ missed \subseteq missed'

LEMMA StillEvolves ==
    ASSUME UNCHANGED certs, known \subseteq known', revoked \subseteq revoked', missed \subseteq missed'
    PROVE  Evolves
BY DEF Evolves, Certs

LEMMA HandlerKept == ASSUME NEW h \in Handler, HandlerOK(h), Evolves PROVE HandlerOK(h)'
<1>1. Has(h.approval) => Has(h.approval)'
  BY DEF Has, Evolves
<1> QED
  BY <1>1 DEF HandlerOK, Evolves

LEMMA HandlersKept ==
    ASSUME IInv, NEW r \in Requests, NEW h \in Handler, req' = [req EXCEPT ![r] = h],
           Evolves, HandlerOK(h)'
    PROVE  \A q \in Requests : HandlerOK(req[q])'
<1> TAKE q \in Requests
<1>1. req[q] \in Handler /\ HandlerOK(req[q])
  BY DEF IInv, TypeOK
<1>2. CASE q = r
  <2>1. req'[q] = h
    BY <1>2 DEF IInv, TypeOK
  <2> QED
    BY <2>1 DEF HandlerOK, Has
<1>3. CASE q # r
  <2>1. PICK k \in Handler : k = req[q] /\ k = req'[q] /\ HandlerOK(k)
    BY <1>1, <1>3 DEF IInv, TypeOK
  <2>2. HandlerOK(k)'
    BY <2>1, HandlerKept
  <2> QED
    BY <2>1, <2>2 DEF HandlerOK, Has
<1> QED
  BY <1>2, <1>3

LEMMA RowKept ==
    ASSUME NEW a \in Approvals, RowOK(a), Evolves, rows'[a] = rows[a]
    PROVE  RowOK(a)'
BY DEF RowOK, Has, Evolves

LEMMA NamesKept == ASSUME Names, UNCHANGED <<certs, revocations, authority>> PROVE Names'
BY DEF Names, OneNameEach, Certs, authority

LEMMA WorkingKept ==
    ASSUME Working, Jobs, UNCHANGED <<worker, certs, registered>>,
           worker.pc # "idle" /\ worker.job.user \in known =>
              (worker.job.user \in coordinators' <=> worker.job.user \in coordinators)
    PROVE  Working'
<1>1. CASE worker.pc = "store"
  <2>1. EnrolledName' = EnrolledName
    BY <1>1 DEF EnrolledName, BaseName, Org, Jobs, JobOK
  <2> QED
    BY <1>1, <2>1 DEF Working, Fresh, Certs
<1>2. CASE worker.pc # "store"
  BY <1>2 DEF Working, Fresh, Certs
<1> QED
  BY <1>1, <1>2

-----------------------------------------------------------------------------
(* Steps of the queue and of its processor, and creations: the handlers,   *)
(* the table and the revocations are as they were.                         *)

LEMMA QueueKeeps ==
    ASSUME IInv, TypeOK', Jobs', Working',
           UNCHANGED <<table, revoked, missed, req>>, known \subseteq known',
           registered \subseteq registered', IsFiniteSet(registered'),
           \A a \in Approvals :
              rows'[a] = rows[a] \/ (rows'[a] \in {"PENDING", "REJECTED"} /\ Owner[a] \in known')
    PROVE  IInv'
<1>1. UNCHANGED <<certs, overdue, revocations>> /\ Certs' = Certs
  BY DEF table, Certs
<1>2. Evolves
  BY <1>1, StillEvolves
<1>3. Names'
  BY <1>1 DEF IInv, Names, OneNameEach, Certs
<1>4. ASSUME NEW a \in Approvals PROVE RowOK(a)'
  <2>1. CASE rows'[a] = rows[a]
    BY <1>2, <2>1, RowKept DEF IInv
  <2>2. CASE rows'[a] \in {"PENDING", "REJECTED"} /\ Owner[a] \in known'
    BY <2>2 DEF RowOK
  <2> QED
    BY <2>1, <2>2
<1>5. ASSUME NEW a \in Approvals PROVE Recorded(a)'
  BY <1>1 DEF IInv, Recorded, Revokes
<1>6. ASSUME NEW q \in Requests PROVE HandlerOK(req[q])'
  <2>1. PICK k \in Handler : k = req[q] /\ k = req'[q] /\ HandlerOK(k)
    BY DEF IInv, TypeOK
  <2>2. HandlerOK(k)'
    BY <1>2, <2>1, HandlerKept
  <2> QED
    BY <2>1, <2>2 DEF HandlerOK, Has
<1>7. Agreed'
  BY <1>1 DEF IInv, Agreed, Marking
<1> QED
  BY <1>3, <1>4, <1>5, <1>6, <1>7 DEF IInv

\* A queue out of reach or not, the jobs stay jobs of users who exist.
LEMMA EnqueueLemma ==
    ASSUME IInv, NEW u \in known', u \in Users, NEW a \in Approvals \cup {NoApproval},
           NEW n \in 1..(MaxResets + 1), Enqueue(u, a, n), known \subseteq known'
    PROVE  waiting' \in Seq(Job) /\ \A k \in 1..Len(waiting') : waiting'[k].user \in known'
<1> DEFINE job == [user |-> u, approval |-> a, nth |-> n, made |-> 0, stalled |-> FALSE]
<1>1. job \in Job /\ job.user = u
  BY DEF Job
<1>2. waiting \in Seq(Job) /\ \A k \in 1..Len(waiting) : waiting[k].user \in known
  BY DEF IInv, TypeOK, Jobs, JobOK
<1>3. waiting' = Append(waiting, job) \/ waiting' = waiting
  BY DEF Enqueue
<1> HIDE DEF job
<1>4. CASE waiting' = waiting
  BY <1>2, <1>4
<1>5. CASE waiting' = Append(waiting, job)
  BY <1>1, <1>2, <1>5, AppendProperties
<1> QED
  BY <1>3, <1>4, <1>5

LEMMA CreateUserKeeps ==
    ASSUME IInv, NEW u \in Users, NEW role \in {"COORDINATOR", "ADVISOR"}, CreateUser(u, role)
    PROVE  IInv'
<1>1. /\ u \notin known /\ known' = known \cup {u}
      /\ coordinators' \subseteq coordinators \cup {u} /\ coordinators \subseteq coordinators'
      /\ Enqueue(u, NoApproval, 1)
      /\ UNCHANGED <<rows, resets, certs, overdue, revocations, missed, registered, revoked,
                     delayed, failed, worker, req>>
  BY DEF CreateUser, table, authority
<1>2. 1 \in 1..(MaxResets + 1)
  OBVIOUS
<1>3. waiting' \in Seq(Job) /\ \A k \in 1..Len(waiting') : waiting'[k].user \in known'
  BY <1>1, <1>2, EnqueueLemma
<1>4. TypeOK'
  BY <1>1, <1>3 DEF IInv, TypeOK
<1>5. Jobs'
  BY <1>1, <1>3 DEF IInv, Jobs, JobOK
<1>6. Working'
  BY <1>1, WorkingKept DEF IInv
<1>7. IsFiniteSet(registered') /\ known \subseteq known'
  BY <1>1 DEF IInv, Names
<1> QED
  BY <1>1, <1>4, <1>5, <1>6, <1>7, QueueKeeps DEF table

LEMMA CreateApprovalKeeps ==
    ASSUME IInv, NEW a \in Approvals, CreateApproval(a)
    PROVE  IInv'
<1>1. /\ Owner[a] \in known /\ Owner[a] \in Users /\ rows' = [rows EXCEPT ![a] = "PENDING"]
      /\ Enqueue(Owner[a], a, 1)
      /\ UNCHANGED <<known, coordinators, resets, certs, overdue, revocations, missed,
                     registered, revoked, delayed, failed, worker, req>>
  BY DEF CreateApproval, table, authority
<1>2. 1 \in 1..(MaxResets + 1)
  OBVIOUS
<1>3. waiting' \in Seq(Job) /\ \A k \in 1..Len(waiting') : waiting'[k].user \in known'
  BY <1>1, <1>2, EnqueueLemma
<1>4. TypeOK'
  BY <1>1, <1>3 DEF IInv, TypeOK
<1>5. Jobs'
  BY <1>1, <1>3 DEF IInv, Jobs, JobOK
<1>6. Working'
  BY <1>1, WorkingKept DEF IInv
<1>7. IsFiniteSet(registered') /\ known \subseteq known'
  BY <1>1 DEF IInv, Names
<1>8. \A b \in Approvals : rows'[b] = rows[b] \/ (b = a /\ rows'[b] = "PENDING")
  BY <1>1, RowsLemma DEF Status
<1> QED
  BY <1>1, <1>4, <1>5, <1>6, <1>7, <1>8, QueueKeeps DEF table

LEMMA RejectKeeps == ASSUME IInv, NEW a \in Approvals, Reject(a) PROVE IInv'
<1>1. /\ rows[a] = "PENDING" /\ rows' = [rows EXCEPT ![a] = "REJECTED"]
      /\ UNCHANGED <<known, coordinators, resets, certs, overdue, revocations, missed,
                     registered, revoked, waiting, delayed, failed, worker, req>>
  BY DEF Reject, table, authority, queue
<1>2. TypeOK'
  BY <1>1 DEF IInv, TypeOK
<1>3. Jobs' /\ Working'
  BY <1>1, WorkingKept DEF IInv, Jobs, JobOK
<1>4. IsFiniteSet(registered') /\ Owner[a] \in known'
  BY <1>1 DEF IInv, Names, RowOK
<1>5. \A b \in Approvals : rows'[b] = rows[b] \/ (b = a /\ rows'[b] = "REJECTED")
  BY <1>1, RowsLemma DEF Status
<1> QED
  BY <1>1, <1>2, <1>3, <1>4, <1>5, QueueKeeps DEF table


LEMMA TakeJobKeeps == ASSUME IInv, TakeJob PROVE IInv'
<1>1. /\ worker = NoWorker /\ waiting # <<>> /\ waiting' = Tail(waiting)
      /\ worker' \in {NoWorker, [pc |-> "register", job |-> Head(waiting)]}
      /\ UNCHANGED <<known, coordinators, rows, resets, certs, overdue, revocations, missed,
                     registered, revoked, delayed, failed, req>>
  BY DEF TakeJob, table, authority, people
<1>2. waiting \in Seq(Job) /\ \A k \in 1..Len(waiting) : waiting[k].user \in known
  BY DEF IInv, TypeOK, Jobs, JobOK
<1>3. /\ Head(waiting) \in Job /\ Head(waiting) = waiting[1] /\ 1 \in 1..Len(waiting)
      /\ waiting' \in Seq(Job)
      /\ \A k \in 1..Len(waiting') : waiting'[k] = waiting[k + 1] /\ k + 1 \in 1..Len(waiting)
  BY <1>1, <1>2, HeadTailProperties, EmptySeq
<1>4. worker' \in Worker /\ worker'.pc \in {"idle", "register"}
      /\ (worker'.pc # "idle" => worker'.job.user \in known)
  BY <1>1, <1>2, <1>3 DEF Worker, NoWorker
<1>5. TypeOK'
  BY <1>1, <1>3, <1>4 DEF IInv, TypeOK
<1>6. Jobs'
  BY <1>1, <1>2, <1>3, <1>4 DEF IInv, Jobs, JobOK
<1>7. Working'
  BY <1>4 DEF Working
<1>8. IsFiniteSet(registered') /\ known \subseteq known'
  BY <1>1 DEF IInv, Names
<1> QED
  BY <1>1, <1>5, <1>6, <1>7, <1>8, QueueKeeps DEF table

\* The processor's error path: the job waits for another attempt or is given up.
LEMMA AttemptFailsLemma ==
    ASSUME IInv, AttemptFails, worker.pc # "idle"
    PROVE  /\ worker' = NoWorker /\ waiting' = waiting
           /\ delayed' \subseteq Job /\ \A j \in delayed' : j.user \in known
           /\ failed' \subseteq Users \X (Approvals \cup {NoApproval})
<1> DEFINE j == [worker.job EXCEPT !.made = @ + 1]
<1>1. worker.job \in Job /\ worker.job.user \in known
  BY WorkerLemma DEF IInv, TypeOK, Jobs, JobOK
<1>2. MayRetry(j) => j \in Job
  BY <1>1 DEF MayRetry, Job
<1>3. j.user = worker.job.user /\ j.approval = worker.job.approval
  BY <1>1 DEF Job
<1>4. Subject(j) \in Users \X (Approvals \cup {NoApproval})
  BY <1>1, <1>3 DEF Subject, Job
<1>5. /\ worker' = NoWorker /\ waiting' = waiting
      /\ delayed' = delayed \/ (MayRetry(j) /\ delayed' = delayed \cup {j})
      /\ failed' \in {failed, failed \cup {Subject(j)}}
  BY DEF AttemptFails
<1> HIDE DEF j
<1> QED
  BY <1>1, <1>2, <1>3, <1>4, <1>5 DEF IInv, TypeOK, Jobs, JobOK

\* The CA registers a name nobody has, or the base name when it has not that.
LEMMA NextNameLemma ==
    ASSUME IInv, worker.pc = "register"
    PROVE  /\ NextName \in Name
           /\ NextName.suffix = 0 => NextName = EnrolledName /\ NextName \notin registered
<1> DEFINE u == worker.job.user
           a == worker.job.approval
<1>1. worker.job \in Job
  BY WorkerLemma DEF IInv, TypeOK
<1>2. IsFiniteSet(registered) /\ Versions(u, a) \subseteq registered
  BY DEF IInv, Names, Versions
<1>3. IsFiniteSet(Versions(u, a))
  BY <1>2, FS_Subset
<1>4. /\ Cardinality(Versions(u, a)) \in Nat
      /\ Cardinality(Versions(u, a)) = 0 => Versions(u, a) = {}
  BY <1>3, FS_CardinalityType, FS_EmptySet
<1>5. BaseName(u, a) \in Name /\ BaseName(u, a).suffix = 0
      /\ BaseName(u, a).user = u /\ BaseName(u, a).org = Org(u, a)
  BY <1>1 DEF BaseName, Name, Org, Job
<1>6. NextName = [BaseName(u, a) EXCEPT !.suffix = Cardinality(Versions(u, a))]
  BY DEF NextName, NameToRegister
<1>7. NextName \in Name /\ NextName.suffix = Cardinality(Versions(u, a))
  BY <1>4, <1>5, <1>6 DEF Name
<1>8. ASSUME NextName.suffix = 0
      PROVE  NextName = EnrolledName /\ NextName \notin registered
  <2>1. NextName = BaseName(u, a)
    BY <1>5, <1>6, <1>7, <1>8 DEF BaseName
  <2>2. NextName \notin registered
    BY <1>4, <1>5, <1>7, <1>8, <2>1 DEF Versions
  <2> QED
    BY <2>1, <2>2 DEF EnrolledName
<1> QED
  BY <1>7, <1>8

LEMMA RegisterNameKeeps == ASSUME IInv, RegisterName PROVE IInv'
<1>1. /\ worker.pc = "register" /\ registered' = registered \cup {NextName}
      /\ worker' = [pc |-> "enroll", job |-> worker.job, secret |-> NextName]
      /\ UNCHANGED <<known, coordinators, rows, resets, certs, overdue, revocations, missed,
                     revoked, waiting, delayed, failed, req>>
  BY DEF RegisterName, table, queue, people
<1>2. NextName \in Name /\ (NextName.suffix = 0 => NextName \notin registered)
  BY <1>1, NextNameLemma
<1>3. worker.job \in Job /\ worker.job.user \in known
  BY <1>1, WorkerLemma DEF IInv, TypeOK, Jobs, JobOK
<1>4. worker' \in Worker /\ worker'.pc = "enroll" /\ worker'.job = worker.job
      /\ worker'.secret = NextName
  BY <1>1, <1>2, <1>3 DEF Worker
<1>5. TypeOK'
  BY <1>1, <1>2, <1>4 DEF IInv, TypeOK
<1>6. Jobs'
  BY <1>1, <1>3, <1>4 DEF IInv, Jobs, JobOK
<1>7. Working'
  BY <1>1, <1>2, <1>4 DEF IInv, Working, Fresh, Names, Certs
<1>8. IsFiniteSet(registered')
  BY <1>1, FS_AddElement DEF IInv, Names
<1>9. known \subseteq known' /\ registered \subseteq registered'
  BY <1>1
<1> QED
  BY <1>1, <1>5, <1>6, <1>7, <1>8, <1>9, QueueKeeps DEF table

LEMMA EnrollNameKeeps == ASSUME IInv, EnrollName PROVE IInv'
<1>1. /\ worker.pc = "enroll"
      /\ UNCHANGED <<known, coordinators, rows, resets, certs, overdue, revocations, missed,
                     registered, revoked, req>>
  BY DEF EnrollName, table, authority, people
<1>2. worker.job \in Job /\ worker.job.user \in known
  BY <1>1, WorkerLemma DEF IInv, TypeOK, Jobs, JobOK
<1>3. IsFiniteSet(registered') /\ known \subseteq known' /\ registered \subseteq registered'
  BY <1>1 DEF IInv, Names
<1>4. CASE CAEnrolls(EnrolledName, worker.secret)
  <2>1. worker' = [pc |-> "store", job |-> worker.job] /\ UNCHANGED <<waiting, delayed, failed>>
    BY <1>4 DEF EnrollName, queue
  <2>2. worker' \in Worker /\ worker'.pc = "store" /\ worker'.job = worker.job
    BY <1>2, <2>1 DEF Worker
  <2>3. TypeOK' /\ Jobs'
    BY <1>1, <1>2, <2>1, <2>2 DEF IInv, TypeOK, Jobs, JobOK
  <2>4. worker.secret = EnrolledName /\ EnrolledName.suffix = 0
    BY <1>4 DEF CAEnrolls, EnrolledName, BaseName
  <2>5. Fresh(EnrolledName)
    BY <1>1, <2>4 DEF IInv, Working
  <2>6. EnrolledName' = EnrolledName
    BY <1>1, <2>2 DEF EnrolledName, BaseName, Org
  <2>7. Working'
    BY <1>1, <2>2, <2>5, <2>6 DEF Working, Fresh, Certs
  <2> QED
    BY <1>1, <1>3, <2>3, <2>7, QueueKeeps DEF table
<1>5. CASE ~CAEnrolls(EnrolledName, worker.secret)
  <2>1. AttemptFails
    BY <1>5 DEF EnrollName
  <2>2. /\ worker' = NoWorker /\ waiting' = waiting
        /\ delayed' \subseteq Job /\ \A j \in delayed' : j.user \in known
        /\ failed' \subseteq Users \X (Approvals \cup {NoApproval})
    BY <1>1, <2>1, AttemptFailsLemma
  <2>3. TypeOK' /\ Jobs' /\ Working'
    BY <1>1, <2>2, IdleLemma DEF IInv, TypeOK, Jobs, JobOK, Working
  <2> QED
    BY <1>1, <1>3, <2>3, QueueKeeps DEF table
<1> QED
  BY <1>4, <1>5

LEMMA CAFailsKeeps == ASSUME IInv, CAFails PROVE IInv'
<1>1. /\ worker.pc \in {"register", "enroll"} /\ AttemptFails
      /\ \/ registered' = registered
         \/ worker.pc = "register" /\ registered' = registered \cup {NextName}
      /\ UNCHANGED <<known, coordinators, rows, resets, certs, overdue, revocations, missed,
                     revoked, req>>
  BY DEF CAFails, table, people
<1>2. /\ worker' = NoWorker /\ waiting' = waiting
      /\ delayed' \subseteq Job /\ \A j \in delayed' : j.user \in known
      /\ failed' \subseteq Users \X (Approvals \cup {NoApproval})
  BY <1>1, AttemptFailsLemma
<1>3. registered' \subseteq Name /\ registered \subseteq registered'
  BY <1>1, NextNameLemma DEF IInv, TypeOK
<1>4. TypeOK' /\ Jobs' /\ Working'
  BY <1>1, <1>2, <1>3, IdleLemma DEF IInv, TypeOK, Jobs, JobOK, Working
<1>5. IsFiniteSet(registered') /\ known \subseteq known'
  BY <1>1, FS_AddElement DEF IInv, Names
<1> QED
  BY <1>1, <1>3, <1>4, <1>5, QueueKeeps DEF table

LEMMA DueKeeps == ASSUME IInv, NEW j \in delayed, Due(j) PROVE IInv'
<1>1. /\ delayed' = delayed \ {j} /\ waiting' = Append(waiting, j)
      /\ UNCHANGED <<known, coordinators, rows, resets, certs, overdue, revocations, missed,
                     registered, revoked, failed, worker, req>>
  BY DEF Due, table, authority, people
<1>2. j \in Job /\ j.user \in known /\ waiting \in Seq(Job)
      /\ \A k \in 1..Len(waiting) : waiting[k].user \in known
  BY DEF IInv, TypeOK, Jobs, JobOK
<1>3. waiting' \in Seq(Job) /\ \A k \in 1..Len(waiting') : waiting'[k].user \in known
  BY <1>1, <1>2, AppendProperties
<1>4. TypeOK'
  BY <1>1, <1>3 DEF IInv, TypeOK
<1>5. Jobs' /\ Working'
  BY <1>1, <1>3, WorkingKept DEF IInv, Jobs, JobOK
<1>6. IsFiniteSet(registered') /\ known \subseteq known'
  BY <1>1 DEF IInv, Names
<1> QED
  BY <1>1, <1>4, <1>5, <1>6, QueueKeeps DEF table

-----------------------------------------------------------------------------
(* The certificate is stored, and certificates pass their notAfter.        *)

LEMMA OtherHandlersKept ==
    ASSUME IInv, UNCHANGED req, Evolves
    PROVE  \A q \in Requests : HandlerOK(req[q])'
<1> TAKE q \in Requests
<1>1. PICK k \in Handler : k = req[q] /\ k = req'[q] /\ HandlerOK(k)
  BY DEF IInv, TypeOK
<1>2. HandlerOK(k)'
  BY <1>1, HandlerKept
<1> QED
  BY <1>1, <1>2 DEF HandlerOK, Has

LEMMA StoredLemma ==
    ASSUME IInv, StoreCertificate,
           ~(worker.job.approval # NoApproval
             /\ \E i \in 1..Len(certs) : certs[i].approval = worker.job.approval)
    PROVE  IInv'
<1> DEFINE j == worker.job
           c == [user |-> j.user, approval |-> j.approval,
                 name |-> EnrolledName, status |-> "ACTIVE"]
           n == Len(certs) + 1
<1>1. /\ worker.pc = "store" /\ certs' = Append(certs, c) /\ worker' = NoWorker
      /\ UNCHANGED <<known, coordinators, rows, resets, overdue, revocations, missed,
                     registered, revoked, waiting, delayed, failed, req>>
  BY DEF StoreCertificate, authority, queue, people
<1>2. j \in Job
  BY <1>1, WorkerLemma DEF IInv, TypeOK
<1>3. Fresh(EnrolledName)
  BY <1>1 DEF IInv, Working
<1>4. c \in Certificate
  BY <1>2, <1>3 DEF Certificate, Job, Fresh, IInv, TypeOK
<1>5. certs \in Seq(Certificate) /\ Len(certs) \in Nat /\ Certs = 1..Len(certs)
  BY DEF IInv, TypeOK, Certs
<1>6. c.name = EnrolledName /\ c.approval = j.approval /\ c.status = "ACTIVE"
  OBVIOUS
<1> HIDE DEF c
<1>7. /\ certs' \in Seq(Certificate) /\ Certs' = Certs \cup {n}
      /\ n \notin Certs /\ certs'[n] = c /\ \A i \in Certs : certs'[i] = certs[i]
  BY <1>1, <1>4, <1>5, AppendProperties DEF Certs
<1> HIDE DEF n
<1>8. Evolves
  BY <1>1, <1>7 DEF Evolves
<1>9. TypeOK'
  <2>1. 1..Len(certs) \subseteq (1..Len(certs))'
    BY <1>5, <1>7 DEF Certs
  <2> QED
    BY <1>1, <1>7, <2>1, IdleLemma DEF IInv, TypeOK
<1>10. Names'
  <2>1. OneNameEach'
    BY <1>3, <1>6, <1>7 DEF IInv, Names, OneNameEach, Fresh, Certs
  <2>2. \A i, k \in Certs' : certs'[i].approval = certs'[k].approval
                             /\ certs'[i].approval # NoApproval => i = k
    BY <1>5, <1>6, <1>7 DEF IInv, Names
  <2>3. n \notin revocations
    BY <1>5, <1>7 DEF IInv, TypeOK
  <2>4. \A i \in Certs' :
          /\ certs'[i].name \in registered'
          /\ certs'[i].status = "REVOKED" => certs'[i].name \in revoked'
          /\ i \in revocations' => certs'[i].status # "ACTIVE"
    BY <1>1, <1>3, <1>6, <1>7, <2>3 DEF IInv, Names, Fresh
  <2>5. \A m \in revoked' : \E i \in Certs' : certs'[i].name = m /\ certs'[i].approval # NoApproval
    <3> TAKE m \in revoked'
    <3>1. PICK i \in Certs : certs[i].name = m /\ certs[i].approval # NoApproval
      BY <1>1 DEF IInv, Names
    <3>2. i \in Certs' /\ certs'[i] = certs[i]
      BY <1>7
    <3> QED
      BY <3>1, <3>2
  <2> QED
    BY <1>1, <2>1, <2>2, <2>4, <2>5 DEF IInv, Names
<1>11. Jobs' /\ Working'
  BY <1>1, IdleLemma DEF IInv, Jobs, JobOK, Working
<1>12. ASSUME NEW a \in Approvals PROVE RowOK(a)' /\ Recorded(a)'
  <2>1. RowOK(a)'
    BY <1>1, <1>8, RowKept DEF IInv
  <2>2. rows[a] = "recorded" => c.approval # a
    BY <1>5, <1>6 DEF IInv, RowOK, Has
  <2>3. Recorded(a)'
    BY <1>1, <1>7, <2>2 DEF IInv, Recorded, Revokes
  <2> QED
    BY <2>1, <2>3
<1>13. \A q \in Requests : HandlerOK(req[q])'
  BY <1>1, <1>8, OtherHandlersKept
<1>14. Agreed'
  <2>1. EnrolledName \notin revoked
    BY <1>3 DEF IInv, Names, Fresh
  <2> QED
    BY <1>1, <1>6, <1>7, <2>1 DEF IInv, Agreed, Marking
<1> QED
  BY <1>9, <1>10, <1>11, <1>12, <1>13, <1>14 DEF IInv

LEMMA StoreCertificateKeeps == ASSUME IInv, StoreCertificate PROVE IInv'
<1>1. CASE worker.job.approval # NoApproval
           /\ \E i \in 1..Len(certs) : certs[i].approval = worker.job.approval
  <2>1. /\ worker.pc = "store" /\ AttemptFails
        /\ UNCHANGED <<known, coordinators, rows, resets, certs, overdue, revocations, missed,
                       registered, revoked, req>>
    BY <1>1 DEF StoreCertificate, authority, people
  <2>2. /\ worker' = NoWorker /\ waiting' = waiting
        /\ delayed' \subseteq Job /\ \A j \in delayed' : j.user \in known
        /\ failed' \subseteq Users \X (Approvals \cup {NoApproval})
    BY <2>1, AttemptFailsLemma
  <2>3. TypeOK' /\ Jobs' /\ Working'
    BY <2>1, <2>2, IdleLemma DEF IInv, TypeOK, Jobs, JobOK, Working
  <2>4. IsFiniteSet(registered') /\ known \subseteq known' /\ registered \subseteq registered'
    BY <2>1 DEF IInv, Names
  <2> QED
    BY <2>1, <2>3, <2>4, QueueKeeps DEF table
<1> QED
  BY <1>1, StoredLemma

LEMMA ExpireCertificateKeeps ==
    ASSUME IInv, NEW i \in Active, ExpireCertificate(i)
    PROVE  IInv'
<1>1. /\ overdue' = overdue \cup {i}
      /\ UNCHANGED <<known, coordinators, rows, resets, certs, revocations, missed,
                     registered, revoked, waiting, delayed, failed, worker, req>>
  BY DEF ExpireCertificate, authority, queue, people
<1>2. i \in 1..Len(certs)
  BY DEF Active
<1>3. TypeOK'
  BY <1>1, <1>2 DEF IInv, TypeOK
<1>4. Names' /\ Jobs' /\ Working'
  BY <1>1, NamesKept, WorkingKept DEF IInv, Jobs, JobOK, authority
<1>5. Evolves
  BY <1>1, StillEvolves
<1>6. ASSUME NEW a \in Approvals PROVE RowOK(a)' /\ Recorded(a)'
  BY <1>1, <1>5, RowKept DEF IInv, Recorded, Revokes, Certs
<1>7. \A q \in Requests : HandlerOK(req[q])'
  BY <1>1, <1>5, OtherHandlersKept
<1>8. Agreed'
  BY <1>1 DEF IInv, Agreed, Marking, Certs
<1> QED
  BY <1>3, <1>4, <1>6, <1>7, <1>8 DEF IInv

-----------------------------------------------------------------------------
(* Steps of a handler that read the table and leave it alone.              *)

LEMMA RequestLemma ==
    ASSUME IInv, NEW r \in Requests, NEW h, req' = [req EXCEPT ![r] = h]
    PROVE  req'[r] = h /\ \A q \in Requests : q # r => req'[q] = req[q]
BY DEF IInv, TypeOK

LEMMA HandlerActs ==
    ASSUME IInv, TypeOK', Jobs', NEW r \in Requests, NEW h \in Handler,
           req' = [req EXCEPT ![r] = h],
           UNCHANGED <<known, coordinators, table, missed, authority, worker>>,
           HandlerOK(h), req[r].pc # "revoke.store",
           Revokes(req[r]) => \/ Revokes(h) /\ h.approval = req[r].approval
                              \/ ActiveByApproval(req[r].approval) = {},
           \A a \in Approvals : RowOK(a)',
           \A a \in Approvals : rows'[a] = "recorded" =>
              rows[a] = "recorded" \/ (Revokes(h) /\ h.approval = a)
    PROVE  IInv'
<1>1. UNCHANGED <<certs, overdue, revocations, registered, revoked, missed>> /\ Certs' = Certs
  BY DEF table, authority, Certs
<1>2. Evolves
  BY <1>1, StillEvolves
<1>3. Names' /\ Working'
  BY <1>1, NamesKept, WorkingKept DEF IInv, authority
<1>4. \A q \in Requests : HandlerOK(req[q])'
  BY <1>2, HandlerKept, HandlersKept
<1>5. req'[r] = h /\ \A q \in Requests : q # r => req'[q] = req[q]
  BY RequestLemma
<1>6. Agreed'
  BY <1>1, <1>5 DEF IInv, Agreed, Marking
<1>7. ASSUME NEW a \in Approvals PROVE Recorded(a)'
  <2> SUFFICES ASSUME rows'[a] = "recorded", a \notin missed PROVE Recorded(a)'
    BY <1>1 DEF Recorded
  <2>1. CASE Revokes(h) /\ h.approval = a
    BY <1>5, <2>1 DEF Recorded, Revokes
  <2>2. CASE rows[a] = "recorded" /\ ~(Revokes(h) /\ h.approval = a)
    <3>1. CASE \E q \in Requests : q # r /\ req[q].approval = a /\ Revokes(req[q])
      BY <1>5, <3>1 DEF Recorded, Revokes
    <3>2. CASE req[r].approval = a /\ Revokes(req[r])
      <4>1. ActiveByApproval(a) = {}
        BY <2>2, <3>2
      <4> QED
        BY <1>1, <4>1 DEF Recorded, ActiveByApproval, Active, Certs
    <3>3. CASE \A i \in Certs : certs[i].approval = a => certs[i].status # "ACTIVE"
      BY <1>1, <3>3 DEF Recorded
    <3> QED
      BY <2>2, <3>1, <3>2, <3>3 DEF IInv, Recorded
  <2> QED
    BY <2>1, <2>2
<1> QED
  BY <1>3, <1>4, <1>6, <1>7 DEF IInv

\* A step that changes neither rows nor jobs nor counts.
LEMMA HandlerMoves ==
    ASSUME IInv, NEW r \in Requests, NEW h \in Handler, req' = [req EXCEPT ![r] = h],
           UNCHANGED <<people, table, missed, authority, queue, worker>>,
           HandlerOK(h), req[r].pc # "revoke.store",
           Revokes(req[r]) => \/ Revokes(h) /\ h.approval = req[r].approval
                              \/ ActiveByApproval(req[r].approval) = {}
    PROVE  IInv'
<1>1. UNCHANGED <<known, coordinators, rows, resets, certs, overdue, revocations, missed,
                  registered, revoked, waiting, delayed, failed, worker>>
  BY DEF people, table, authority, queue
<1>2. TypeOK'
  BY <1>1 DEF IInv, TypeOK
<1>3. Jobs'
  BY <1>1 DEF IInv, Jobs, JobOK
<1>4. \A a \in Approvals : RowOK(a)'
  BY <1>1, RowKept, StillEvolves DEF IInv
<1> QED
  BY <1>1, <1>2, <1>3, <1>4, HandlerActs DEF table, authority

LEMMA SignBeginKeeps ==
    ASSUME IInv, NEW r \in Requests, NEW a \in Approvals, SignBegin(r, a)
    PROVE  IInv'
<1> DEFINE h == [Idle EXCEPT !.pc = "sign.find", !.approval = a]
<1>1. /\ rows[a] = "PENDING" /\ req[r].pc = "idle" /\ req' = [req EXCEPT ![r] = h]
      /\ UNCHANGED <<people, table, missed, authority, queue, worker>>
  BY DEF SignBegin, Begin, Become
<1>2. h \in Handler /\ h.pc = "sign.find" /\ h.approval = a
  BY DEF Idle, Handler
<1> HIDE DEF h
<1>3. HandlerOK(h)
  BY <1>1, <1>2 DEF IInv, RowOK, HandlerOK
<1>4. ~Revokes(req[r])
  BY <1>1 DEF Revokes
<1> QED
  BY <1>1, <1>2, <1>3, <1>4, HandlerMoves

LEMMA SignFindKeeps == ASSUME IInv, NEW r \in Requests, SignFind(r) PROVE IInv'
<1> DEFINE g(i) == [req[r] EXCEPT !.cert = i,
                                  !.pc = IF i \in overdue THEN "expire" ELSE "sign.save"]
           found == ActiveByApproval(req[r].approval)
<1>1. /\ req[r].pc = "sign.find"
      /\ UNCHANGED <<people, table, missed, authority, queue, worker>>
      /\ \/ found = {} /\ req' = [req EXCEPT ![r] = Idle]
         \/ \E i \in found : req' = [req EXCEPT ![r] = g(i)]
  BY DEF SignFind, Become
<1>2. req[r] \in Handler /\ HandlerOK(req[r]) /\ ~Revokes(req[r])
  BY <1>1 DEF IInv, TypeOK, Revokes
<1>3. CASE req' = [req EXCEPT ![r] = Idle]
  BY <1>1, <1>2, <1>3, IdleLemma, IdleOK, HandlerMoves
<1>4. CASE \E i \in found : req' = [req EXCEPT ![r] = g(i)]
  <2>1. PICK i \in found : req' = [req EXCEPT ![r] = g(i)]
    BY <1>4
  <2>2. i \in Certs /\ i \in Nat /\ certs[i].approval = req[r].approval
    BY DEF ActiveByApproval, Active, Certs
  <2>3. g(i) \in Handler /\ g(i).pc \in {"expire", "sign.save"}
        /\ g(i).approval = req[r].approval /\ g(i).cert = i
    BY <1>2, <2>2 DEF Handler
  <2> HIDE DEF g
  <2>4. HandlerOK(g(i))
    BY <1>1, <1>2, <2>2, <2>3 DEF HandlerOK, Has
  <2> QED
    BY <1>1, <1>2, <2>1, <2>3, <2>4, HandlerMoves
<1> QED
  BY <1>1, <1>3, <1>4

LEMMA CoordinatorFindsOverdueKeeps ==
    ASSUME IInv, NEW r \in Requests, NEW u \in Users, CoordinatorFindsOverdue(r, u)
    PROVE  IInv'
<1> DEFINE g(i) == [Idle EXCEPT !.pc = "expire", !.cert = i]
<1>1. PICK i \in ActiveByUser(u) : req[r].pc = "idle" /\ req' = [req EXCEPT ![r] = g(i)]
  BY DEF CoordinatorFindsOverdue, Become
<1>2. UNCHANGED <<people, table, missed, authority, queue, worker>>
  BY DEF CoordinatorFindsOverdue
<1>3. i \in Certs /\ i \in Nat
  BY DEF ActiveByUser, Active, Certs
<1>4. g(i) \in Handler /\ g(i).pc = "expire" /\ g(i).cert = i
  BY <1>3 DEF Idle, Handler
<1> HIDE DEF g
<1>5. HandlerOK(g(i)) /\ ~Revokes(req[r])
  BY <1>1, <1>3, <1>4 DEF HandlerOK, Revokes
<1> QED
  BY <1>1, <1>2, <1>4, <1>5, HandlerMoves

LEMMA RevokeFindKeeps == ASSUME IInv, NEW r \in Requests, RevokeFind(r) PROVE IInv'
<1> DEFINE d == [req[r] EXCEPT !.pc = req[r].then]
           g(i) == [req[r] EXCEPT !.pc = "revoke.ca", !.cert = i]
           found == ActiveByApproval(req[r].approval)
<1>1. /\ req[r].pc = "revoke.find"
      /\ UNCHANGED <<people, table, missed, authority, queue, worker>>
      /\ \/ found = {} /\ req' = [req EXCEPT ![r] = d]
         \/ \E i \in found : req' = [req EXCEPT ![r] = g(i)]
  BY DEF RevokeFind, Become, ToRevoke
<1>2. req[r] \in Handler /\ HandlerOK(req[r])
  BY DEF IInv, TypeOK
<1>3. CASE found = {} /\ req' = [req EXCEPT ![r] = d]
  <2>1. d \in Handler /\ d.pc \in {"idle", "reset.enqueue"} /\ d.approval = req[r].approval
    BY <1>2 DEF Handler
  <2> HIDE DEF d
  <2>2. HandlerOK(d)
    BY <1>1, <1>2, <2>1 DEF HandlerOK
  <2> QED
    BY <1>1, <1>3, <2>1, <2>2, HandlerMoves
<1>4. CASE \E i \in found : req' = [req EXCEPT ![r] = g(i)]
  <2>1. PICK i \in found : req' = [req EXCEPT ![r] = g(i)]
    BY <1>4
  <2>2. i \in Certs /\ i \in Nat /\ certs[i].approval = req[r].approval
    BY DEF ActiveByApproval, Active, Certs
  <2>3. g(i) \in Handler /\ g(i).pc = "revoke.ca"
        /\ g(i).approval = req[r].approval /\ g(i).cert = i
    BY <1>2, <2>2 DEF Handler
  <2> HIDE DEF g
  <2>4. HandlerOK(g(i)) /\ Revokes(g(i))
    BY <1>1, <1>2, <2>2, <2>3 DEF HandlerOK, Revokes
  <2> QED
    BY <1>1, <2>1, <2>3, <2>4, HandlerMoves
<1> QED
  BY <1>1, <1>3, <1>4

-----------------------------------------------------------------------------
(* Steps of a handler that write the row or queue a job.                   *)

LEMMA RecordBeginKeeps ==
    ASSUME IInv, NEW r \in Requests, NEW a \in Approvals, RecordBegin(r, a)
    PROVE  IInv'
<1> DEFINE h == [Idle EXCEPT !.pc = "revoke.find", !.approval = a]
<1>1. /\ rows[a] = "APPROVED" /\ rows' = [rows EXCEPT ![a] = "recorded"]
      /\ req[r].pc = "idle" /\ req' = [req EXCEPT ![r] = h]
      /\ UNCHANGED <<known, coordinators, resets, certs, overdue, revocations, missed,
                     registered, revoked, waiting, delayed, failed, worker>>
  BY DEF RecordBegin, Begin, Become, table, authority, queue
<1>2. h \in Handler /\ h.pc = "revoke.find" /\ h.approval = a
  BY DEF Idle, Handler
<1> HIDE DEF h
<1>3. rows'[a] = "recorded" /\ \A b \in Approvals : b # a => rows'[b] = rows[b]
  BY <1>1, RowsLemma DEF Status
<1>4. TypeOK' /\ Jobs'
  BY <1>1, <1>2 DEF IInv, TypeOK, Jobs, JobOK
<1>5. HandlerOK(h) /\ Revokes(h) /\ ~Revokes(req[r])
  BY <1>1, <1>2 DEF IInv, RowOK, HandlerOK, Revokes
<1>6. ASSUME NEW b \in Approvals PROVE RowOK(b)'
  <2>1. CASE b = a
    BY <1>1, <1>3, <2>1 DEF IInv, RowOK, Has, Certs
  <2>2. CASE b # a
    BY <1>1, <1>3, <2>2, StillEvolves, RowKept DEF IInv
  <2> QED
    BY <2>1, <2>2
<1> QED
  BY <1>1, <1>2, <1>3, <1>4, <1>5, <1>6, HandlerActs DEF table, authority

LEMMA ResetBeginKeeps ==
    ASSUME IInv, NEW r \in Requests, NEW a \in Approvals, ResetBegin(r, a)
    PROVE  IInv'
<1> DEFINE h == [Idle EXCEPT !.pc = "revoke.find", !.approval = a, !.then = "reset.enqueue"]
<1>1. /\ rows[a] \in {"APPROVED", "REJECTED"} /\ resets[a] < MaxResets
      /\ resets' = [resets EXCEPT ![a] = @ + 1]
      /\ req[r].pc = "idle" /\ req' = [req EXCEPT ![r] = h]
      /\ UNCHANGED <<known, coordinators, rows, certs, overdue, revocations, missed,
                     registered, revoked, waiting, delayed, failed, worker>>
  BY DEF ResetBegin, Become, table, authority, queue
<1>2. h \in Handler /\ h.pc = "revoke.find" /\ h.approval = a
  BY DEF Idle, Handler
<1> HIDE DEF h
<1>3. resets' \in [Approvals -> 0..MaxResets]
  BY <1>1 DEF IInv, TypeOK
<1>4. TypeOK' /\ Jobs'
  BY <1>1, <1>2, <1>3 DEF IInv, TypeOK, Jobs, JobOK
<1>5. HandlerOK(h) /\ ~Revokes(req[r])
  BY <1>1, <1>2 DEF IInv, RowOK, HandlerOK, Revokes
<1>6. \A b \in Approvals : RowOK(b)'
  BY <1>1, StillEvolves, RowKept DEF IInv
<1> QED
  BY <1>1, <1>2, <1>4, <1>5, <1>6, HandlerActs DEF table, authority

LEMMA SignSaveKeeps == ASSUME IInv, NEW r \in Requests, SignSave(r) PROVE IInv'
<1> DEFINE a == req[r].approval
<1>1. /\ req[r].pc = "sign.save" /\ req' = [req EXCEPT ![r] = Idle]
      /\ rows' = [rows EXCEPT ![a] = "APPROVED"]
      /\ UNCHANGED <<known, coordinators, resets, certs, overdue, revocations, missed,
                     registered, revoked, waiting, delayed, failed, worker>>
  BY DEF SignSave, Become, table, authority, queue
<1>2. a \in Approvals /\ Owner[a] \in known /\ Has(a) /\ ~Revokes(req[r])
  BY <1>1 DEF IInv, HandlerOK, Revokes
<1>3. rows'[a] = "APPROVED" /\ \A b \in Approvals : b # a => rows'[b] = rows[b]
  BY <1>1, <1>2, RowsLemma DEF Status
<1> HIDE DEF a
<1>4. TypeOK' /\ Jobs'
  BY <1>1, <1>2, IdleLemma DEF IInv, TypeOK, Jobs, JobOK
<1>5. ASSUME NEW b \in Approvals PROVE RowOK(b)'
  <2>1. CASE b = a
    BY <1>1, <1>2, <1>3, <2>1 DEF RowOK, Has, Certs
  <2>2. CASE b # a
    BY <1>1, <1>3, <2>2, StillEvolves, RowKept DEF IInv
  <2> QED
    BY <2>1, <2>2
<1> QED
  BY <1>1, <1>2, <1>3, <1>4, <1>5, IdleLemma, IdleOK, HandlerActs DEF table, authority

LEMMA ResetEnqueueKeeps == ASSUME IInv, NEW r \in Requests, ResetEnqueue(r) PROVE IInv'
<1> DEFINE a == req[r].approval
           h == [req[r] EXCEPT !.pc = "reset.save"]
<1>1. /\ req[r].pc = "reset.enqueue" /\ req' = [req EXCEPT ![r] = h]
      /\ Enqueue(Owner[a], a, resets[a] + 1)
      /\ UNCHANGED <<known, coordinators, rows, resets, certs, overdue, revocations, missed,
                     registered, revoked, delayed, failed, worker>>
  BY DEF ResetEnqueue, Become, table, authority, people
<1>2. a \in Approvals /\ Owner[a] \in known /\ ~Revokes(req[r]) /\ req[r] \in Handler
  BY <1>1 DEF IInv, TypeOK, HandlerOK, Revokes
<1>3. h \in Handler /\ h.pc = "reset.save" /\ h.approval = a
  BY <1>2 DEF Handler
<1>4. resets[a] + 1 \in 1..(MaxResets + 1) /\ Owner[a] \in Users
  BY <1>2 DEF IInv, TypeOK
<1> HIDE DEF a, h
<1>5. waiting' \in Seq(Job) /\ \A k \in 1..Len(waiting') : waiting'[k].user \in known'
  BY <1>1, <1>2, <1>4, EnqueueLemma
<1>6. TypeOK' /\ Jobs'
  BY <1>1, <1>3, <1>5 DEF IInv, TypeOK, Jobs, JobOK
<1>7. HandlerOK(h)
  BY <1>2, <1>3 DEF HandlerOK
<1>8. \A b \in Approvals : RowOK(b)'
  BY <1>1, StillEvolves, RowKept DEF IInv
<1> QED
  BY <1>1, <1>2, <1>3, <1>6, <1>7, <1>8, HandlerActs DEF table, authority

LEMMA ResetSaveKeeps == ASSUME IInv, NEW r \in Requests, ResetSave(r) PROVE IInv'
<1> DEFINE a == req[r].approval
<1>1. /\ req[r].pc = "reset.save" /\ req' = [req EXCEPT ![r] = Idle]
      /\ rows' = [rows EXCEPT ![a] = "PENDING"]
      /\ UNCHANGED <<known, coordinators, resets, certs, overdue, revocations, missed,
                     registered, revoked, waiting, delayed, failed, worker>>
  BY DEF ResetSave, Become, table, authority, queue
<1>2. a \in Approvals /\ Owner[a] \in known /\ ~Revokes(req[r])
  BY <1>1 DEF IInv, HandlerOK, Revokes
<1>3. rows'[a] = "PENDING" /\ \A b \in Approvals : b # a => rows'[b] = rows[b]
  BY <1>1, <1>2, RowsLemma DEF Status
<1> HIDE DEF a
<1>4. TypeOK' /\ Jobs'
  BY <1>1, <1>2, IdleLemma DEF IInv, TypeOK, Jobs, JobOK
<1>5. ASSUME NEW b \in Approvals PROVE RowOK(b)'
  <2>1. CASE b = a
    BY <1>1, <1>2, <1>3, <2>1 DEF RowOK
  <2>2. CASE b # a
    BY <1>1, <1>3, <2>2, StillEvolves, RowKept DEF IInv
  <2> QED
    BY <2>1, <2>2
<1> QED
  BY <1>1, <1>2, <1>3, <1>4, <1>5, IdleLemma, IdleOK, HandlerActs DEF table, authority

-----------------------------------------------------------------------------
(* Steps that mark a certificate, revoke its identity, or are cut short.   *)

LEMMA ReplacedLemma ==
    ASSUME NEW S, NEW s \in Seq(S), NEW i \in 1..Len(s), NEW x \in S, NEW t,
           t = [s EXCEPT ![i] = x]
    PROVE  /\ t \in Seq(S) /\ Len(t) = Len(s)
           /\ \A k \in 1..Len(s) : t[k] = IF k = i THEN x ELSE s[k]
OBVIOUS

\* A certificate of the table gets another status, and no other is touched.
LEMMA MarkLemma ==
    ASSUME IInv, NEW c \in Certs, NEW s \in {"REVOKED", "EXPIRED"},
           certs' = [certs EXCEPT ![c] = [certs[c] EXCEPT !.status = s]]
    PROVE  /\ certs' \in Seq(Certificate) /\ Certs' = Certs
           /\ \A i \in Certs : /\ certs'[i].name = certs[i].name
                               /\ certs'[i].approval = certs[i].approval
                               /\ certs'[i].status = IF i = c THEN s ELSE certs[i].status
<1> DEFINE x == [certs[c] EXCEPT !.status = s]
<1>1. certs \in Seq(Certificate) /\ certs[c] \in Certificate /\ c \in 1..Len(certs)
  BY CertLemma DEF IInv, TypeOK, Certs
<1>2. x \in Certificate /\ x.name = certs[c].name /\ x.approval = certs[c].approval
      /\ x.status = s
  BY <1>1 DEF Certificate
<1> HIDE DEF x
<1>3. certs' = [certs EXCEPT ![c] = x]
  BY DEF x
<1>4. /\ certs' \in Seq(Certificate) /\ Len(certs') = Len(certs)
      /\ \A i \in 1..Len(certs) : certs'[i] = IF i = c THEN x ELSE certs[i]
  <2>1. certs \in Seq(Certificate) /\ c \in 1..Len(certs) /\ x \in Certificate
    BY <1>1, <1>2
  <2> QED
    BY ONLY <1>3, <2>1, ReplacedLemma
<1> QED
  BY <1>2, <1>4 DEF Certs

LEMMA MarkExpiredKeeps == ASSUME IInv, NEW r \in Requests, MarkExpired(r) PROVE IInv'
<1> DEFINE c == req[r].cert
<1>1. /\ req[r].pc = "expire" /\ req' = [req EXCEPT ![r] = Idle]
      /\ certs' = [certs EXCEPT ![c] = [certs[c] EXCEPT !.status = "EXPIRED"]]
      /\ UNCHANGED <<known, coordinators, rows, resets, overdue, revocations, missed,
                     registered, revoked, waiting, delayed, failed, worker>>
  BY DEF MarkExpired, MarkedExpired, Become, people, authority, queue
<1>2. c \in Certs /\ ~Revokes(req[r])
  BY <1>1 DEF IInv, HandlerOK, Revokes
<1>3. /\ certs' \in Seq(Certificate) /\ Certs' = Certs
      /\ \A i \in Certs : /\ certs'[i].name = certs[i].name
                          /\ certs'[i].approval = certs[i].approval
                          /\ certs'[i].status = IF i = c THEN "EXPIRED" ELSE certs[i].status
  BY <1>1, <1>2, MarkLemma
<1> HIDE DEF c
<1>4. Evolves
  BY <1>1, <1>3 DEF Evolves
<1>5. req'[r] = Idle /\ \A q \in Requests : q # r => req'[q] = req[q]
  BY <1>1, RequestLemma
<1>6. TypeOK'
  BY <1>1, <1>3, IdleLemma DEF IInv, TypeOK, Certs
<1>7. Names'
  BY <1>1, <1>3 DEF IInv, Names, OneNameEach, Certs
<1>8. Jobs' /\ Working'
  BY <1>1, <1>3 DEF IInv, Jobs, JobOK, Working, Fresh, EnrolledName, BaseName, Org
<1>9. ASSUME NEW a \in Approvals PROVE RowOK(a)' /\ Recorded(a)'
  <2>1. RowOK(a)'
    BY <1>1, <1>4, RowKept DEF IInv
  <2>2. Recorded(a)'
    BY <1>1, <1>2, <1>3, <1>5 DEF IInv, Recorded, Revokes
  <2> QED
    BY <2>1, <2>2
<1>10. \A q \in Requests : HandlerOK(req[q])'
  BY <1>1, <1>4, IdleLemma, IdleOK, HandlerKept, HandlersKept
<1>11. Agreed'
  BY <1>1, <1>3, <1>5 DEF IInv, Agreed, Marking
<1> QED
  BY <1>6, <1>7, <1>8, <1>9, <1>10, <1>11 DEF IInv

LEMMA RevokeStoreKeeps == ASSUME IInv, NEW r \in Requests, RevokeStore(r) PROVE IInv'
<1> DEFINE c == req[r].cert
           h == [req[r] EXCEPT !.pc = req[r].then]
<1>1. /\ req[r].pc = "revoke.store" /\ req' = [req EXCEPT ![r] = h]
      /\ \/ c \in revocations /\ UNCHANGED <<certs, revocations>>
         \/ /\ certs' = [certs EXCEPT ![c] = [certs[c] EXCEPT !.status = "REVOKED"]]
            /\ revocations' = revocations \cup {c}
      /\ UNCHANGED <<known, coordinators, rows, resets, overdue, missed,
                     registered, revoked, waiting, delayed, failed, worker>>
  BY DEF RevokeStore, MarkedRevoked, Become, people, authority, queue
<1>2. /\ req[r] \in Handler /\ req[r].approval \in Approvals /\ Owner[req[r].approval] \in known
      /\ c \in Certs /\ certs[c].approval = req[r].approval /\ certs[c].name \in revoked
  BY <1>1 DEF IInv, TypeOK, HandlerOK
<1>3. /\ h \in Handler /\ h.pc \in {"idle", "reset.enqueue"} /\ h.approval = req[r].approval
  BY <1>2 DEF Handler
<1> HIDE DEF c, h
\* Whether the revocation had a row already or has one now, the certificate is
\* not in use any more.
<1>4. /\ certs' \in Seq(Certificate) /\ Certs' = Certs
      /\ \A i \in Certs : /\ certs'[i].name = certs[i].name
                          /\ certs'[i].approval = certs[i].approval
                          /\ i # c => certs'[i].status = certs[i].status
                          /\ i = c => certs'[i].status # "ACTIVE"
                          /\ certs'[i].status = "ACTIVE" => certs[i].status = "ACTIVE"
                          /\ certs'[i].status = "REVOKED" => certs[i].name \in revoked
                          /\ i \in revocations' => certs'[i].status # "ACTIVE"
      /\ revocations' \subseteq Certs
  <2>1. CASE c \in revocations /\ UNCHANGED <<certs, revocations>>
    BY <2>1 DEF IInv, TypeOK, Names, Certs
  <2>2. CASE certs' = [certs EXCEPT ![c] = [certs[c] EXCEPT !.status = "REVOKED"]]
             /\ revocations' = revocations \cup {c}
    <3>1. /\ certs' \in Seq(Certificate) /\ Certs' = Certs
          /\ \A i \in Certs : /\ certs'[i].name = certs[i].name
                              /\ certs'[i].approval = certs[i].approval
                              /\ certs'[i].status = IF i = c THEN "REVOKED" ELSE certs[i].status
      BY <1>2, <2>2, MarkLemma
    <3>2. revocations' \subseteq Certs
      BY <1>2, <2>2 DEF IInv, TypeOK, Certs
    <3> QED
      BY <1>2, <2>2, <3>1, <3>2 DEF IInv, Names
  <2> QED
    BY <1>1, <2>1, <2>2
<1>5. Evolves
  BY <1>1, <1>4 DEF Evolves
<1>6. req'[r] = h /\ \A q \in Requests : q # r => req'[q] = req[q]
  BY <1>1, RequestLemma
<1>7. TypeOK'
  BY <1>1, <1>3, <1>4 DEF IInv, TypeOK, Certs
<1>8. Names'
  <2>1. OneNameEach'
    BY <1>4 DEF IInv, Names, OneNameEach, Certs
  <2> QED
    BY <1>1, <1>4, <2>1 DEF IInv, Names
<1>9. Jobs' /\ Working'
  BY <1>1, <1>4 DEF IInv, Jobs, JobOK, Working, Fresh, EnrolledName, BaseName, Org
<1>10. ASSUME NEW a \in Approvals PROVE RowOK(a)' /\ Recorded(a)'
  <2>1. RowOK(a)'
    BY <1>1, <1>5, RowKept DEF IInv
  <2>2. CASE a = req[r].approval
    BY <1>2, <1>4, <2>1, <2>2 DEF IInv, Names, Recorded
  <2>3. CASE a # req[r].approval
    BY <1>1, <1>4, <1>6, <2>1, <2>3 DEF IInv, Recorded, Revokes
  <2> QED
    BY <2>1, <2>2, <2>3
<1>11. \A q \in Requests : HandlerOK(req[q])'
  <2>1. HandlerOK(h)
    BY <1>2, <1>3 DEF HandlerOK
  <2> QED
    BY <1>1, <1>3, <1>5, <2>1, HandlerKept, HandlersKept
<1>12. Agreed'
  BY <1>1, <1>4, <1>6 DEF IInv, Agreed, Marking, c
<1> QED
  BY <1>7, <1>8, <1>9, <1>10, <1>11, <1>12 DEF IInv

\* The CA has revoked the identity of the certificate a handler found, or may
\* have: its approval's, and of that certificate only.
LEMMA RevokedLemma ==
    ASSUME IInv, NEW r \in Requests, req[r].pc = "revoke.ca",
           UNCHANGED <<people, table, registered, queue, worker>>,
           revoked' \in {revoked, RevokedAtCA(req[r].cert)}
    PROVE  /\ Names' /\ Jobs' /\ Working'
           /\ req[r] \in Handler /\ HandlerOK(req[r])
           /\ \A i \in Certs : certs[i].name \in revoked' =>
                 certs[i].name \in revoked \/ i = req[r].cert
           /\ Certs' = Certs /\ revoked \subseteq revoked' /\ revoked' \subseteq registered
<1>1. UNCHANGED <<known, coordinators, rows, resets, certs, overdue, revocations,
                  registered, waiting, delayed, failed, worker>>
  BY DEF people, table, queue
<1>2. /\ req[r] \in Handler /\ HandlerOK(req[r]) /\ req[r].approval \in Approvals
      /\ req[r].cert \in Certs /\ certs[req[r].cert].approval = req[r].approval
  BY DEF IInv, TypeOK, HandlerOK
<1>3. revoked' = revoked \/ revoked' = revoked \cup {certs[req[r].cert].name}
  BY DEF RevokedAtCA
<1>4. revoked \subseteq revoked' /\ revoked' \subseteq registered
  BY <1>2, <1>3 DEF IInv, Names, TypeOK
<1>5. \A m \in revoked' : \E i \in Certs : certs[i].name = m /\ certs[i].approval # NoApproval
  BY <1>2, <1>3 DEF IInv, Names
<1>6. Names'
  BY <1>1, <1>4, <1>5 DEF IInv, Names, OneNameEach, Certs
<1>7. Jobs' /\ Working'
  BY <1>1, WorkingKept DEF IInv, Jobs, JobOK
<1>8. \A i \in Certs : certs[i].name \in revoked' => certs[i].name \in revoked \/ i = req[r].cert
  BY <1>2, <1>3 DEF IInv, Names, OneNameEach, Certs
<1> QED
  BY <1>1, <1>2, <1>4, <1>6, <1>7, <1>8 DEF Certs

LEMMA RevokeAtCAKeeps == ASSUME IInv, NEW r \in Requests, RevokeAtCA(r) PROVE IInv'
<1> DEFINE h == [req[r] EXCEPT !.pc = "revoke.store"]
<1>1. /\ req[r].pc = "revoke.ca" /\ req' = [req EXCEPT ![r] = h]
      /\ revoked' = revoked \cup {certs[req[r].cert].name}
      /\ UNCHANGED <<people, table, missed, registered, queue, worker>>
  BY DEF RevokeAtCA, RevokedAtCA, Become
<1>2. UNCHANGED <<known, coordinators, rows, resets, certs, overdue, revocations,
                  registered, waiting, delayed, failed, worker>>
  BY <1>1 DEF people, table, queue
<1>3. /\ Names' /\ Jobs' /\ Working'
      /\ req[r] \in Handler /\ HandlerOK(req[r])
      /\ \A i \in Certs : certs[i].name \in revoked' =>
            certs[i].name \in revoked \/ i = req[r].cert
      /\ Certs' = Certs /\ revoked \subseteq revoked' /\ revoked' \subseteq registered
  BY <1>1, RevokedLemma DEF RevokedAtCA
<1>4. /\ h \in Handler /\ h.pc = "revoke.store" /\ h.approval = req[r].approval
      /\ h.cert = req[r].cert
  BY <1>3 DEF Handler
<1> HIDE DEF h
<1>5. req'[r] = h /\ \A q \in Requests : q # r => req'[q] = req[q]
  BY <1>1, RequestLemma
<1>6. Evolves
  BY <1>1, <1>2, <1>3, StillEvolves
<1>7. TypeOK'
  BY <1>1, <1>2, <1>3, <1>4 DEF IInv, TypeOK
<1>8. ASSUME NEW a \in Approvals PROVE RowOK(a)' /\ Recorded(a)'
  <2>1. RowOK(a)'
    BY <1>2, <1>6, RowKept DEF IInv
  <2>2. Recorded(a)'
    BY <1>1, <1>2, <1>3, <1>4, <1>5 DEF IInv, Recorded, Revokes
  <2> QED
    BY <2>1, <2>2
<1>9. \A q \in Requests : HandlerOK(req[q])'
  <2>1. PICK k \in Handler : k = h
    BY <1>4
  <2>2. certs[k.cert].name \in revoked'
    BY <1>1, <1>4, <2>1
  <2>3. HandlerOK(k)'
    BY <1>1, <1>2, <1>3, <1>4, <2>1, <2>2 DEF HandlerOK
  <2> QED
    BY <1>1, <1>6, <2>1, <2>3, HandlersKept
<1>10. Agreed'
  BY <1>1, <1>2, <1>3, <1>4, <1>5 DEF IInv, Agreed, Marking
<1> QED
  BY <1>3, <1>7, <1>8, <1>9, <1>10 DEF IInv

LEMMA RevokeFailsKeeps == ASSUME IInv, NEW r \in Requests, RevokeFails(r) PROVE IInv'
<1> DEFINE h == [req[r] EXCEPT !.pc = req[r].then]
<1>1. /\ req[r].pc = "revoke.ca" /\ req' = [req EXCEPT ![r] = h]
      /\ revoked' \in {revoked, RevokedAtCA(req[r].cert)}
      /\ missed' = missed \cup {req[r].approval}
      /\ UNCHANGED <<people, table, registered, queue, worker>>
  BY DEF RevokeFails, Become
<1>2. UNCHANGED <<known, coordinators, rows, resets, certs, overdue, revocations,
                  registered, waiting, delayed, failed, worker>>
  BY <1>1 DEF people, table, queue
<1>3. /\ Names' /\ Jobs' /\ Working'
      /\ req[r] \in Handler /\ HandlerOK(req[r])
      /\ \A i \in Certs : certs[i].name \in revoked' =>
            certs[i].name \in revoked \/ i = req[r].cert
      /\ Certs' = Certs /\ revoked \subseteq revoked' /\ revoked' \subseteq registered
  BY <1>1, RevokedLemma
<1>4. /\ req[r].approval \in Approvals /\ Owner[req[r].approval] \in known
      /\ certs[req[r].cert].approval = req[r].approval
  BY <1>1, <1>3 DEF HandlerOK
<1>5. /\ h \in Handler /\ h.pc \in {"idle", "reset.enqueue"} /\ h.approval = req[r].approval
  BY <1>3 DEF Handler
<1> HIDE DEF h
<1>6. req'[r] = h /\ \A q \in Requests : q # r => req'[q] = req[q]
  BY <1>1, RequestLemma
<1>7. Evolves
  BY <1>1, <1>2, <1>3, StillEvolves
<1>8. TypeOK'
  BY <1>1, <1>2, <1>3, <1>4, <1>5 DEF IInv, TypeOK
<1>9. ASSUME NEW a \in Approvals PROVE RowOK(a)' /\ Recorded(a)'
  <2>1. RowOK(a)'
    BY <1>2, <1>7, RowKept DEF IInv
  <2>2. Recorded(a)'
    BY <1>1, <1>2, <1>3, <1>6 DEF IInv, Recorded, Revokes
  <2> QED
    BY <2>1, <2>2
<1>10. \A q \in Requests : HandlerOK(req[q])'
  <2>1. HandlerOK(h)
    BY <1>4, <1>5 DEF HandlerOK
  <2> QED
    BY <1>1, <1>5, <1>7, <2>1, HandlerKept, HandlersKept
<1>11. Agreed'
  BY <1>1, <1>2, <1>3, <1>4, <1>6 DEF IInv, Agreed, Marking
<1> QED
  BY <1>3, <1>8, <1>9, <1>10, <1>11 DEF IInv

\* The handlers are gone; a revocation that was under way is one cut short.
LEMMA RestartKeeps == ASSUME IInv, Restart PROVE IInv'
<1> DEFINE cut == {req[r].approval : r \in {q \in Requests : Revokes(req[q])}}
           again == [worker.job EXCEPT !.stalled = TRUE]
<1>1. /\ req' = [r \in Requests |-> Idle] /\ missed' = missed \cup cut /\ worker' = NoWorker
      /\ \/ waiting' = waiting /\ failed' = failed
         \/ /\ worker # NoWorker /\ waiting' = waiting
            /\ failed' = failed \cup {Subject(worker.job)}
         \/ worker # NoWorker /\ waiting' = <<again>> \o waiting /\ failed' = failed
      /\ UNCHANGED <<known, coordinators, rows, resets, certs, overdue, revocations,
                     registered, revoked, delayed>>
  BY DEF Restart, people, table, authority, queue
<1>2. \A r \in Requests : req'[r] = Idle
  BY <1>1
<1>3. \A r \in Requests : Revokes(req[r]) => req[r].approval \in Approvals /\ req[r].approval \in cut
  BY DEF IInv, HandlerOK, Revokes
<1>4. cut \subseteq Approvals
  BY <1>3
<1> HIDE DEF cut
<1>5. waiting \in Seq(Job) /\ \A k \in 1..Len(waiting) : waiting[k].user \in known
  BY DEF IInv, TypeOK, Jobs, JobOK
<1>6. worker # NoWorker =>
        /\ again \in Job /\ again.user \in known
        /\ Subject(worker.job) \in Users \X (Approvals \cup {NoApproval})
  BY WorkerLemma DEF IInv, TypeOK, Jobs, JobOK, Job, Subject
<1> HIDE DEF again
<1>7. waiting' \in Seq(Job) /\ \A k \in 1..Len(waiting') : waiting'[k].user \in known
  <2>1. CASE waiting' = waiting
    BY <1>5, <2>1
  <2>2. CASE worker # NoWorker /\ waiting' = <<again>> \o waiting
    BY <1>5, <1>6, <2>2, ConcatProperties
  <2> QED
    BY <1>1, <2>1, <2>2
<1>8. failed' \subseteq Users \X (Approvals \cup {NoApproval})
  BY <1>1, <1>6 DEF IInv, TypeOK
<1>9. TypeOK'
  BY <1>1, <1>4, <1>7, <1>8, IdleLemma DEF IInv, TypeOK
<1>10. Names'
  BY <1>1, NamesKept DEF IInv, authority
<1>11. Jobs' /\ Working'
  BY <1>1, <1>7, IdleLemma DEF IInv, Jobs, JobOK, Working
<1>12. ASSUME NEW a \in Approvals PROVE RowOK(a)' /\ Recorded(a)'
  <2>1. RowOK(a)'
    BY <1>1, StillEvolves, RowKept DEF IInv
  <2>2. Recorded(a)'
    BY <1>1, <1>3 DEF IInv, Recorded, Certs
  <2> QED
    BY <2>1, <2>2
<1>13. \A q \in Requests : HandlerOK(req[q])'
  BY <1>2, IdleLemma DEF HandlerOK
<1>14. Agreed'
  <2> SUFFICES ASSUME NEW i \in Certs, certs[i].name \in revoked, certs[i].status = "ACTIVE"
               PROVE  certs[i].approval \in missed'
    BY <1>1 DEF Agreed, Certs
  <2>1. CASE Marking(i)
    <3>1. PICK r \in Requests : req[r].pc = "revoke.store" /\ req[r].cert = i
      BY <2>1 DEF Marking
    <3>2. Revokes(req[r]) /\ certs[i].approval = req[r].approval
      BY <3>1 DEF IInv, HandlerOK, Revokes
    <3> QED
      BY <1>1, <1>3, <3>2
  <2> QED
    BY <1>1, <2>1 DEF IInv, Agreed
<1> QED
  BY <1>9, <1>10, <1>11, <1>12, <1>13, <1>14 DEF IInv

LEMMA StutterKeeps == IInv /\ UNCHANGED vars => IInv'
<1> SUFFICES ASSUME IInv, UNCHANGED vars PROVE IInv'
  OBVIOUS
<1>1. UNCHANGED <<known, coordinators, rows, resets, certs, overdue, revocations, missed,
                  registered, revoked, waiting, delayed, failed, worker, req>>
  BY DEF vars, people, table, authority, queue
<1>2. TypeOK' /\ Jobs' /\ Working'
  BY <1>1, WorkingKept DEF IInv, TypeOK, Jobs, JobOK
<1>3. IsFiniteSet(registered')
  BY <1>1 DEF IInv, Names
<1> QED
  BY <1>1, <1>2, <1>3, QueueKeeps DEF table

-----------------------------------------------------------------------------
(* The theorems.                                                           *)

LEMMA NextKeeps == IInv /\ [Next]_vars => IInv'
<1> SUFFICES ASSUME IInv, [Next]_vars PROVE IInv'
  OBVIOUS
<1>1. CASE \E u \in Users, role \in {"COORDINATOR", "ADVISOR"} : CreateUser(u, role)
  BY <1>1, CreateUserKeeps
<1>2. CASE \E a \in Approvals : CreateApproval(a) \/ Reject(a)
  BY <1>2, CreateApprovalKeeps, RejectKeeps
<1>3. CASE \E i \in Active : ExpireCertificate(i)
  BY <1>3, ExpireCertificateKeeps
<1>4. CASE Process
  BY <1>4, TakeJobKeeps, RegisterNameKeeps, EnrollNameKeeps, StoreCertificateKeeps,
     CAFailsKeeps, DueKeeps DEF Process
<1>5. ASSUME NEW r \in Requests, Arrive(r) PROVE IInv'
  BY <1>5, SignBeginKeeps, ResetBeginKeeps, RecordBeginKeeps, CoordinatorFindsOverdueKeeps
     DEF Arrive
<1>6. ASSUME NEW r \in Requests, Handle(r) PROVE IInv'
  BY <1>6, SignFindKeeps, SignSaveKeeps, MarkExpiredKeeps, RevokeFindKeeps, RevokeAtCAKeeps,
     RevokeFailsKeeps, RevokeStoreKeeps, ResetEnqueueKeeps, ResetSaveKeeps DEF Handle
<1>7. CASE Restart
  BY <1>7, RestartKeeps
<1>8. CASE UNCHANGED vars
  BY <1>8, StutterKeeps
<1> QED
  BY <1>1, <1>2, <1>3, <1>4, <1>5, <1>6, <1>7, <1>8 DEF Next

\* The inductive invariant holds of every behaviour of the processor, the
\* handlers and the CA.
THEOREM Inductive == Spec => []IInv
<1>1. Init => IInv
  BY InitHolds
<1>2. IInv /\ [Next]_vars => IInv'
  BY NextKeeps
<1> QED
  BY <1>1, <1>2, PTL DEF Spec

\* The variables of the queue, the table and the CA keep their types.
THEOREM TypeCorrect == Spec => []TypeOK
<1>1. IInv => TypeOK
  BY DEF IInv
<1> QED
  BY <1>1, Inductive, PTL

\* Revoking approvals' certificates, once or again, never reaches the base
\* certificate of the approver, in the table or at the CA.
THEOREM BaseStays == Spec => []BaseCertificatesStay
<1>1. IInv => BaseCertificatesStay
  <2> SUFFICES ASSUME IInv, NEW i \in Certs, certs[i].approval = NoApproval
               PROVE  certs[i].status # "REVOKED" /\ certs[i].name \notin revoked
    BY DEF BaseCertificatesStay, Certs
  <2>1. certs[i].name \notin revoked
    BY DEF IInv, Names, OneNameEach, Certs
  <2> QED
    BY <2>1 DEF IInv, Names
<1> QED
  BY <1>1, Inductive, PTL

\* The certificates table and the CA disagree only in the middle of a revocation
\* or after one that failed.
THEOREM TableAgrees == Spec => []RevocationsAgree
<1>1. IInv => RevocationsAgree
  BY DEF IInv, Names, Agreed, Marking, RevocationsAgree, Certs
<1> QED
  BY <1>1, Inductive, PTL

\* An approval put on the ledger has no certificate in use from the end of its
\* revocation on, unless that failed.
THEOREM RecordedIsClean == Spec => []RecordedHasNoCertificate
<1>1. IInv => RecordedHasNoCertificate
  BY DEF IInv, Recorded, RecordedHasNoCertificate, ActiveByApproval, Active, Certs
<1> QED
  BY <1>1, Inductive, PTL

===============================================================================
