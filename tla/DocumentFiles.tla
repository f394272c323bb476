---------------------------- MODULE DocumentFiles ----------------------------
(***************************************************************************)
(* The files of one defense's document: their upload to IPFS, the queue of *)
(* uploads, the hashes and CIDs that each version names, and what the      *)
(* validation answers about a file.                                        *)
(*                                                                         *)
(* A file stands for its bytes, so it is also its own SHA-256 and its own  *)
(* CID: two rows name one file exactly when they hold one CID.  The rows of*)
(* approvers and the signatures are in DocumentApproval; here a version is *)
(* in "approved" or not, and its registration is two steps.  The ledger's  *)
(* chaincode is external: it finds a record by either of its CIDs.         *)
(* Files that documents of two defenses name are left out.                 *)
(***************************************************************************)
EXTENDS Naturals, FiniteSets

CONSTANTS
    Files, NoFile,
    Requests,        \* request slots: how many handlers may be in flight
    MaxVersions,     \* bound on the versions of the document
    MaxUploads,      \* bound on the requests made
    MaxJobs,         \* bound on the uploads in the queue
    MaxAttempts,     \* attempts of a queued upload (5)
    MaxRestarts,     \* bound on the restarts
    Faults           \* "refuse": IPFS fails; "reply": it pins and its answer is
                     \* lost; "redis": the queue takes no job; "abort": a handler
                     \* ends between two awaits; "restart": the process stops

ASSUME FilesAssumption == NoFile \notin Files
ASSUME BoundsAssumption ==
    /\ MaxVersions \in Nat \ {0} /\ MaxAttempts \in Nat \ {0}
    /\ MaxUploads \in Nat /\ MaxJobs \in Nat /\ MaxRestarts \in Nat
ASSUME FaultsAssumption == Faults \subseteq {"refuse", "reply", "redis", "abort", "restart"}

VARIABLES
    configured,  \* the process was started with its mTLS certificates
    pinned,      \* what IPFS keeps
    jobs,        \* the Bull queue of uploads; one that is done is removed
    docs,        \* documents table: version -> row
    approved,    \* versions all of whose approval rows are APPROVED
    ledger,      \* what registerDocument committed
    req,         \* the handler each slot is running
    asked,       \* requests made so far (only to bound them)
    restarts,    \* restarts so far (only to bound them)
    crossed      \* auxiliary: two handlers were about one version at a time

tables == <<docs, approved, ledger>>
bounds == <<asked, restarts>>
vars == <<configured, pinned, jobs, tables, req, bounds, crossed>>

-----------------------------------------------------------------------------
Types == {"minutes", "evaluation"}
Versions == 1..MaxVersions
Jobs == 1..MaxJobs

\* The hash and the CID a row holds of one file; undefined is NoFile.
Named == [hash : Files \cup {NoFile}, cid : Files \cup {NoFile}]
Names(f) == [hash |-> f, cid |-> f]

DocRow == [status : {"none", "PENDING", "APPROVED", "INACTIVE"},
           tx : BOOLEAN,                     \* blockchainTxId is set
           minutes : Named, evaluation : Named]
NoDoc == [status |-> "none", tx |-> FALSE,
          minutes |-> Names(NoFile), evaluation |-> Names(NoFile)]

NewDocument(m, e) == [status |-> "PENDING", tx |-> FALSE,
                      minutes |-> Names(m), evaluation |-> Names(e)]
WithFile(row, t, f) == [row EXCEPT ![t] = Names(f)]
Inactivated(row) == [row EXCEPT !.status = "INACTIVE"]
Registered(row) == [row EXCEPT !.status = "APPROVED", !.tx = TRUE]
NextVersion(row, t, f) ==
    WithFile([row EXCEPT !.status = "PENDING", !.tx = FALSE], t, f)

Record == [minutes : Files \cup {NoFile}, evaluation : Files \cup {NoFile}]
RecordOf(row) == [minutes |-> row.minutes.cid, evaluation |-> row.evaluation.cid]

Job == [state : {"none", "waiting", "active", "failed"},
        file : Files \cup {NoFile}, made : 0..MaxAttempts, stalled : BOOLEAN]
NoJob == [state |-> "none", file |-> NoFile, made |-> 0, stalled |-> FALSE]
Queued(f) == [NoJob EXCEPT !.state = "waiting", !.file = f]

Handler ==
    [pc : {"idle", "upload", "submit.create", "version.approvals",
           "version.replace", "version.reset", "version.inactivate",
           "version.create", "register.save"},
     then : {"idle", "submit.create", "version.replace", "version.inactivate"},
     doc : Versions,
     type : Types,                           \* the file a new version changes
     file : [Types -> Files \cup {NoFile}],  \* the files of the request
     todo : SUBSET Types,                    \* uploads without an outcome yet
     failed : BOOLEAN,                       \* an upload failed: answered 500
     read : DocRow]                          \* document row read earlier
Idle == [pc |-> "idle", then |-> "idle", doc |-> 1, type |-> "minutes",
         file |-> [t \in Types |-> NoFile], todo |-> {}, failed |-> FALSE,
         read |-> NoDoc]

\* A handler that will write rows of its version by what it read of them.
Submitting(h) ==
    h.pc = "submit.create" \/ (h.pc = "upload" /\ h.then = "submit.create")
Holds(h) == h.pc # "idle" /\ ~Submitting(h)
Meets(r, v) == \E q \in Requests \ {r} : Holds(req[q]) /\ req[q].doc = v

Become(r, h) ==
    /\ req' = [req EXCEPT ![r] = h]
    /\ crossed' = (crossed \/ (Holds(h) /\ Meets(r, h.doc)))

StateOK ==
    /\ configured \in BOOLEAN
    /\ pinned \subseteq Files
    /\ jobs \in [Jobs -> Job]
    /\ docs \in [Versions -> DocRow]
    /\ approved \subseteq Versions
    /\ ledger \subseteq Record
    /\ req \in [Requests -> Handler]
    /\ asked \in 0..MaxUploads
    /\ restarts \in 0..MaxRestarts
TypeOK == StateOK /\ crossed \in BOOLEAN

Init ==
    /\ configured \in BOOLEAN
    /\ pinned = {}
    /\ jobs = [j \in Jobs |-> NoJob]
    /\ docs = [v \in Versions |-> NoDoc]
    /\ approved = {} /\ ledger = {}
    /\ req = [r \in Requests |-> Idle]
    /\ asked = 0 /\ restarts = 0 /\ crossed = FALSE

-----------------------------------------------------------------------------
(* A request arrives: the result of the defense with its two files, or a   *)
(* new version of one of them.                                             *)

Begin(r, h) ==
    /\ req[r].pc = "idle" /\ asked < MaxUploads
    /\ asked' = asked + 1
    /\ Become(r, h)
    /\ UNCHANGED <<configured, pinned, jobs, tables, restarts>>

\* The defense is SCHEDULED until a submission has written its grade, just
\* after the document: later ones are refused.
Submit(r, m, e) ==
    /\ docs[1] = NoDoc
    /\ Begin(r, [Idle EXCEPT !.pc = "upload", !.then = "submit.create",
                             !.file = [t \in Types |-> IF t = "minutes" THEN m ELSE e],
                             !.todo = Types])

ChangeVersion(r, v, t, f) ==
    /\ docs[v] # NoDoc
    /\ Begin(r, [Idle EXCEPT !.pc = "version.approvals", !.doc = v, !.type = t,
                             !.file = [Idle.file EXCEPT ![t] = f], !.read = docs[v]])

\* The approvals are read; then the hash must differ from the document's.
ReadApprovals(r) ==
    LET h == req[r] IN
    /\ h.pc = "version.approvals"
    /\ Become(r, IF h.file[h.type] = h.read[h.type].hash THEN Idle
                 ELSE [h EXCEPT !.pc = "upload", !.todo = {h.type},
                                !.then = IF h.doc \in approved THEN "version.inactivate"
                                         ELSE "version.replace"])
    /\ UNCHANGED <<configured, pinned, jobs, tables, bounds>>

-----------------------------------------------------------------------------
(* An upload.  The two of a submission run at once and the request is      *)
(* answered at the first failure, but the other runs to its end.           *)

AcceptsQueued(h, t) == [h EXCEPT !.todo = @ \ {t}]               \* a mutant
Refused(h, t) == [h EXCEPT !.todo = @ \ {t}, !.failed = TRUE]

Uploaded(h) ==
    IF h.todo # {} THEN h
    ELSE IF h.failed THEN Idle
    ELSE [h EXCEPT !.pc = h.then, !.then = "idle"]

Upload(r, t) == req[r].pc = "upload" /\ t \in req[r].todo

Pin(r, t) ==
    LET h == req[r] IN
    /\ Upload(r, t) /\ configured
    /\ pinned' = pinned \cup {h.file[t]}
    /\ Become(r, Uploaded([h EXCEPT !.todo = @ \ {t}]))
    /\ UNCHANGED <<configured, jobs, tables, bounds>>

\* An IpfsUploadError: the file is not queued, pinned or not.
PinFails(r, t) ==
    LET h == req[r] IN
    /\ Upload(r, t) /\ configured
    /\ \/ "refuse" \in Faults /\ UNCHANGED pinned
       \/ "reply" \in Faults /\ pinned' = pinned \cup {h.file[t]}
    /\ Become(r, Uploaded(Refused(h, t)))
    /\ UNCHANGED <<configured, jobs, tables, bounds>>

\* An IpfsConnectionError, which only missing certificates raise: the file is
\* queued, and the adapter answers 500 all the same.
QueueUpload(r, t) ==
    LET h == req[r] IN
    /\ Upload(r, t) /\ ~configured
    /\ \/ \E j \in Jobs : /\ jobs[j] = NoJob /\ \A i \in 1..(j - 1) : jobs[i] # NoJob
                          /\ jobs' = [jobs EXCEPT ![j] = Queued(h.file[t])]
       \/ "redis" \in Faults /\ UNCHANGED jobs
    /\ Become(r, Uploaded(Refused(h, t)))
    /\ UNCHANGED <<configured, pinned, tables, bounds>>

-----------------------------------------------------------------------------
(* The rows a request writes after its uploads.                            *)

\* (defenseId, version) is unique: the insert fails when the version is there.
Insert(r, v, row) ==
    /\ docs' = IF docs[v] = NoDoc THEN [docs EXCEPT ![v] = row] ELSE docs
    /\ Become(r, Idle)
    /\ UNCHANGED <<configured, pinned, jobs, approved, ledger, bounds>>

SubmitCreate(r) ==
    /\ req[r].pc = "submit.create"
    /\ Insert(r, 1, NewDocument(req[r].file["minutes"], req[r].file["evaluation"]))

\* An update writes the whole row as the handler read it.
Save(r, row, next) ==
    /\ docs' = [docs EXCEPT ![req[r].doc] = row]
    /\ Become(r, next)
    /\ UNCHANGED <<configured, pinned, jobs, approved, ledger, bounds>>

VersionReplace(r) ==
    LET h == req[r] IN
    /\ h.pc = "version.replace"
    /\ Save(r, WithFile(h.read, h.type, h.file[h.type]),
            [Idle EXCEPT !.pc = "version.reset", !.doc = h.doc])

\* The rows that were APPROVED or REJECTED become PENDING.
VersionReset(r) ==
    /\ req[r].pc = "version.reset"
    /\ approved' = approved \ {req[r].doc}
    /\ Become(r, Idle)
    /\ UNCHANGED <<configured, pinned, jobs, docs, ledger, bounds>>

VersionInactivate(r) ==
    LET h == req[r] IN
    /\ h.pc = "version.inactivate" /\ h.doc < MaxVersions
    /\ Save(r, Inactivated(h.read), [h EXCEPT !.pc = "version.create"])

VersionCreate(r) ==
    LET h == req[r] IN
    /\ h.pc = "version.create"
    /\ Insert(r, h.doc + 1, NextVersion(h.read, h.type, h.file[h.type]))

-----------------------------------------------------------------------------
(* What the approval workflow does to a version.                           *)

Approve(v) ==
    /\ docs[v] # NoDoc /\ v \notin approved
    /\ approved' = approved \cup {v}
    /\ UNCHANGED <<configured, pinned, jobs, docs, ledger, req, bounds, crossed>>

\* The row is read, its CIDs are committed, and the row is written back.  The
\* registration of a version that is INACTIVE began while it was not.
Register(r, v) ==
    /\ req[r].pc = "idle"
    /\ v \in approved /\ ~docs[v].tx
    /\ ledger' = ledger \cup {RecordOf(docs[v])}
    /\ req' = [req EXCEPT ![r] = [Idle EXCEPT !.pc = "register.save", !.doc = v,
                                              !.read = Registered(docs[v])]]
    /\ crossed' = (crossed \/ Meets(r, v) \/ docs[v].status = "INACTIVE")
    /\ UNCHANGED <<configured, pinned, jobs, docs, approved, bounds>>

RegisterSave(r) ==
    /\ req[r].pc = "register.save"
    /\ Save(r, req[r].read, Idle)

Abort(r) ==
    /\ "abort" \in Faults
    /\ req[r].pc \notin {"idle", "upload"}
    /\ Become(r, Idle)
    /\ UNCHANGED <<configured, pinned, jobs, tables, bounds>>

-----------------------------------------------------------------------------
(* The queue.  One processor takes one job at a time; a job that fails     *)
(* waits longer each time, so the next may be any of those waiting.        *)

SetJob(j, job) ==
    /\ jobs' = [jobs EXCEPT ![j] = job]
    /\ UNCHANGED <<configured, tables, req, bounds, crossed>>

TakeJob(j) ==
    /\ \A i \in Jobs : jobs[i].state # "active"
    /\ jobs[j].state = "waiting"
    /\ SetJob(j, [jobs[j] EXCEPT !.state = "active"])
    /\ UNCHANGED pinned

JobPins(j) ==
    /\ jobs[j].state = "active" /\ configured
    /\ pinned' = pinned \cup {jobs[j].file}
    /\ SetJob(j, NoJob)

TriedOnceMore(job) ==                                            \* a mutant
    [job EXCEPT !.made = @ + 1,
                !.state = IF job.made <= MaxAttempts THEN "waiting" ELSE "failed"]
Retried(job) ==
    [job EXCEPT !.made = @ + 1,
                !.state = IF job.made + 1 < MaxAttempts THEN "waiting" ELSE "failed"]

JobFails(j) ==
    /\ jobs[j].state = "active"
    /\ \/ ~configured /\ UNCHANGED pinned
       \/ configured /\ "refuse" \in Faults /\ UNCHANGED pinned
       \/ configured /\ "reply" \in Faults /\ pinned' = pinned \cup {jobs[j].file}
    /\ SetJob(j, Retried(jobs[j]))

\* Handlers are gone; Bull hands out again, once, a job that was active.
AfterRestart(job) ==
    IF job.state # "active" THEN job
    ELSE IF job.stalled THEN [job EXCEPT !.state = "failed"]
    ELSE [job EXCEPT !.state = "waiting", !.stalled = TRUE]

Restart ==
    /\ "restart" \in Faults /\ restarts < MaxRestarts
    /\ restarts' = restarts + 1
    /\ configured' \in BOOLEAN
    /\ jobs' = [j \in Jobs |-> AfterRestart(jobs[j])]
    /\ req' = [r \in Requests |-> Idle]
    /\ UNCHANGED <<pinned, tables, asked, crossed>>

-----------------------------------------------------------------------------
(* DownloadDocumentUseCase, and ValidateDocumentUseCase about the file f:  *)
(* they only read.  Who may ask is left out.                               *)

Downloaded(v, t) ==
    IF configured /\ docs[v][t].cid \in pinned THEN docs[v][t].cid ELSE NoFile

\* findByCid takes the highest version, for an unchanged file is in several.
Holders(f) == {v \in Versions : f \in {docs[v].minutes.cid, docs[v].evaluation.cid}}
Oldest(S) == CHOOSE v \in S : \A w \in S : v <= w                \* a mutant
FindByCid(S) == CHOOSE v \in S : \A w \in S : w <= v

OnLedger(cid) == \E rec \in ledger : cid \in {rec.minutes, rec.evaluation}
CidToVerify(row) ==
    IF row.minutes.cid # NoFile THEN row.minutes.cid ELSE row.evaluation.cid

\* "failing" are the calls of this request that fail: IPFS is asked for the CID of
\* the file, whose failure is answered as an error, and then the ledger for a
\* record, whose failure is answered as if there were none.  A query of the
\* database that fails ends the request like the first.
Calls == {"cid", "ledger"}
Answer(f, failing) ==
    LET row == docs[FindByCid(Holders(f))] IN
    IF ~configured \/ "cid" \in failing THEN "error"
    ELSE IF Holders(f) = {} THEN "NOT_FOUND"
    ELSE IF row.status = "INACTIVE" THEN "INACTIVE"
    ELSE IF "ledger" \notin failing /\ OnLedger(CidToVerify(row)) THEN "APPROVED"
    ELSE "PENDING"

-----------------------------------------------------------------------------
Arrive(r) ==
    \/ \E m, e \in Files : Submit(r, m, e)
    \/ \E v \in Versions, t \in Types, f \in Files : ChangeVersion(r, v, t, f)
UploadStep(r) == \E t \in Types : Pin(r, t) \/ PinFails(r, t) \/ QueueUpload(r, t)
Handle(r) ==
    \/ UploadStep(r) \/ ReadApprovals(r)
    \/ SubmitCreate(r) \/ VersionReplace(r) \/ VersionReset(r)
    \/ VersionInactivate(r) \/ VersionCreate(r) \/ RegisterSave(r)
Process(j) == TakeJob(j) \/ JobPins(j) \/ JobFails(j)

Next ==
    \/ \E r \in Requests : Arrive(r) \/ Handle(r) \/ Abort(r)
    \/ \E v \in Versions : Approve(v)
    \/ \E r \in Requests, v \in Versions : Register(r, v)
    \/ \E j \in Jobs : Process(j)
    \/ Restart

Spec == Init /\ [][Next]_vars

-----------------------------------------------------------------------------
\* Every file that a document names is downloaded, while the certificates are
\* there, with the hash that its row and the ledger record it with: a file whose
\* upload was queued, or failed, or ended after the other's failure is named by
\* nobody, and no race of whole-row writes parts a hash from its CID.
FilesAreStored ==
    /\ configured => \A v \in Versions, t \in Types : docs[v] # NoDoc =>
          Downloaded(v, t) # NoFile /\ Downloaded(v, t) = docs[v][t].hash
    /\ \A rec \in ledger : {rec.minutes, rec.evaluation} \subseteq pinned

\* What the validation answers about a file that is on the ledger, as long as no
\* two handlers were about one version at a time.  It is found, whatever replaced
\* it, was lost or stopped half-way since.  It is INACTIVE only when every version
\* that names it is: one that a newer version kept is not given up.  Otherwise it
\* is PENDING only when the ledger did not answer, or when it is the evaluation
\* that a version with new minutes kept, as long as these are not on the ledger.
RegisteredIsFound(f, failing) ==
    LET v == FindByCid(Holders(f)) answer == Answer(f, failing) IN
    /\ answer # "NOT_FOUND"
    /\ answer = "INACTIVE" => \A w \in Holders(f) : docs[w].status = "INACTIVE"
    /\ answer = "PENDING" => \/ "ledger" \in failing
                             \/ f # docs[v].minutes.cid /\ ~OnLedger(docs[v].minutes.cid)

\* And no file is answered APPROVED by a version that another one followed.
AnsweredByTheLatest(f) ==
    Answer(f, {}) = "APPROVED" =>
        \A w \in Versions : w > FindByCid(Holders(f)) => docs[w] = NoDoc

AnswersAreTrue ==
    crossed \/ /\ \A rec \in ledger, failing \in SUBSET Calls :
                     \A f \in {rec.minutes, rec.evaluation} : RegisteredIsFound(f, failing)
               /\ \A f \in Files : AnsweredByTheLatest(f)

\* The answer about any file is about that file ("Queries Hyperledger Fabric
\* directly using the CID").  It is not: the evaluation is answered for by the
\* minutes of its version.
OnlyRegisteredIsValid ==
    \A f \in Files : Answer(f, {}) = "APPROVED" => OnLedger(f)
=============================================================================
