------------------------- MODULE DocumentFilesProofs -------------------------
(***************************************************************************)
(* Theorems about DocumentFiles that hold for any number of files, handlers*)
(* in flight, versions, jobs, attempts and restarts.                       *)
(*                                                                         *)
(* The argument: what is pinned stays pinned, and hash and CID are written *)
(* together.  So a row that was good when a handler read it is good when   *)
(* the handler writes it back, and a file is pinned before a row names it  *)
(* because a handler writes only after all its uploads ended well.         *)
(***************************************************************************)
EXTENDS DocumentFiles, WellFoundedInduction, TLAPS

\* A row that names files, each by its own hash and CID, that are stored.
Good(row) ==
    /\ row.status # "none"
    /\ row.minutes.hash = row.minutes.cid /\ row.minutes.cid \in pinned
    /\ row.evaluation.hash = row.evaluation.cid /\ row.evaluation.cid \in pinned

Writing == {"submit.create", "version.replace", "version.inactivate", "version.create"}

\* An upload that has its outcome, and failed none, is stored.
FileOK(h, t) ==
    h.file[t] # NoFile =>
        /\ h.pc = "upload" => t \in h.todo \/ h.failed \/ h.file[t] \in pinned
        /\ h.pc \in Writing => h.file[t] \in pinned

Versioning(h) ==
    \/ h.pc \in {"version.approvals", "version.replace", "version.inactivate", "version.create"}
    \/ h.pc = "upload" /\ h.then # "submit.create"

HandlerOK(h) ==
    /\ \A t \in Types : FileOK(h, t)
    /\ h.pc = "version.approvals" => \A t \in Types : t # h.type => h.file[t] = NoFile
    /\ Submitting(h) => \A t \in Types : h.file[t] # NoFile
    /\ Versioning(h) => Good(h.read) /\ h.file[h.type] # NoFile
    /\ h.pc = "register.save" => Good(h.read)
    /\ h.pc = "upload" => h.then # "idle" /\ \A t \in h.todo : h.file[t] # NoFile
    /\ h.pc = "version.create" => h.doc + 1 \in Versions

\* A job that may be taken again has an attempt left, and a file.
JobOK(job) ==
    job.state \in {"waiting", "active"} => job.made < MaxAttempts /\ job.file # NoFile

IInv ==
    /\ StateOK
    /\ \A j \in Jobs : JobOK(jobs[j])
    /\ \A v \in Versions : docs[v] = NoDoc \/ Good(docs[v])
    /\ \A v \in approved : docs[v] # NoDoc
    /\ \A rec \in ledger : {rec.minutes, rec.evaluation} \subseteq pinned
    /\ \A r \in Requests : HandlerOK(req[r])

USE FilesAssumption, BoundsAssumption

-----------------------------------------------------------------------------
(* Rows and handlers.                                                      *)

LEMMA IdleLemma ==
    /\ Idle \in Handler /\ Idle.pc = "idle" /\ NoDoc \in DocRow
    /\ NoJob \in Job /\ NoJob.state = "none" /\ NoJob.made = 0
<1>1. 1 \in Versions
  BY DEF Versions
<1>2. NoDoc \in DocRow
  BY DEF NoDoc, Names, DocRow, Named
<1>3. NoJob \in Job /\ NoJob.state = "none" /\ NoJob.made = 0
  BY DEF NoJob, Job
<1> QED
  BY <1>1, <1>2, <1>3 DEF Idle, Handler, Types

LEMMA QueuedLemma ==
    ASSUME NEW f \in Files
    PROVE  Queued(f) \in Job /\ JobOK(Queued(f))
<1>1. /\ Queued(f) \in Job /\ Queued(f).made = NoJob.made
      /\ Queued(f).file = f /\ Queued(f).state = "waiting"
  BY IdleLemma DEF Queued, Job
<1> QED
  BY <1>1, IdleLemma DEF JobOK

LEMMA IdleOK == HandlerOK(Idle)
BY IdleLemma DEF HandlerOK, FileOK, Submitting, Versioning, Writing

LEMMA NamesLemma ==
    ASSUME NEW f \in Files \cup {NoFile}
    PROVE  Names(f) \in Named /\ Names(f).hash = f /\ Names(f).cid = f
BY DEF Names, Named

LEMMA WithFileLemma ==
    ASSUME NEW row \in DocRow, Good(row), NEW t \in Types, NEW f \in Files, f \in pinned
    PROVE  WithFile(row, t, f) \in DocRow /\ Good(WithFile(row, t, f))
<1>1. CASE t = "minutes"
  <2>1. /\ WithFile(row, t, f).status = row.status /\ WithFile(row, t, f).tx = row.tx
        /\ WithFile(row, t, f).minutes = Names(f)
        /\ WithFile(row, t, f).evaluation = row.evaluation
    BY <1>1 DEF WithFile, DocRow
  <2>2. WithFile(row, t, f) \in DocRow
    BY <1>1, NamesLemma DEF WithFile, DocRow
  <2> QED
    BY <2>1, <2>2, NamesLemma DEF Good
<1>2. CASE t = "evaluation"
  <2>1. /\ WithFile(row, t, f).status = row.status /\ WithFile(row, t, f).tx = row.tx
        /\ WithFile(row, t, f).evaluation = Names(f)
        /\ WithFile(row, t, f).minutes = row.minutes
    BY <1>2 DEF WithFile, DocRow
  <2>2. WithFile(row, t, f) \in DocRow
    BY <1>2, NamesLemma DEF WithFile, DocRow
  <2> QED
    BY <2>1, <2>2, NamesLemma DEF Good
<1> QED
  BY <1>1, <1>2 DEF Types

\* What the handlers make of a good row is good.
LEMMA ChangedLemma ==
    ASSUME NEW row \in DocRow, Good(row)
    PROVE  /\ Inactivated(row) \in DocRow /\ Good(Inactivated(row))
           /\ Registered(row) \in DocRow /\ Good(Registered(row))
           /\ RecordOf(row) \in Record
           /\ RecordOf(row).minutes \in pinned /\ RecordOf(row).evaluation \in pinned
BY DEF Inactivated, Registered, RecordOf, DocRow, Named, Record, Good

LEMMA NextVersionLemma ==
    ASSUME NEW row \in DocRow, Good(row), NEW t \in Types, NEW f \in Files, f \in pinned
    PROVE  NextVersion(row, t, f) \in DocRow /\ Good(NextVersion(row, t, f))
<1> DEFINE open == [row EXCEPT !.status = "PENDING", !.tx = FALSE]
<1>1. open \in DocRow /\ Good(open)
  BY DEF DocRow, Good
<1> HIDE DEF open
<1>2. WithFile(open, t, f) \in DocRow /\ Good(WithFile(open, t, f))
  BY <1>1, WithFileLemma
<1> QED
  BY <1>2 DEF NextVersion, open

LEMMA NewDocumentLemma ==
    ASSUME NEW m \in Files, NEW e \in Files, m \in pinned, e \in pinned
    PROVE  NewDocument(m, e) \in DocRow /\ Good(NewDocument(m, e))
BY NamesLemma DEF NewDocument, DocRow, Good

LEMMA InitHolds == Init => IInv
<1> SUFFICES ASSUME Init PROVE IInv
  OBVIOUS
<1>1. StateOK
  BY IdleLemma DEF Init, StateOK
<1>2. \A j \in Jobs : JobOK(jobs[j])
  BY IdleLemma DEF Init, JobOK
<1> QED
  BY <1>1, <1>2, IdleOK DEF Init, IInv

-----------------------------------------------------------------------------
(* What a step leaves of the invariant.                                    *)

LEMMA GoodStays ==
    ASSUME pinned \subseteq pinned', NEW row \in DocRow, Good(row)
    PROVE  Good(row)'
BY DEF Good

LEMMA HandlerStays ==
    ASSUME pinned \subseteq pinned', NEW h \in Handler, HandlerOK(h)
    PROVE  HandlerOK(h)'
<1>1. h.read \in DocRow
  BY DEF Handler
<1>2. Good(h.read) => Good(h.read)'
  BY <1>1, GoodStays
<1>3. \A t \in Types : FileOK(h, t)'
  BY DEF HandlerOK, FileOK
<1> QED
  BY <1>2, <1>3 DEF HandlerOK, Submitting, Versioning

LEMMA HandlersKept ==
    ASSUME IInv, pinned \subseteq pinned', NEW r \in Requests, NEW h \in Handler,
           req' = [req EXCEPT ![r] = h], HandlerOK(h)'
    PROVE  req' \in [Requests -> Handler] /\ \A q \in Requests : HandlerOK(req[q])'
<1>1. req' \in [Requests -> Handler] /\ req'[r] = h
  BY DEF IInv, StateOK
<1>3. ASSUME NEW q \in Requests PROVE HandlerOK(req[q])'
  <2>1. CASE q = r
    BY <1>1, <2>1 DEF HandlerOK, FileOK, Submitting, Versioning, Good
  <2>2. CASE q # r
    <3>1. PICK n \in Handler : n = req[q] /\ HandlerOK(n)
      BY DEF IInv, StateOK
    <3>2. HandlerOK(n)' /\ req'[q] = n
      BY <2>2, <3>1, HandlerStays DEF IInv, StateOK
    <3> QED
      BY <3>2 DEF HandlerOK, FileOK, Submitting, Versioning, Good
  <2> QED
    BY <2>1, <2>2
<1> QED
  BY <1>1, <1>3

\* The part of the invariant that is not about handlers.
TablesInv ==
    /\ \A v \in Versions : docs[v] = NoDoc \/ Good(docs[v])
    /\ \A v \in approved : docs[v] # NoDoc
    /\ \A rec \in ledger : {rec.minutes, rec.evaluation} \subseteq pinned
Small ==
    /\ configured \in BOOLEAN /\ pinned \subseteq Files /\ jobs \in [Jobs -> Job]
    /\ asked \in 0..MaxUploads /\ restarts \in 0..MaxRestarts
    /\ \A j \in Jobs : JobOK(jobs[j])

LEMMA TablesKept ==
    ASSUME IInv, pinned \subseteq pinned', UNCHANGED tables
    PROVE  TablesInv'
<1>1. UNCHANGED <<docs, approved, ledger>>
  BY DEF tables
<1>2. ASSUME NEW v \in Versions PROVE docs'[v] = NoDoc \/ Good(docs[v])'
  BY <1>1 DEF IInv, Good
<1> QED
  BY <1>1, <1>2 DEF IInv, TablesInv

LEMMA NothingWritten ==
    ASSUME IInv, Small', pinned \subseteq pinned', UNCHANGED tables,
           NEW r \in Requests, NEW h \in Handler, HandlerOK(h)', req' = [req EXCEPT ![r] = h]
    PROVE  IInv'
<1>1. req' \in [Requests -> Handler] /\ \A q \in Requests : HandlerOK(req[q])'
  BY HandlersKept
<1>2. StateOK' /\ \A j \in Jobs : JobOK(jobs'[j])
  BY <1>1 DEF IInv, StateOK, Small, tables
<1> QED
  BY <1>1, <1>2, TablesKept DEF IInv, TablesInv

LEMMA RowWritten ==
    ASSUME IInv, UNCHANGED <<configured, pinned, jobs, approved, ledger, bounds>>,
           NEW v \in Versions, NEW row \in DocRow, Good(row),
           docs' = [docs EXCEPT ![v] = row] \/ docs' = docs,
           NEW r \in Requests, NEW h \in Handler, HandlerOK(h), req' = [req EXCEPT ![r] = h]
    PROVE  IInv'
<1>1. req' \in [Requests -> Handler] /\ \A q \in Requests : HandlerOK(req[q])'
  BY HandlerStays, HandlersKept
<1>2. docs' \in [Versions -> DocRow]
  BY DEF IInv, StateOK
<1>3. \A w \in Versions : docs'[w] = docs[w] \/ docs'[w] = row
  BY DEF IInv, StateOK
<1>4. Good(row)' /\ row # NoDoc
  BY DEF Good, NoDoc
<1>5. StateOK'
  BY <1>1, <1>2 DEF IInv, StateOK, bounds
<1>6. \A w \in Versions : docs'[w] = NoDoc \/ Good(docs[w])'
  BY <1>3, <1>4 DEF IInv, Good
<1>7. approved \subseteq Versions
  BY DEF IInv, StateOK
<1> QED
  BY <1>1, <1>3, <1>4, <1>5, <1>6, <1>7 DEF IInv

\* A step that only reads: the handler goes on with what is true already.
LEMMA Reads ==
    ASSUME IInv, UNCHANGED <<configured, pinned, jobs, tables, restarts>>,
           asked' \in 0..MaxUploads,
           NEW r \in Requests, NEW h \in Handler, HandlerOK(h), req' = [req EXCEPT ![r] = h]
    PROVE  IInv'
<1>1. Small'
  BY DEF IInv, StateOK, Small
<1>2. HandlerOK(h)'
  BY HandlerStays
<1> QED
  BY <1>1, <1>2, NothingWritten

-----------------------------------------------------------------------------
(* A request arrives.                                                      *)

LEMMA BeginKeeps ==
    ASSUME IInv, NEW r \in Requests, NEW h \in Handler, HandlerOK(h), Begin(r, h)
    PROVE  IInv'
<1>1. /\ UNCHANGED <<configured, pinned, jobs, tables, restarts>>
      /\ asked' \in 0..MaxUploads /\ req' = [req EXCEPT ![r] = h]
  BY DEF Begin, Become, IInv, StateOK
<1> QED
  BY <1>1, Reads

LEMMA SubmitKeeps ==
    ASSUME IInv, NEW r \in Requests, NEW m \in Files, NEW e \in Files, Submit(r, m, e)
    PROVE  IInv'
<1> DEFINE files == [t \in Types |-> IF t = "minutes" THEN m ELSE e]
           h == [Idle EXCEPT !.pc = "upload", !.then = "submit.create",
                             !.file = files, !.todo = Types]
<1>1. files \in [Types -> Files \cup {NoFile}] /\ \A t \in Types : files[t] # NoFile
  OBVIOUS
<1>2. /\ h \in Handler /\ h.pc = "upload" /\ h.then = "submit.create"
      /\ h.file = files /\ h.todo = Types
  BY <1>1, IdleLemma DEF Idle, Handler
<1>3. Begin(r, h)
  BY DEF Submit
<1> HIDE DEF h, files
<1>4. HandlerOK(h)
  BY <1>1, <1>2 DEF HandlerOK, FileOK, Submitting, Versioning, Writing
<1> QED
  BY <1>2, <1>3, <1>4, BeginKeeps

LEMMA ChangeVersionKeeps ==
    ASSUME IInv, NEW r \in Requests, NEW v \in Versions, NEW t \in Types, NEW f \in Files,
           ChangeVersion(r, v, t, f)
    PROVE  IInv'
<1> DEFINE files == [Idle.file EXCEPT ![t] = f]
           h == [Idle EXCEPT !.pc = "version.approvals", !.doc = v, !.type = t,
                             !.file = files, !.read = docs[v]]
<1>1. files \in [Types -> Files \cup {NoFile}] /\ files[t] = f
      /\ \A k \in Types : k # t => files[k] = NoFile
  BY DEF Idle
<1>2. docs[v] \in DocRow /\ Good(docs[v])
  BY DEF ChangeVersion, IInv, StateOK
<1>3. /\ h \in Handler /\ h.pc = "version.approvals" /\ h.type = t
      /\ h.file = files /\ h.read = docs[v]
  BY <1>1, <1>2, IdleLemma DEF Idle, Handler
<1>4. Begin(r, h)
  BY DEF ChangeVersion
<1> HIDE DEF h, files
<1>5. HandlerOK(h)
  BY <1>1, <1>2, <1>3 DEF HandlerOK, FileOK, Submitting, Versioning, Writing
<1> QED
  BY <1>3, <1>4, <1>5, BeginKeeps

LEMMA ReadApprovalsKeeps ==
    ASSUME IInv, NEW r \in Requests, ReadApprovals(r)
    PROVE  IInv'
<1>0. PICK h \in Handler : h = req[r]
  BY DEF IInv, StateOK
<1>1. h.pc = "version.approvals" /\ HandlerOK(h) /\ h.type \in Types
  BY <1>0 DEF ReadApprovals, IInv, Handler
<1>2. PICK next \in {"version.inactivate", "version.replace"} :
          next = IF h.doc \in approved THEN "version.inactivate" ELSE "version.replace"
  OBVIOUS
<1> DEFINE n == [h EXCEPT !.pc = "upload", !.todo = {h.type}, !.then = next]
<1>3. /\ n \in Handler /\ n.pc = "upload" /\ n.then = next /\ n.todo = {h.type}
      /\ n.type = h.type /\ n.file = h.file /\ n.read = h.read
  BY <1>1, <1>2 DEF Handler
<1>4. req' = [req EXCEPT ![r] = n] \/ req' = [req EXCEPT ![r] = Idle]
  BY <1>0, <1>2 DEF ReadApprovals, Become
<1>5. UNCHANGED <<configured, pinned, jobs, tables, restarts>> /\ asked' \in 0..MaxUploads
  BY DEF ReadApprovals, bounds, IInv, StateOK
<1> HIDE DEF n
<1>6. \A t \in Types : t # h.type => h.file[t] = NoFile
  BY <1>1 DEF HandlerOK
<1>7. HandlerOK(n)
  BY <1>1, <1>2, <1>3, <1>6 DEF HandlerOK, FileOK, Submitting, Versioning, Writing
<1> QED
  BY <1>3, <1>4, <1>5, <1>7, IdleLemma, IdleOK, Reads

-----------------------------------------------------------------------------
(* Uploads.                                                                *)

LEMMA UploadedLemma ==
    ASSUME NEW h \in Handler, h.pc = "upload", HandlerOK(h)'
    PROVE  Uploaded(h) \in Handler /\ HandlerOK(Uploaded(h))'
<1>1. CASE h.todo # {}
  BY <1>1 DEF Uploaded
<1>2. CASE h.todo = {} /\ h.failed
  BY <1>2, IdleLemma DEF Uploaded, HandlerOK, FileOK, Submitting, Versioning, Writing
<1>3. CASE h.todo = {} /\ ~h.failed
  <2> DEFINE n == [h EXCEPT !.pc = h.then, !.then = "idle"]
  <2>1. /\ n \in Handler /\ n.pc = h.then /\ n.then = "idle" /\ n.type = h.type
        /\ n.file = h.file /\ n.read = h.read
    BY DEF Handler
  <2>2. Uploaded(h) = n
    BY <1>3 DEF Uploaded
  <2> HIDE DEF n
  <2>3. h.then \in {"submit.create", "version.replace", "version.inactivate"}
    BY DEF HandlerOK, Handler
  <2>4. HandlerOK(n)'
    BY <1>3, <2>1, <2>3 DEF HandlerOK, FileOK, Submitting, Versioning, Writing
  <2> QED
    BY <2>1, <2>2, <2>4
<1> QED
  BY <1>1, <1>2, <1>3

\* One upload has its outcome: the file is stored or the handler notes a failure.
LEMMA OutcomeKeeps ==
    ASSUME IInv, NEW r \in Requests, NEW t \in Types, Upload(r, t),
           Small', pinned \subseteq pinned', UNCHANGED tables,
           NEW n \in Handler,
           \/ n = [req[r] EXCEPT !.todo = @ \ {t}] /\ req[r].file[t] \in pinned'
           \/ n = Refused(req[r], t),
           req' = [req EXCEPT ![r] = Uploaded(n)]
    PROVE  IInv'
<1>0. PICK h \in Handler : h = req[r]
  BY DEF IInv, StateOK
<1>1. h.pc = "upload" /\ HandlerOK(h)'
  BY <1>0, HandlerStays DEF Upload, IInv
<1>2. /\ n.pc = "upload" /\ n.then = h.then /\ n.type = h.type /\ n.file = h.file
      /\ n.read = h.read /\ n.todo = h.todo \ {t}
      /\ n.failed \/ (n.failed = h.failed /\ h.file[t] \in pinned')
  BY <1>0, <1>1 DEF Refused, Handler
<1>3. HandlerOK(n)'
  BY <1>1, <1>2 DEF HandlerOK, FileOK, Submitting, Versioning, Writing
<1>4. Uploaded(n) \in Handler /\ HandlerOK(Uploaded(n))'
  BY <1>2, <1>3, UploadedLemma
<1> QED
  BY <1>4, NothingWritten

LEMMA UploadKeeps ==
    ASSUME IInv, NEW r \in Requests, UploadStep(r)
    PROVE  IInv'
<1>0. PICK t \in Types : Pin(r, t) \/ PinFails(r, t) \/ QueueUpload(r, t)
  BY DEF UploadStep
<1>1. req[r] \in Handler /\ Upload(r, t) /\ req[r].file[t] \in Files \cup {NoFile}
  BY <1>0 DEF Pin, PinFails, QueueUpload, IInv, StateOK, Handler
<1>2. req[r].file[t] # NoFile
  BY <1>1 DEF Upload, IInv, HandlerOK
<1> DEFINE done == [req[r] EXCEPT !.todo = @ \ {t}]
           refused == Refused(req[r], t)
<1>3. done \in Handler /\ refused \in Handler
  BY <1>1 DEF Refused, Handler
<1>4. CASE Pin(r, t)
  <2>1. /\ req' = [req EXCEPT ![r] = Uploaded(done)] /\ pinned' = pinned \cup {req[r].file[t]}
        /\ UNCHANGED <<configured, jobs, tables, bounds>>
    BY <1>4 DEF Pin, Become
  <2>2. Small'
    BY <1>1, <1>2, <2>1 DEF IInv, StateOK, Small, bounds
  <2> HIDE DEF done, refused
  <2>3. UNCHANGED tables /\ pinned \subseteq pinned' /\ req[r].file[t] \in pinned'
    BY <2>1
  <2> QED
    BY <1>1, <1>3, <2>1, <2>2, <2>3, OutcomeKeeps DEF done
<1>5. CASE PinFails(r, t) \/ QueueUpload(r, t)
  <2>1. /\ req' = [req EXCEPT ![r] = Uploaded(refused)] /\ UNCHANGED <<configured, tables, bounds>>
        /\ pinned' = pinned \/ pinned' = pinned \cup {req[r].file[t]}
    BY <1>5 DEF PinFails, QueueUpload, Become
  <2>2. jobs' \in [Jobs -> Job] /\ \A j \in Jobs : JobOK(jobs'[j])
    <3>1. Queued(req[r].file[t]) \in Job /\ JobOK(Queued(req[r].file[t]))
      BY <1>1, <1>2, QueuedLemma
    <3>2. CASE UNCHANGED jobs
      BY <3>2 DEF IInv, StateOK
    <3>3. CASE \E j \in Jobs : jobs' = [jobs EXCEPT ![j] = Queued(req[r].file[t])]
      BY <3>1, <3>3 DEF IInv, StateOK
    <3> QED
      BY <1>5, <3>2, <3>3 DEF PinFails, QueueUpload
  <2>3. Small'
    BY <1>1, <1>2, <2>1, <2>2 DEF IInv, StateOK, Small, bounds
  <2> HIDE DEF done, refused
  <2>4. UNCHANGED tables /\ pinned \subseteq pinned'
    BY <2>1
  <2> QED
    BY <1>1, <1>3, <2>1, <2>3, <2>4, OutcomeKeeps DEF refused
<1> QED
  BY <1>0, <1>4, <1>5

-----------------------------------------------------------------------------
(* Rows are written.                                                       *)

LEMMA SubmitCreateKeeps ==
    ASSUME IInv, NEW r \in Requests, SubmitCreate(r)
    PROVE  IInv'
<1>0. PICK h \in Handler : h = req[r] /\ HandlerOK(h) /\ h.pc = "submit.create"
  BY DEF IInv, StateOK, SubmitCreate
<1>1. /\ h.file["minutes"] \in Files /\ h.file["minutes"] \in pinned
      /\ h.file["evaluation"] \in Files /\ h.file["evaluation"] \in pinned
  BY <1>0 DEF HandlerOK, FileOK, Submitting, Writing, Types, Handler
<1>2. PICK row \in DocRow : row = NewDocument(h.file["minutes"], h.file["evaluation"])
                            /\ Good(row)
  BY <1>1, NewDocumentLemma
<1>3. /\ docs' = [docs EXCEPT ![1] = row] \/ docs' = docs
      /\ req' = [req EXCEPT ![r] = Idle]
      /\ UNCHANGED <<configured, pinned, jobs, approved, ledger, bounds>>
  BY <1>0, <1>2 DEF SubmitCreate, Insert, Become
<1>4. 1 \in Versions
  BY DEF Versions
<1> QED
  BY <1>2, <1>3, <1>4, IdleLemma, IdleOK, RowWritten

LEMMA VersionReplaceKeeps ==
    ASSUME IInv, NEW r \in Requests, VersionReplace(r)
    PROVE  IInv'
<1>0. PICK h \in Handler : h = req[r] /\ HandlerOK(h) /\ h.pc = "version.replace"
  BY DEF IInv, StateOK, VersionReplace
<1>1. /\ h.type \in Types /\ h.doc \in Versions /\ h.read \in DocRow /\ Good(h.read)
      /\ h.file[h.type] \in Files /\ h.file[h.type] \in pinned
  BY <1>0 DEF HandlerOK, FileOK, Versioning, Writing, Handler
<1>2. PICK row \in DocRow : row = WithFile(h.read, h.type, h.file[h.type]) /\ Good(row)
  BY <1>1, WithFileLemma
<1> DEFINE n == [Idle EXCEPT !.pc = "version.reset", !.doc = h.doc]
<1>3. n \in Handler /\ n.pc = "version.reset"
  BY <1>1, IdleLemma DEF Idle, Handler
<1>4. /\ docs' = [docs EXCEPT ![h.doc] = row] /\ req' = [req EXCEPT ![r] = n]
      /\ UNCHANGED <<configured, pinned, jobs, approved, ledger, bounds>>
  BY <1>0, <1>2 DEF VersionReplace, Save, Become
<1> HIDE DEF n
<1>5. HandlerOK(n)
  BY <1>3 DEF HandlerOK, FileOK, Submitting, Versioning, Writing
<1> QED
  BY <1>1, <1>2, <1>3, <1>4, <1>5, RowWritten

LEMMA VersionInactivateKeeps ==
    ASSUME IInv, NEW r \in Requests, VersionInactivate(r)
    PROVE  IInv'
<1>0. PICK h \in Handler : h = req[r] /\ HandlerOK(h) /\ h.pc = "version.inactivate"
                           /\ h.doc < MaxVersions
  BY DEF IInv, StateOK, VersionInactivate
<1>1. h.doc \in Versions /\ h.doc + 1 \in Versions /\ h.read \in DocRow /\ Good(h.read)
  BY <1>0 DEF HandlerOK, Versioning, Handler, Versions
<1>2. PICK row \in DocRow : row = Inactivated(h.read) /\ Good(row)
  BY <1>1, ChangedLemma
<1> DEFINE n == [h EXCEPT !.pc = "version.create"]
<1>3. /\ n \in Handler /\ n.pc = "version.create" /\ n.doc = h.doc /\ n.type = h.type
      /\ n.file = h.file /\ n.read = h.read
  BY DEF Handler
<1>4. /\ docs' = [docs EXCEPT ![h.doc] = row] /\ req' = [req EXCEPT ![r] = n]
      /\ UNCHANGED <<configured, pinned, jobs, approved, ledger, bounds>>
  BY <1>0, <1>2 DEF VersionInactivate, Save, Become
<1> HIDE DEF n
<1>5. HandlerOK(n)
  BY <1>0, <1>1, <1>3 DEF HandlerOK, FileOK, Submitting, Versioning, Writing
<1> QED
  BY <1>1, <1>2, <1>3, <1>4, <1>5, RowWritten

LEMMA VersionCreateKeeps ==
    ASSUME IInv, NEW r \in Requests, VersionCreate(r)
    PROVE  IInv'
<1>0. PICK h \in Handler : h = req[r] /\ HandlerOK(h) /\ h.pc = "version.create"
  BY DEF IInv, StateOK, VersionCreate
<1>1. /\ h.type \in Types /\ h.doc + 1 \in Versions /\ h.read \in DocRow /\ Good(h.read)
      /\ h.file[h.type] \in Files /\ h.file[h.type] \in pinned
  BY <1>0 DEF HandlerOK, FileOK, Versioning, Writing, Handler
<1>2. PICK row \in DocRow : row = NextVersion(h.read, h.type, h.file[h.type]) /\ Good(row)
  BY <1>1, NextVersionLemma
<1>3. /\ docs' = [docs EXCEPT ![h.doc + 1] = row] \/ docs' = docs
      /\ req' = [req EXCEPT ![r] = Idle]
      /\ UNCHANGED <<configured, pinned, jobs, approved, ledger, bounds>>
  BY <1>0, <1>2 DEF VersionCreate, Insert, Become
<1> QED
  BY <1>1, <1>2, <1>3, IdleLemma, IdleOK, RowWritten

LEMMA RegisterSaveKeeps ==
    ASSUME IInv, NEW r \in Requests, RegisterSave(r)
    PROVE  IInv'
<1>0. PICK h \in Handler : h = req[r] /\ HandlerOK(h) /\ h.pc = "register.save"
  BY DEF IInv, StateOK, RegisterSave
<1>1. h.doc \in Versions /\ h.read \in DocRow /\ Good(h.read)
  BY <1>0 DEF HandlerOK, Handler
<1>2. /\ docs' = [docs EXCEPT ![h.doc] = h.read] /\ req' = [req EXCEPT ![r] = Idle]
      /\ UNCHANGED <<configured, pinned, jobs, approved, ledger, bounds>>
  BY <1>0 DEF RegisterSave, Save, Become
<1> QED
  BY <1>1, <1>2, IdleLemma, IdleOK, RowWritten

-----------------------------------------------------------------------------
(* Approvals, the ledger, the queue.                                       *)

\* Steps that leave the rows of documents and what handlers have read.
LEMMA RestKept ==
    ASSUME IInv, Small', pinned \subseteq pinned', UNCHANGED docs,
           approved' \subseteq Versions, \A v \in approved' : docs[v] # NoDoc,
           ledger' \subseteq Record,
           \A rec \in ledger' : {rec.minutes, rec.evaluation} \subseteq pinned',
           req' \in [Requests -> Handler], \A q \in Requests : HandlerOK(req[q])'
    PROVE  IInv'
<1>1. \A v \in Versions : docs'[v] = NoDoc \/ Good(docs[v])'
  BY DEF IInv, Good
<1>2. StateOK' /\ \A j \in Jobs : JobOK(jobs'[j])
  BY DEF IInv, StateOK, Small
<1> QED
  BY <1>1, <1>2 DEF IInv

LEMMA ApproveKeeps ==
    ASSUME IInv, NEW v \in Versions, Approve(v)
    PROVE  IInv'
<1>1. \A q \in Requests : HandlerOK(req[q])'
  BY DEF Approve, IInv, HandlerOK, FileOK, Submitting, Versioning, Good
<1>2. Small'
  BY DEF Approve, IInv, StateOK, Small, bounds
<1>3. /\ approved' \subseteq Versions /\ \A w \in approved' : docs[w] # NoDoc
      /\ ledger' \subseteq Record /\ req' \in [Requests -> Handler]
      /\ \A rec \in ledger' : {rec.minutes, rec.evaluation} \subseteq pinned'
      /\ pinned \subseteq pinned' /\ UNCHANGED docs
  BY DEF Approve, IInv, StateOK
<1> QED
  BY <1>1, <1>2, <1>3, RestKept

LEMMA VersionResetKeeps ==
    ASSUME IInv, NEW r \in Requests, VersionReset(r)
    PROVE  IInv'
<1>1. /\ req' = [req EXCEPT ![r] = Idle] /\ pinned' = pinned
      /\ approved' \subseteq approved /\ UNCHANGED <<configured, jobs, docs, ledger, bounds>>
  BY DEF VersionReset, Become
<1>2. HandlerOK(Idle)'
  BY <1>1, IdleLemma, IdleOK, HandlerStays
<1>3. req' \in [Requests -> Handler] /\ \A q \in Requests : HandlerOK(req[q])'
  BY <1>1, <1>2, IdleLemma, HandlersKept
<1>4. Small'
  BY <1>1 DEF IInv, StateOK, Small, bounds
<1>5. /\ approved' \subseteq Versions /\ \A v \in approved' : docs[v] # NoDoc
      /\ ledger' \subseteq Record
      /\ \A rec \in ledger' : {rec.minutes, rec.evaluation} \subseteq pinned'
      /\ pinned \subseteq pinned'
  BY <1>1 DEF IInv, StateOK
<1> QED
  BY <1>1, <1>3, <1>4, <1>5, RestKept

LEMMA RegisterKeeps ==
    ASSUME IInv, NEW r \in Requests, NEW v \in Versions, Register(r, v)
    PROVE  IInv'
<1>1. docs[v] \in DocRow /\ Good(docs[v])
  BY DEF Register, IInv, StateOK
<1>2. PICK row \in DocRow : row = Registered(docs[v]) /\ Good(row)
  BY <1>1, ChangedLemma
<1>3. /\ RecordOf(docs[v]) \in Record
      /\ RecordOf(docs[v]).minutes \in pinned /\ RecordOf(docs[v]).evaluation \in pinned
  BY <1>1, ChangedLemma
<1> DEFINE n == [Idle EXCEPT !.pc = "register.save", !.doc = v, !.read = row]
<1>4. n \in Handler /\ n.pc = "register.save" /\ n.read = row
  BY IdleLemma DEF Idle, Handler
<1>5. /\ req' = [req EXCEPT ![r] = n] /\ ledger' = ledger \cup {RecordOf(docs[v])}
      /\ UNCHANGED <<configured, pinned, jobs, docs, approved, bounds>>
  BY <1>2 DEF Register, Become
<1> HIDE DEF n
<1>6. HandlerOK(n)
  BY <1>2, <1>4 DEF HandlerOK, FileOK, Submitting, Versioning, Writing
<1>7. HandlerOK(n)'
  BY <1>4, <1>5, <1>6, HandlerStays
<1>8. req' \in [Requests -> Handler] /\ \A q \in Requests : HandlerOK(req[q])'
  BY <1>4, <1>5, <1>7, HandlersKept
<1>9. Small'
  BY <1>5 DEF IInv, StateOK, Small, bounds
<1>10. /\ approved' \subseteq Versions /\ \A w \in approved' : docs[w] # NoDoc
       /\ ledger' \subseteq Record
       /\ \A rec \in ledger' : {rec.minutes, rec.evaluation} \subseteq pinned'
       /\ pinned \subseteq pinned' /\ UNCHANGED docs
  BY <1>3, <1>5 DEF IInv, StateOK
<1> QED
  BY <1>8, <1>9, <1>10, RestKept

LEMMA AbortKeeps ==
    ASSUME IInv, NEW r \in Requests, Abort(r)
    PROVE  IInv'
<1>1. /\ UNCHANGED <<configured, pinned, jobs, tables, restarts>>
      /\ asked' \in 0..MaxUploads /\ req' = [req EXCEPT ![r] = Idle]
  BY DEF Abort, Become, bounds, IInv, StateOK
<1> QED
  BY <1>1, IdleLemma, IdleOK, Reads

LEMMA JobLemma ==
    ASSUME NEW job \in Job, JobOK(job)
    PROVE  /\ job.state = "waiting" =>
                 [job EXCEPT !.state = "active"] \in Job
                 /\ JobOK([job EXCEPT !.state = "active"])
           /\ AfterRestart(job) \in Job /\ JobOK(AfterRestart(job))
           /\ job.state = "active" => Retried(job) \in Job /\ JobOK(Retried(job))
<1>1. job.made \in 0..MaxAttempts
  BY DEF Job
<1>2. /\ [job EXCEPT !.state = "active"] \in Job
      /\ job.state = "waiting" => JobOK([job EXCEPT !.state = "active"])
  BY DEF Job, JobOK
<1>3. AfterRestart(job) \in Job /\ JobOK(AfterRestart(job))
  BY DEF Job, JobOK, AfterRestart
<1>4. ASSUME job.state = "active" PROVE Retried(job) \in Job /\ JobOK(Retried(job))
  <2>1. job.made + 1 \in 0..MaxAttempts
    BY <1>1, <1>4 DEF JobOK
  <2>2. Retried(job).made = job.made + 1 /\ Retried(job).file = job.file
        /\ Retried(job).state = IF job.made + 1 < MaxAttempts THEN "waiting" ELSE "failed"
    BY DEF Retried, Job
  <2>3. Retried(job) \in Job
    BY <2>1 DEF Retried, Job
  <2> QED
    BY <1>4, <2>2, <2>3 DEF JobOK
<1> QED
  BY <1>2, <1>3, <1>4

\* A step of the queue: one job is written, and perhaps its file pinned.
LEMMA JobWritten ==
    ASSUME IInv, NEW j \in Jobs, NEW job \in Job, JobOK(job), SetJob(j, job),
           pinned' = pinned \/ (jobs[j].file # NoFile /\ pinned' = pinned \cup {jobs[j].file})
    PROVE  IInv'
<1>1. /\ jobs' = [jobs EXCEPT ![j] = job]
      /\ UNCHANGED <<configured, tables, req, bounds>>
  BY DEF SetJob
<1>2. jobs[j].file \in Files \cup {NoFile}
  BY DEF IInv, StateOK, Job
<1>3. pinned \subseteq pinned' /\ pinned' \subseteq Files
  BY <1>2 DEF IInv, StateOK
<1>4. Small'
  BY <1>1, <1>3 DEF IInv, StateOK, Small, bounds
<1>5. ASSUME NEW q \in Requests PROVE HandlerOK(req[q])'
  <2>1. PICK h \in Handler : h = req[q] /\ HandlerOK(h)
    BY DEF IInv, StateOK
  <2>2. HandlerOK(h)' /\ req'[q] = h
    BY <1>1, <1>3, <2>1, HandlerStays
  <2> QED
    BY <2>2 DEF HandlerOK, FileOK, Submitting, Versioning, Good
<1>6. /\ approved' \subseteq Versions /\ \A w \in approved' : docs[w] # NoDoc
      /\ ledger' \subseteq Record /\ req' \in [Requests -> Handler]
      /\ \A rec \in ledger' : {rec.minutes, rec.evaluation} \subseteq pinned'
      /\ UNCHANGED docs
  BY <1>1, <1>3 DEF IInv, StateOK, tables
<1> QED
  BY <1>3, <1>4, <1>5, <1>6, RestKept

LEMMA ProcessKeeps ==
    ASSUME IInv, NEW j \in Jobs, Process(j)
    PROVE  IInv'
<1>1. jobs[j] \in Job /\ JobOK(jobs[j]) /\ (jobs[j].state = "active" => jobs[j].file # NoFile)
  BY DEF IInv, StateOK, JobOK
<1>2. CASE TakeJob(j)
  BY <1>1, <1>2, JobLemma, JobWritten DEF TakeJob
<1>3. CASE JobPins(j)
  BY <1>1, <1>3, IdleLemma, JobWritten DEF JobPins, JobOK
<1>4. CASE JobFails(j)
  BY <1>1, <1>4, JobLemma, JobWritten DEF JobFails
<1> QED
  BY <1>2, <1>3, <1>4 DEF Process

LEMMA RestartKeeps == ASSUME IInv, Restart PROVE IInv'
<1>1. jobs' \in [Jobs -> Job] /\ \A j \in Jobs : JobOK(jobs'[j])
  BY JobLemma DEF Restart, IInv, StateOK
<1>2. Small'
  BY <1>1 DEF Restart, IInv, StateOK, Small
<1>3. req' \in [Requests -> Handler] /\ \A q \in Requests : HandlerOK(req[q])'
  BY IdleLemma DEF Restart, HandlerOK, FileOK, Submitting, Versioning, Writing
<1>4. /\ approved' \subseteq Versions /\ \A w \in approved' : docs[w] # NoDoc
      /\ ledger' \subseteq Record /\ UNCHANGED docs
      /\ \A rec \in ledger' : {rec.minutes, rec.evaluation} \subseteq pinned'
      /\ pinned \subseteq pinned'
  BY DEF Restart, tables, IInv, StateOK
<1> QED
  BY <1>2, <1>3, <1>4, RestKept

-----------------------------------------------------------------------------
LEMMA NextKeeps ==
    ASSUME IInv, [Next]_vars
    PROVE  IInv'
<1>1. ASSUME NEW r \in Requests, Handle(r) PROVE IInv'
  BY <1>1, UploadKeeps, ReadApprovalsKeeps, SubmitCreateKeeps, VersionReplaceKeeps,
     VersionResetKeeps, VersionInactivateKeeps, VersionCreateKeeps, RegisterSaveKeeps
     DEF Handle
<1>2. ASSUME NEW r \in Requests, Arrive(r) PROVE IInv'
  BY <1>2, SubmitKeeps, ChangeVersionKeeps DEF Arrive
<1>3. CASE UNCHANGED vars
  <2>1. UNCHANGED <<configured, pinned, jobs, docs, approved, ledger, req, asked, restarts>>
    BY <1>3 DEF vars, tables, bounds
  <2>2. StateOK' /\ \A j \in Jobs : JobOK(jobs'[j])
    BY <2>1 DEF IInv, StateOK
  <2>3. \A v \in Versions : docs'[v] = NoDoc \/ Good(docs[v])'
    BY <2>1 DEF IInv, Good
  <2>4. \A q \in Requests : HandlerOK(req[q])'
    BY <2>1 DEF IInv, HandlerOK, FileOK, Submitting, Versioning, Good
  <2> QED
    BY <2>1, <2>2, <2>3, <2>4 DEF IInv
<1> QED
  BY <1>1, <1>2, <1>3, AbortKeeps, ApproveKeeps, RegisterKeeps, ProcessKeeps, RestartKeeps
     DEF Next

\* The inductive invariant holds in every reachable state of the files.
THEOREM Inductive == Spec => []IInv
<1>1. IInv /\ [Next]_vars => IInv'
  BY NextKeeps
<1> QED
  BY <1>1, InitHolds, PTL DEF Spec

\* A flag is raised or left; only a handler that becomes another one raises it.
Marked == crossed \in BOOLEAN

LEMMA Marks ==
    ASSUME Marked, [Next]_vars
    PROVE  Marked'
<1>1. ASSUME NEW r \in Requests, NEW h, Become(r, h) PROVE crossed' \in BOOLEAN
  BY <1>1 DEF Become
<1>2. ASSUME NEW r \in Requests, Arrive(r) PROVE crossed' \in BOOLEAN
  BY <1>1, <1>2 DEF Arrive, Submit, ChangeVersion, Begin
<1>3. ASSUME NEW r \in Requests, UploadStep(r) PROVE crossed' \in BOOLEAN
  BY <1>1, <1>3 DEF UploadStep, Pin, PinFails, QueueUpload
<1>4. ASSUME NEW r \in Requests, Handle(r) PROVE crossed' \in BOOLEAN
  BY <1>1, <1>3, <1>4 DEF Handle, ReadApprovals, SubmitCreate, Insert, VersionReplace, Save,
     VersionReset, VersionInactivate, VersionCreate, RegisterSave
<1>5. ASSUME NEW j \in Jobs, Process(j) PROVE crossed' = crossed
  BY <1>5 DEF Process, TakeJob, JobPins, JobFails, SetJob
<1>6. ASSUME NEW r \in Requests, Abort(r) PROVE crossed' \in BOOLEAN
  BY <1>1, <1>6 DEF Abort
<1> QED
  BY <1>2, <1>4, <1>5, <1>6 DEF Next, Approve, Register, Restart, vars, Marked

\* Every variable keeps its type, for any files, handlers, versions and jobs.
THEOREM TypeCorrect == Spec => []TypeOK
<1>1. IInv /\ Marked => TypeOK
  BY DEF IInv, TypeOK, Marked
<1>2. Init => Marked
  BY DEF Init, Marked
<1>3. Marked /\ [Next]_vars => Marked'
  BY Marks
<1> QED
  BY <1>1, <1>2, <1>3, Inductive, PTL DEF Spec

\* Whatever the uploads, the queue and stale rows do, every file that a document
\* or a ledger record names is stored, and has the hash the row says.
THEOREM FilesStay == Spec => []FilesAreStored
<1>1. IInv => FilesAreStored
  <2> SUFFICES ASSUME IInv PROVE FilesAreStored
    OBVIOUS
  <2>1. ASSUME configured, NEW v \in Versions, NEW t \in Types, docs[v] # NoDoc
        PROVE  Downloaded(v, t) # NoFile /\ Downloaded(v, t) = docs[v][t].hash
    <3>1. docs[v][t].cid \in pinned /\ docs[v][t].hash = docs[v][t].cid
      BY <2>1 DEF IInv, Good, Types
    <3>2. NoFile \notin pinned
      BY DEF IInv, StateOK
    <3> QED
      BY <2>1, <3>1, <3>2 DEF Downloaded
  <2> QED
    BY <2>1 DEF FilesAreStored, IInv
<1> QED
  BY <1>1, Inductive, PTL


-----------------------------------------------------------------------------
(* What the validation answers.  As long as no two handlers were about one *)
(* version at a time, the row a handler holds is the row there is, so only *)
(* the latest version is open, and what is recorded is named by a version  *)
(* whose files nobody is replacing.                                        *)

Reading(h) ==
    \/ h.pc \in {"version.approvals", "version.replace", "version.inactivate"}
    \/ h.pc = "upload" /\ h.then # "submit.create"
Replacing(h) ==
    \/ h.pc \in {"version.replace", "version.reset"}
    \/ h.pc = "upload" /\ h.then = "version.replace"

HoldOK(h) ==
    /\ Reading(h) => h.read = docs[h.doc]
    /\ h.pc = "version.create" => docs[h.doc].status = "INACTIVE"
    /\ h.pc = "register.save" =>
          h.read = Registered(docs[h.doc]) /\ docs[h.doc].status # "INACTIVE"

Apart == \A q, p \in Requests :
    q # p /\ Holds(req[q]) /\ Holds(req[p]) => req[q].doc # req[p].doc
LatestIsOpen == \A v, w \in Versions :
    v < w /\ docs[w] # NoDoc => docs[v].status = "INACTIVE"
KeptBy(v, rec) ==
    /\ v \in approved /\ RecordOf(docs[v]) = rec
    /\ \A q \in Requests : Replacing(req[q]) => req[q].doc # v
RecordsAreKept == \A rec \in ledger : \E v \in Versions : KeptBy(v, rec)

AInv ==
    /\ Apart
    /\ \A q \in Requests : HoldOK(req[q])
    /\ LatestIsOpen
    /\ RecordsAreKept

LEMMA HoldsLemma ==
    ASSUME NEW h
    PROVE  /\ Reading(h) \/ Replacing(h) => Holds(h)
           /\ h.pc \in {"version.create", "register.save"} => Holds(h)
BY DEF Reading, Replacing, Holds, Submitting

LEMMA IdleHoldOK == HoldOK(Idle) /\ ~Holds(Idle) /\ ~Replacing(Idle)
BY IdleLemma DEF HoldOK, Reading, Replacing, Holds

\* The others keep what they hold when the row of their version stays.
LEMMA HoldStays ==
    ASSUME NEW h \in Handler, HoldOK(h), docs'[h.doc] = docs[h.doc]
    PROVE  HoldOK(h)'
BY DEF HoldOK, Reading

\* Nobody holds anything of a version there is not.
LEMMA NobodyHolds ==
    ASSUME NEW h \in Handler, HoldOK(h), HandlerOK(h), docs[h.doc] = NoDoc, NoFile \notin pinned
    PROVE  ~Reading(h) /\ h.pc # "version.create" /\ h.pc # "register.save"
<1>1. NoDoc.minutes.cid = NoFile /\ NoDoc.status = "none" /\ Registered(NoDoc).minutes.cid = NoFile
  BY DEF NoDoc, Names, Registered
<1> QED
  BY <1>1 DEF HoldOK, HandlerOK, Reading, Versioning, Good

\* The handlers after a step in which one of them became h.

LEMMA HoldersKept ==
    ASSUME IInv, AInv, NEW r \in Requests, NEW h \in Handler, req' = [req EXCEPT ![r] = h],
           ~(Holds(h) /\ Meets(r, h.doc)), HoldOK(h)',
           \A q \in Requests \ {r} : \A n \in Handler : n = req[q] => HoldOK(n)'
    PROVE  Apart' /\ \A q \in Requests : HoldOK(req[q])'
<1>1. req'[r] = h /\ \A q \in Requests \ {r} : req'[q] = req[q] /\ req[q] \in Handler
  BY DEF IInv, StateOK
<1>2. Apart'
  BY <1>1 DEF AInv, Apart, Meets, Holds, Submitting
<1>3. ASSUME NEW q \in Requests PROVE HoldOK(req[q])'
  <2>1. PICK n \in Handler : n = req'[q] /\ HoldOK(n)'
    BY <1>1
  <2> QED
    BY <2>1 DEF HoldOK, Reading
<1> QED
  BY <1>2, <1>3

LEMMA RecordsKept ==
    ASSUME IInv, AInv, UNCHANGED ledger, NEW r \in Requests, NEW h \in Handler,
           req' = [req EXCEPT ![r] = h],
           \A v \in Versions : (v \in approved /\ \A q \in Requests : Replacing(req[q]) => req[q].doc # v)
               => v \in approved' /\ RecordOf(docs'[v]) = RecordOf(docs[v]),
           Replacing(h) => h.doc \notin approved \/ (Replacing(req[r]) /\ req[r].doc = h.doc)
    PROVE  RecordsAreKept'
<1>1. req'[r] = h /\ \A q \in Requests \ {r} : req'[q] = req[q]
  BY DEF IInv, StateOK
<1>2. ASSUME NEW rec \in ledger, NEW v \in Versions, KeptBy(v, rec) PROVE KeptBy(v, rec)'
  <2>1. v \in approved' /\ RecordOf(docs'[v]) = rec
    BY <1>2 DEF KeptBy
  <2>2. ASSUME NEW q \in Requests, Replacing(req'[q]) PROVE req'[q].doc # v
    BY <1>1, <1>2, <2>2 DEF KeptBy
  <2> QED
    BY <2>1, <2>2 DEF KeptBy, RecordOf, Replacing
<1> QED
  BY <1>2 DEF AInv, RecordsAreKept

\* A handler goes on without writing a row.
LEMMA NoRowWritten ==
    ASSUME IInv, AInv, UNCHANGED <<docs, approved, ledger>>,
           NEW r \in Requests, NEW h \in Handler, req' = [req EXCEPT ![r] = h],
           ~(Holds(h) /\ Meets(r, h.doc)), HoldOK(h),
           Replacing(h) => h.doc \notin approved \/ (Replacing(req[r]) /\ req[r].doc = h.doc)
    PROVE  AInv'
<1>1. \A n \in Handler : HoldOK(n) => HoldOK(n)'
  BY HoldStays
<1>2. Apart' /\ \A q \in Requests : HoldOK(req[q])'
  BY <1>1, HoldersKept DEF AInv
<1>3. RecordsAreKept'
  BY RecordsKept
<1>4. LatestIsOpen'
  BY DEF AInv, LatestIsOpen
<1> QED
  BY <1>2, <1>3, <1>4 DEF AInv

\* The row of the version that only this handler holds is written.
LEMMA OwnRowWritten ==
    ASSUME IInv, AInv, UNCHANGED <<approved, ledger>>,
           NEW r \in Requests, Holds(req[r]), NEW row \in DocRow,
           docs' = [docs EXCEPT ![req[r].doc] = row],
           NEW h \in Handler, req' = [req EXCEPT ![r] = h],
           ~(Holds(h) /\ Meets(r, h.doc)), HoldOK(h)',
           row # NoDoc, docs[req[r].doc] # NoDoc,
           row.status = "INACTIVE" \/ docs[req[r].doc].status # "INACTIVE",
           RecordOf(row) = RecordOf(docs[req[r].doc]) \/ Replacing(req[r]),
           Replacing(h) => Replacing(req[r]) /\ req[r].doc = h.doc
    PROVE  AInv'
<1> PICK d \in Versions : d = req[r].doc
  BY DEF IInv, StateOK, Handler
<1>1. docs'[d] = row /\ \A v \in Versions : v # d => docs'[v] = docs[v]
  BY DEF IInv, StateOK
<1>2. ASSUME NEW q \in Requests \ {r}, NEW n \in Handler, n = req[q]
      PROVE  HoldOK(n)'
  <2>0. HoldOK(n)
    BY <1>2 DEF AInv
  <2>1. CASE Holds(n)
    <3>1. n.doc # d /\ n.doc \in Versions
      BY <1>2, <2>1 DEF AInv, Apart, Handler
    <3> QED
      BY <1>1, <2>0, <3>1, HoldStays
  <2>2. CASE ~Holds(n)
    <3>1. ~Reading(n) /\ n.pc # "version.create" /\ n.pc # "register.save"
      BY <2>2, HoldsLemma
    <3> QED
      BY <3>1 DEF HoldOK, Reading
  <2> QED
    BY <2>1, <2>2
<1>3. Apart' /\ \A q \in Requests : HoldOK(req[q])'
  BY <1>2, HoldersKept
<1>4. ASSUME NEW v \in Versions, v \in approved,
             \A q \in Requests : Replacing(req[q]) => req[q].doc # v
      PROVE  v \in approved' /\ RecordOf(docs'[v]) = RecordOf(docs[v])
  BY <1>1, <1>4
<1>5. RecordsAreKept'
  BY <1>4, RecordsKept
<1>6. LatestIsOpen'
  <2> SUFFICES ASSUME NEW v \in Versions, NEW w \in Versions, v < w, docs'[w] # NoDoc
               PROVE  docs'[v].status = "INACTIVE"
    BY DEF LatestIsOpen
  <2>1. docs[w] # NoDoc
    BY <1>1
  <2>2. docs[v].status = "INACTIVE"
    BY <2>1 DEF AInv, LatestIsOpen
  <2> QED
    BY <1>1, <2>2
<1> QED
  BY <1>3, <1>5, <1>6 DEF AInv

\* A row is inserted, all the versions before it being INACTIVE.
LEMMA RowInserted ==
    ASSUME IInv, AInv, UNCHANGED <<approved, ledger>>,
           NEW r \in Requests, req' = [req EXCEPT ![r] = Idle],
           NEW d \in Versions, NEW row \in DocRow, docs[d] = NoDoc,
           docs' = [docs EXCEPT ![d] = row],
           \A v \in Versions : v < d => docs[v].status = "INACTIVE"
    PROVE  AInv'
<1>1. docs'[d] = row /\ \A v \in Versions : v # d => docs'[v] = docs[v]
  BY DEF IInv, StateOK
<1>2. ASSUME NEW q \in Requests \ {r}, NEW n \in Handler, n = req[q]
      PROVE  HoldOK(n)'
  <2>0. HoldOK(n) /\ HandlerOK(n) /\ n.doc \in Versions /\ NoFile \notin pinned
    BY <1>2 DEF AInv, IInv, StateOK, Handler
  <2>1. CASE n.doc # d
    BY <1>1, <2>0, <2>1, HoldStays
  <2>2. CASE n.doc = d
    <3>1. ~Reading(n) /\ n.pc # "version.create" /\ n.pc # "register.save"
      BY <2>0, <2>2, NobodyHolds
    <3> QED
      BY <3>1 DEF HoldOK, Reading
  <2> QED
    BY <2>1, <2>2
<1>3. HoldOK(Idle)' /\ ~Holds(Idle) /\ ~Replacing(Idle) /\ Idle \in Handler
  BY IdleLemma, IdleHoldOK DEF HoldOK, Reading
<1>4. Apart' /\ \A q \in Requests : HoldOK(req[q])'
  BY <1>2, <1>3, HoldersKept
<1>5. ASSUME NEW v \in Versions, v \in approved
      PROVE  v \in approved' /\ RecordOf(docs'[v]) = RecordOf(docs[v])
  BY <1>1, <1>5 DEF IInv
<1>6. RecordsAreKept'
  BY <1>3, <1>5, RecordsKept
<1>7. LatestIsOpen'
  <2> SUFFICES ASSUME NEW v \in Versions, NEW w \in Versions, v < w, docs'[w] # NoDoc
               PROVE  docs'[v].status = "INACTIVE"
    BY DEF LatestIsOpen
  <2>0. NoDoc.status = "none"
    BY DEF NoDoc
  <2>1. CASE w = d
    BY <1>1, <2>1 DEF Versions
  <2>2. CASE w # d
    <3>1. docs[v].status = "INACTIVE"
      BY <1>1, <2>2 DEF AInv, LatestIsOpen
    <3> QED
      BY <1>1, <2>0, <3>1
  <2> QED
    BY <2>1, <2>2
<1> QED
  BY <1>4, <1>6, <1>7 DEF AInv

-----------------------------------------------------------------------------
(* The steps.                                                              *)

LEMMA BecomeApart ==
    ASSUME NEW r \in Requests, NEW h, Become(r, h), ~crossed'
    PROVE  req' = [req EXCEPT ![r] = h] /\ ~(Holds(h) /\ Meets(r, h.doc))
BY DEF Become

LEMMA SubmitAnswers ==
    ASSUME IInv, AInv, ~crossed', NEW r \in Requests, NEW m \in Files, NEW e \in Files, Submit(r, m, e)
    PROVE  AInv'
<1> DEFINE files == [t \in Types |-> IF t = "minutes" THEN m ELSE e]
           h == [Idle EXCEPT !.pc = "upload", !.then = "submit.create",
                             !.file = files, !.todo = Types]
<1>1. files \in [Types -> Files \cup {NoFile}]
  OBVIOUS
<1>2. h \in Handler /\ h.pc = "upload" /\ h.then = "submit.create"
  BY <1>1, IdleLemma DEF Idle, Handler
<1>3. Become(r, h) /\ UNCHANGED <<docs, approved, ledger>>
  BY DEF Submit, Begin, tables
<1> HIDE DEF h, files
<1>4. HoldOK(h) /\ ~Replacing(h)
  BY <1>2 DEF HoldOK, Reading, Replacing
<1> QED
  BY <1>2, <1>3, <1>4, BecomeApart, NoRowWritten

LEMMA ChangeVersionAnswers ==
    ASSUME IInv, AInv, ~crossed', NEW r \in Requests, NEW v \in Versions, NEW t \in Types,
           NEW f \in Files, ChangeVersion(r, v, t, f)
    PROVE  AInv'
<1> DEFINE files == [Idle.file EXCEPT ![t] = f]
           h == [Idle EXCEPT !.pc = "version.approvals", !.doc = v, !.type = t,
                             !.file = files, !.read = docs[v]]
<1>1. files \in [Types -> Files \cup {NoFile}]
  BY DEF Idle
<1>2. h \in Handler /\ h.pc = "version.approvals" /\ h.doc = v /\ h.read = docs[v]
  BY <1>1, IdleLemma DEF Idle, Handler, IInv, StateOK
<1>3. Become(r, h) /\ UNCHANGED <<docs, approved, ledger>>
  BY DEF ChangeVersion, Begin, tables
<1> HIDE DEF h, files
<1>4. HoldOK(h) /\ ~Replacing(h)
  BY <1>2 DEF HoldOK, Reading, Replacing
<1> QED
  BY <1>2, <1>3, <1>4, BecomeApart, NoRowWritten

LEMMA ReadApprovalsAnswers ==
    ASSUME IInv, AInv, ~crossed', NEW r \in Requests, ReadApprovals(r)
    PROVE  AInv'
<1>0. PICK h \in Handler : h = req[r]
  BY DEF IInv, StateOK
<1>1. h.pc = "version.approvals" /\ HoldOK(h) /\ h.type \in Types /\ h.read = docs[h.doc]
  BY <1>0 DEF ReadApprovals, AInv, Handler, HoldOK, Reading
<1>2. PICK next \in {"version.inactivate", "version.replace"} :
          next = IF h.doc \in approved THEN "version.inactivate" ELSE "version.replace"
  OBVIOUS
<1> DEFINE n == [h EXCEPT !.pc = "upload", !.todo = {h.type}, !.then = next]
<1>3. n \in Handler /\ n.pc = "upload" /\ n.then = next /\ n.doc = h.doc /\ n.read = h.read
  BY <1>1, <1>2 DEF Handler
<1>4. Become(r, n) \/ Become(r, Idle)
  BY <1>0, <1>2 DEF ReadApprovals
<1>5. UNCHANGED <<docs, approved, ledger>>
  BY DEF ReadApprovals, tables
<1> HIDE DEF n
<1>6. HoldOK(n) /\ (Replacing(n) => n.doc \notin approved)
  BY <1>1, <1>2, <1>3 DEF HoldOK, Reading, Replacing
<1> QED
  BY <1>3, <1>4, <1>5, <1>6, IdleLemma, IdleHoldOK, BecomeApart, NoRowWritten

\* An upload that had its outcome: the handler goes on with the same row, or ends.
LEMMA UploadAnswers ==
    ASSUME IInv, AInv, ~crossed', NEW r \in Requests, NEW t \in Types,
           Pin(r, t) \/ PinFails(r, t) \/ QueueUpload(r, t)
    PROVE  AInv'
<1>0. PICK h \in Handler : h = req[r]
  BY DEF IInv, StateOK
<1>1. h.pc = "upload" /\ HoldOK(h)
  BY <1>0 DEF Pin, PinFails, QueueUpload, Upload, AInv
<1>2. PICK n \in Handler : /\ n.pc = "upload" /\ n.then = h.then /\ n.doc = h.doc /\ n.read = h.read
                           /\ Become(r, Uploaded(n))
  <2>1. /\ [h EXCEPT !.todo = @ \ {t}] \in Handler /\ Refused(h, t) \in Handler
        /\ \A k \in {[h EXCEPT !.todo = @ \ {t}], Refused(h, t)} :
              k.pc = h.pc /\ k.then = h.then /\ k.doc = h.doc /\ k.read = h.read
    BY DEF Refused, Handler
  <2>2. Become(r, Uploaded([h EXCEPT !.todo = @ \ {t}])) \/ Become(r, Uploaded(Refused(h, t)))
    BY <1>0 DEF Pin, PinFails, QueueUpload
  <2> QED
    BY <1>1, <2>1, <2>2
<1>3. h.then # "idle"
  BY <1>0, <1>1 DEF IInv, HandlerOK
<1>4. UNCHANGED <<docs, approved, ledger>>
  BY DEF Pin, PinFails, QueueUpload, tables
<1>5. PICK k \in Handler :
          /\ k = Uploaded(n)
          /\ k = Idle \/ (k.doc = h.doc /\ k.read = h.read
                          /\ ((k.pc = "upload" /\ k.then = h.then) \/ k.pc = h.then))
  <2>1. [n EXCEPT !.pc = n.then, !.then = "idle"] \in Handler
    BY <1>2, <1>3 DEF Handler
  <2>2. /\ [n EXCEPT !.pc = n.then, !.then = "idle"].pc = n.then
        /\ [n EXCEPT !.pc = n.then, !.then = "idle"].doc = n.doc
        /\ [n EXCEPT !.pc = n.then, !.then = "idle"].read = n.read
    BY DEF Handler
  <2>3. \/ Uploaded(n) = n \/ Uploaded(n) = Idle
        \/ Uploaded(n) = [n EXCEPT !.pc = n.then, !.then = "idle"]
    BY DEF Uploaded
  <2> QED
    BY <1>2, <2>1, <2>2, <2>3, IdleLemma
<1>6. CASE k = Idle
  BY <1>2, <1>4, <1>5, <1>6, IdleLemma, IdleHoldOK, BecomeApart, NoRowWritten
<1>7. CASE k # Idle
  <2>1. h.then \in {"submit.create", "version.replace", "version.inactivate"}
    BY <1>3 DEF Handler
  <2>2. HoldOK(k) /\ (Replacing(k) => Replacing(h) /\ h.doc = k.doc)
    BY <1>1, <1>5, <1>7, <2>1 DEF HoldOK, Reading, Replacing
  <2> QED
    BY <1>0, <1>2, <1>4, <1>5, <2>2, BecomeApart, NoRowWritten
<1> QED
  BY <1>6, <1>7

LEMMA GoodIsThere == \A row \in DocRow : Good(row) => row # NoDoc
BY DEF Good, NoDoc

LEMMA SubmitCreateAnswers ==
    ASSUME IInv, AInv, ~crossed', NEW r \in Requests, SubmitCreate(r)
    PROVE  AInv'
<1>0. PICK h \in Handler : h = req[r] /\ HandlerOK(h) /\ h.pc = "submit.create"
  BY DEF IInv, StateOK, SubmitCreate
<1>1. \A t \in Types : h.file[t] \in Files /\ h.file[t] \in pinned
  BY <1>0 DEF HandlerOK, FileOK, Submitting, Writing, Handler
<1>2. PICK row \in DocRow : row = NewDocument(h.file["minutes"], h.file["evaluation"])
  BY <1>1, NewDocumentLemma DEF Types
<1>3. /\ IF docs[1] = NoDoc THEN docs' = [docs EXCEPT ![1] = row] ELSE docs' = docs
      /\ Become(r, Idle) /\ UNCHANGED <<approved, ledger>>
  BY <1>0, <1>2 DEF SubmitCreate, Insert
<1>4. 1 \in Versions /\ \A v \in Versions : ~(v < 1)
  BY DEF Versions
<1> QED
  BY <1>3, <1>4, IdleLemma, IdleHoldOK, BecomeApart, RowInserted, NoRowWritten

LEMMA VersionReplaceAnswers ==
    ASSUME IInv, AInv, ~crossed', NEW r \in Requests, VersionReplace(r)
    PROVE  AInv'
<1>0. PICK h \in Handler : h = req[r] /\ HandlerOK(h) /\ HoldOK(h) /\ h.pc = "version.replace"
  BY DEF IInv, AInv, StateOK, VersionReplace
<1>1. /\ h.type \in Types /\ h.doc \in Versions /\ h.read \in DocRow /\ Good(h.read)
      /\ h.file[h.type] \in Files /\ h.file[h.type] \in pinned /\ h.read = docs[h.doc]
      /\ Holds(h) /\ Replacing(h)
  BY <1>0, HoldsLemma DEF HandlerOK, HoldOK, FileOK, Versioning, Reading, Replacing, Writing, Handler
<1>2. PICK row \in DocRow : row = WithFile(h.read, h.type, h.file[h.type]) /\ Good(row)
  BY <1>1, WithFileLemma
<1>3. row.status = h.read.status
  BY <1>1, <1>2 DEF WithFile, DocRow, Types
<1>4. PICK n \in Handler : n = [Idle EXCEPT !.pc = "version.reset", !.doc = h.doc]
  BY <1>1, IdleLemma DEF Handler
<1>5. n.pc = "version.reset" /\ n.doc = h.doc
  BY <1>4 DEF Idle
<1>6. HoldOK(n)'
  BY <1>5 DEF HoldOK, Reading
<1>7. /\ docs' = [docs EXCEPT ![h.doc] = row] /\ Become(r, n) /\ UNCHANGED <<approved, ledger>>
  BY <1>0, <1>2, <1>4 DEF VersionReplace, Save
<1>8. row # NoDoc /\ docs[h.doc] # NoDoc
  BY <1>1, <1>2, GoodIsThere
<1>9. /\ Holds(req[r]) /\ Replacing(req[r]) /\ req[r].doc = n.doc /\ n.doc = h.doc
      /\ row.status = docs[req[r].doc].status
  BY <1>0, <1>1, <1>3, <1>5
<1>10. req' = [req EXCEPT ![r] = n] /\ ~(Holds(n) /\ Meets(r, n.doc))
  BY <1>7, BecomeApart
<1> QED
  BY <1>6, <1>7, <1>8, <1>9, <1>10, OwnRowWritten

LEMMA VersionInactivateAnswers ==
    ASSUME IInv, AInv, ~crossed', NEW r \in Requests, VersionInactivate(r)
    PROVE  AInv'
<1>0. PICK h \in Handler : h = req[r] /\ HandlerOK(h) /\ HoldOK(h) /\ h.pc = "version.inactivate"
  BY DEF IInv, AInv, StateOK, VersionInactivate
<1>1. /\ h.doc \in Versions /\ h.read \in DocRow /\ Good(h.read) /\ h.read = docs[h.doc] /\ Holds(h)
  BY <1>0, HoldsLemma DEF HandlerOK, HoldOK, Versioning, Reading, Handler
<1>2. PICK row \in DocRow : row = Inactivated(h.read) /\ Good(row)
  BY <1>1, ChangedLemma
<1>3. row.status = "INACTIVE" /\ RecordOf(row) = RecordOf(docs[h.doc])
  BY <1>1, <1>2 DEF Inactivated, RecordOf, DocRow
<1>4. PICK n \in Handler : n = [h EXCEPT !.pc = "version.create"]
  BY DEF Handler
<1>5. n.pc = "version.create" /\ n.doc = h.doc /\ ~Replacing(n)
  BY <1>4 DEF Handler, Replacing
<1>7. /\ docs' = [docs EXCEPT ![h.doc] = row] /\ Become(r, n) /\ UNCHANGED <<approved, ledger>>
  BY <1>0, <1>2, <1>4 DEF VersionInactivate, Save
<1>6. HoldOK(n)'
  <2>1. docs'[h.doc] = row
    BY <1>1, <1>7 DEF IInv, StateOK
  <2> QED
    BY <1>3, <1>5, <2>1 DEF HoldOK, Reading
<1>8. row # NoDoc /\ docs[h.doc] # NoDoc
  BY <1>1, <1>2, GoodIsThere
<1> QED
  BY <1>0, <1>1, <1>2, <1>3, <1>5, <1>6, <1>7, <1>8, BecomeApart, OwnRowWritten

LEMMA RegisterSaveAnswers ==
    ASSUME IInv, AInv, ~crossed', NEW r \in Requests, RegisterSave(r)
    PROVE  AInv'
<1>0. PICK h \in Handler : h = req[r] /\ HandlerOK(h) /\ HoldOK(h) /\ h.pc = "register.save"
  BY DEF IInv, AInv, StateOK, RegisterSave
<1>1. PICK row \in DocRow : row = h.read /\ Good(row)
  BY <1>0 DEF HandlerOK, Handler
<1>2. /\ h.doc \in Versions /\ docs[h.doc] \in DocRow /\ row = Registered(docs[h.doc])
      /\ docs[h.doc].status # "INACTIVE" /\ Holds(h)
  BY <1>0, <1>1, HoldsLemma DEF HoldOK, Handler, IInv, StateOK
<1>3. RecordOf(row) = RecordOf(docs[h.doc])
  BY <1>2 DEF Registered, RecordOf, DocRow
<1>4. /\ docs' = [docs EXCEPT ![h.doc] = row] /\ Become(r, Idle) /\ UNCHANGED <<approved, ledger>>
  BY <1>0, <1>1 DEF RegisterSave, Save
<1>5. row # NoDoc /\ docs[h.doc] # NoDoc
  <2>1. Registered(NoDoc).minutes.cid = NoFile /\ NoFile \notin pinned
    BY DEF NoDoc, Names, Registered, IInv, StateOK
  <2> QED
    BY <1>1, <1>2, <2>1, GoodIsThere DEF Good
<1>6. HoldOK(Idle)'
  BY IdleLemma DEF HoldOK, Reading
<1> QED
  BY <1>0, <1>1, <1>2, <1>3, <1>4, <1>5, <1>6, IdleLemma, IdleHoldOK, BecomeApart, OwnRowWritten

LEMMA VersionCreateAnswers ==
    ASSUME IInv, AInv, ~crossed', NEW r \in Requests, VersionCreate(r)
    PROVE  AInv'
<1>0. PICK h \in Handler : h = req[r] /\ HandlerOK(h) /\ HoldOK(h) /\ h.pc = "version.create"
  BY DEF IInv, AInv, StateOK, VersionCreate
<1>1. /\ h.type \in Types /\ h.doc \in Versions /\ h.doc + 1 \in Versions
      /\ h.read \in DocRow /\ Good(h.read)
      /\ h.file[h.type] \in Files /\ h.file[h.type] \in pinned
      /\ docs[h.doc].status = "INACTIVE"
  BY <1>0 DEF HandlerOK, HoldOK, FileOK, Versioning, Writing, Handler
<1>2. PICK row \in DocRow : row = NextVersion(h.read, h.type, h.file[h.type])
  BY <1>1, NextVersionLemma
<1>3. /\ IF docs[h.doc + 1] = NoDoc THEN docs' = [docs EXCEPT ![h.doc + 1] = row] ELSE docs' = docs
      /\ Become(r, Idle) /\ UNCHANGED <<approved, ledger>>
  BY <1>0, <1>2 DEF VersionCreate, Insert
<1>4. ASSUME NEW v \in Versions, v < h.doc + 1 PROVE docs[v].status = "INACTIVE"
  <2>1. docs[h.doc] # NoDoc
    BY <1>1 DEF NoDoc
  <2>2. v = h.doc \/ v < h.doc
    BY <1>1, <1>4 DEF Versions
  <2> QED
    BY <1>1, <2>1, <2>2 DEF AInv, LatestIsOpen
<1> QED
  BY <1>1, <1>3, <1>4, IdleLemma, IdleHoldOK, BecomeApart, RowInserted, NoRowWritten

\* Only a handler that is replacing the files of a version withdraws its approval.
LEMMA VersionResetAnswers ==
    ASSUME IInv, AInv, ~crossed', NEW r \in Requests, VersionReset(r)
    PROVE  AInv'
<1>0. PICK h \in Handler : h = req[r] /\ h.pc = "version.reset" /\ Replacing(h)
  BY DEF IInv, StateOK, VersionReset, Replacing
<1>1. Become(r, Idle) /\ approved' = approved \ {h.doc} /\ UNCHANGED <<docs, ledger>>
  BY <1>0 DEF VersionReset
<1>2. \A n \in Handler : HoldOK(n) => HoldOK(n)'
  BY <1>1, HoldStays
<1>3. Apart' /\ \A q \in Requests : HoldOK(req[q])'
  BY <1>1, <1>2, IdleLemma, IdleHoldOK, BecomeApart, HoldersKept DEF AInv
<1>4. RecordsAreKept'
  BY <1>0, <1>1, IdleLemma, IdleHoldOK, BecomeApart, RecordsKept
<1>5. LatestIsOpen'
  BY <1>1 DEF AInv, LatestIsOpen
<1> QED
  BY <1>3, <1>4, <1>5 DEF AInv

LEMMA ApproveAnswers ==
    ASSUME IInv, AInv, NEW v \in Versions, Approve(v)
    PROVE  AInv'
<1>1. approved \subseteq approved' /\ UNCHANGED <<docs, ledger, req>>
  BY DEF Approve
<1> QED
  BY <1>1 DEF AInv, Apart, Holds, Submitting, HoldOK, Reading, LatestIsOpen, RecordsAreKept,
     KeptBy, RecordOf, Replacing

LEMMA RegisterAnswers ==
    ASSUME IInv, AInv, ~crossed', NEW r \in Requests, NEW v \in Versions, Register(r, v)
    PROVE  AInv'
<1>1. PICK row \in DocRow : row = Registered(docs[v])
  BY ChangedLemma DEF Register, IInv, StateOK
<1>2. PICK h \in Handler : h = [Idle EXCEPT !.pc = "register.save", !.doc = v, !.read = row]
  BY IdleLemma DEF Handler
<1>3. h.pc = "register.save" /\ h.doc = v /\ h.read = row /\ ~Replacing(h) /\ ~Reading(h)
  BY <1>2 DEF Idle, Replacing, Reading
<1>4. /\ req' = [req EXCEPT ![r] = h] /\ ~Meets(r, v) /\ docs[v].status # "INACTIVE"
      /\ ledger' = ledger \cup {RecordOf(docs[v])} /\ v \in approved
      /\ UNCHANGED <<docs, approved>> /\ req[r].pc = "idle"
  BY <1>1, <1>2 DEF Register
<1>5. HoldOK(h)'
  BY <1>1, <1>3, <1>4 DEF HoldOK
<1>6. \A n \in Handler : HoldOK(n) => HoldOK(n)'
  BY <1>4, HoldStays
<1>7. Apart' /\ \A q \in Requests : HoldOK(req[q])'
  BY <1>3, <1>4, <1>5, <1>6, HoldersKept DEF AInv
<1>8. req'[r] = h /\ \A q \in Requests \ {r} : req'[q] = req[q]
  BY <1>4 DEF IInv, StateOK
<1>9. ASSUME NEW q \in Requests, Replacing(req'[q])
      PROVE  q # r /\ Replacing(req[q]) /\ req'[q].doc = req[q].doc /\ req[q].doc # v
  <2>1. q # r /\ Replacing(req[q]) /\ Holds(req[q]) /\ req'[q] = req[q]
    BY <1>3, <1>8, <1>9, HoldsLemma
  <2> QED
    BY <1>4, <2>1 DEF Meets
<1>10. ASSUME NEW rec \in ledger' PROVE \E w \in Versions : KeptBy(w, rec)'
  <2>1. CASE rec = RecordOf(docs[v])
    <3>1. KeptBy(v, rec)'
      BY <1>4, <1>9, <2>1 DEF KeptBy, RecordOf, Replacing
    <3> QED
      BY <3>1
  <2>2. CASE rec \in ledger
    <3>1. PICK w \in Versions : KeptBy(w, rec)
      BY <2>2 DEF AInv, RecordsAreKept
    <3>2. KeptBy(w, rec)'
      BY <1>4, <1>9, <3>1 DEF KeptBy, RecordOf, Replacing
    <3> QED
      BY <3>2
  <2> QED
    BY <1>4, <2>1, <2>2
<1>11. LatestIsOpen'
  BY <1>4 DEF AInv, LatestIsOpen
<1> QED
  BY <1>7, <1>10, <1>11 DEF AInv, RecordsAreKept

\* Handlers that end hold nothing any more.
LEMMA AbortAnswers ==
    ASSUME IInv, AInv, ~crossed', NEW r \in Requests, Abort(r)
    PROVE  AInv'
<1>1. Become(r, Idle) /\ UNCHANGED <<docs, approved, ledger>>
  BY DEF Abort, tables
<1> QED
  BY <1>1, IdleLemma, IdleHoldOK, BecomeApart, NoRowWritten

LEMMA RestartAnswers ==
    ASSUME IInv, AInv, Restart
    PROVE  AInv'
<1>1. UNCHANGED <<docs, approved, ledger>> /\ \A q \in Requests : req'[q] = Idle
  BY DEF Restart, tables
<1>2. Idle.pc = "idle" /\ ~Holds(Idle) /\ ~Replacing(Idle) /\ ~Reading(Idle)
  BY IdleLemma DEF Holds, Replacing, Reading
<1>3. Apart' /\ \A q \in Requests : HoldOK(req[q])'
  BY <1>1, <1>2 DEF Apart, Holds, Submitting, HoldOK, Reading
<1>4. RecordsAreKept'
  BY <1>1, <1>2 DEF AInv, RecordsAreKept, KeptBy, RecordOf, Replacing
<1> QED
  BY <1>1, <1>3, <1>4 DEF AInv, LatestIsOpen

\* Once two handlers have crossed, they have.
LEMMA CrossedStays ==
    ASSUME crossed, [Next]_vars
    PROVE  crossed'
<1>1. ASSUME NEW r \in Requests, NEW h, Become(r, h) PROVE crossed'
  BY <1>1 DEF Become
<1>2. ASSUME NEW r \in Requests, Arrive(r) PROVE crossed'
  BY <1>1, <1>2 DEF Arrive, Submit, ChangeVersion, Begin
<1>3. ASSUME NEW r \in Requests, UploadStep(r) PROVE crossed'
  BY <1>1, <1>3 DEF UploadStep, Pin, PinFails, QueueUpload
<1>4. ASSUME NEW r \in Requests, Handle(r) PROVE crossed'
  BY <1>1, <1>3, <1>4 DEF Handle, ReadApprovals, SubmitCreate, Insert, VersionReplace, Save,
     VersionReset, VersionInactivate, VersionCreate, RegisterSave
<1>5. ASSUME NEW j \in Jobs, Process(j) PROVE crossed'
  BY <1>5 DEF Process, TakeJob, JobPins, JobFails, SetJob
<1>6. ASSUME NEW r \in Requests, Abort(r) PROVE crossed'
  BY <1>1, <1>6 DEF Abort
<1> QED
  BY <1>2, <1>4, <1>5, <1>6 DEF Next, Approve, Register, Restart, vars

Answering == crossed \/ AInv

LEMMA NextAnswers ==
    ASSUME IInv, Answering, [Next]_vars
    PROVE  Answering'
<1> SUFFICES ASSUME ~crossed' PROVE AInv'
  BY DEF Answering
<1>0. AInv
  BY CrossedStays DEF Answering
<1>1. ASSUME NEW r \in Requests, Handle(r) PROVE AInv'
  BY <1>0, <1>1, UploadAnswers, ReadApprovalsAnswers, SubmitCreateAnswers, VersionReplaceAnswers,
     VersionResetAnswers, VersionInactivateAnswers, VersionCreateAnswers, RegisterSaveAnswers
     DEF Handle, UploadStep
<1>2. ASSUME NEW r \in Requests, Arrive(r) PROVE AInv'
  BY <1>0, <1>2, SubmitAnswers, ChangeVersionAnswers DEF Arrive
<1>3. ASSUME UNCHANGED <<docs, approved, ledger, req>> PROVE AInv'
  BY <1>0, <1>3 DEF AInv, Apart, Holds, Submitting, HoldOK, Reading, LatestIsOpen, RecordsAreKept,
     KeptBy, RecordOf, Replacing
<1>4. ASSUME NEW j \in Jobs, Process(j) PROVE AInv'
  BY <1>3, <1>4 DEF Process, TakeJob, JobPins, JobFails, SetJob, tables
<1>5. CASE UNCHANGED vars
  BY <1>3, <1>5 DEF vars, tables
<1> QED
  BY <1>0, <1>1, <1>2, <1>4, <1>5, AbortAnswers, ApproveAnswers, RegisterAnswers, RestartAnswers
     DEF Next

LEMMA Minimal ==
    ASSUME NEW R, IsWellFoundedOn(R, Nat), NEW T, T \subseteq Nat, T # {}
    PROVE  \E n \in T : \A m \in T : ~(<<m, n>> \in R)
BY WFMin, Zenon

LEMMA LeastLemma ==
    ASSUME NEW T, T \subseteq Nat, T # {}
    PROVE  \E n \in T : \A m \in T : n <= m
<1>1. \A n, m \in Nat : m < n => <<m, n>> \in OpToRel(<, Nat)
  BY DEF OpToRel
<1>2. PICK R : IsWellFoundedOn(R, Nat) /\ \A n, m \in Nat : m < n => <<m, n>> \in R
  BY <1>1, NatLessThanWellFounded, Zenon
<1>3. PICK n \in T : \A m \in T : ~(<<m, n>> \in R)
  BY <1>2, Minimal
<1>4. ASSUME NEW m \in T PROVE n <= m
  <2>1. m \in Nat /\ n \in Nat /\ ~(m < n)
    BY <1>2, <1>3
  <2> QED
    BY <2>1
<1> QED
  BY <1>4

\* A set of versions that is not empty has a highest one, which findByCid takes.
LEMMA HighestLemma ==
    ASSUME NEW S, S \subseteq Versions, S # {}
    PROVE  FindByCid(S) \in S /\ \A w \in S : w <= FindByCid(S)
<1> DEFINE T == {n \in Nat : MaxVersions - n \in S}
<1>1. \A v \in S : MaxVersions - v \in T
  BY DEF Versions
<1>2. T \subseteq Nat /\ T # {}
  BY <1>1
<1>3. \A n \in T : MaxVersions - n \in S
  OBVIOUS
<1> HIDE DEF T
<1>4. PICK n \in T : \A m \in T : n <= m
  BY <1>2, LeastLemma
<1>5. ASSUME NEW v \in S PROVE v <= MaxVersions - n
  <2>1. MaxVersions - v \in Nat /\ n \in Nat /\ v \in Nat /\ n <= MaxVersions - v
    BY <1>1, <1>2, <1>4 DEF Versions
  <2> QED
    BY <2>1
<1> QED
  BY <1>3, <1>5 DEF FindByCid

\* As long as no two handlers were about one version at a time, the validation
\* finds what is on the ledger, whatever was replaced, lost or stopped since, and
\* answers APPROVED only from the latest version, for any versions and files.
THEOREM AnswersHold == Spec => []AnswersAreTrue
<1>1. Init => Answering
  BY DEF Init, Answering, AInv, Apart, Holds, HoldOK, Reading, LatestIsOpen, RecordsAreKept, Idle
<1>2. IInv /\ Answering /\ [Next]_vars => Answering'
  BY NextAnswers
<1>3. IInv /\ Answering => AnswersAreTrue
  <2> SUFFICES ASSUME IInv, AInv
               PROVE  /\ \A rec \in ledger, failing \in SUBSET Calls :
                            \A f \in {rec.minutes, rec.evaluation} : RegisteredIsFound(f, failing)
                      /\ \A f \in Files : AnsweredByTheLatest(f)
    BY DEF Answering, AnswersAreTrue
  <2>0. ASSUME NEW f \in Files, Holders(f) # {}
        PROVE  /\ FindByCid(Holders(f)) \in Versions /\ docs[FindByCid(Holders(f))] # NoDoc
               /\ docs[FindByCid(Holders(f))].minutes.cid # NoFile
               /\ \A w \in Holders(f) : w \in Versions /\ w <= FindByCid(Holders(f))
               /\ f \in {docs[FindByCid(Holders(f))].minutes.cid,
                         docs[FindByCid(Holders(f))].evaluation.cid}
    <3>1. PICK v \in Holders(f) : v = FindByCid(Holders(f)) /\ \A w \in Holders(f) : w <= v
      BY <2>0, HighestLemma DEF Holders
    <3>2. v \in Versions /\ f \in {docs[v].minutes.cid, docs[v].evaluation.cid}
      BY DEF Holders
    <3>3. docs[v] # NoDoc
      BY <3>2 DEF NoDoc, Names
    <3>4. docs[v].minutes.cid # NoFile
      BY <3>2, <3>3 DEF IInv, StateOK, Good
    <3> QED
      BY <3>1, <3>2, <3>3, <3>4 DEF Holders
  <2>1. ASSUME NEW rec \in ledger, NEW failing \in SUBSET Calls, NEW f \in {rec.minutes, rec.evaluation}
        PROVE  RegisteredIsFound(f, failing)
    <3>1. f \in Files /\ OnLedger(f)
      BY DEF IInv, StateOK, OnLedger
    <3>2. PICK u \in Versions : RecordOf(docs[u]) = rec
      BY DEF AInv, RecordsAreKept, KeptBy
    <3>3. u \in Holders(f)
      BY <3>2 DEF Holders, RecordOf
    <3>4. PICK v \in Versions : /\ v = FindByCid(Holders(f)) /\ docs[v] # NoDoc
                                /\ docs[v].minutes.cid # NoFile
                                /\ \A w \in Holders(f) : w \in Versions /\ w <= v
      BY <2>0, <3>1, <3>3
    <3>5. docs[v].status = "INACTIVE" => \A w \in Holders(f) : docs[w].status = "INACTIVE"
      <4> SUFFICES ASSUME docs[v].status = "INACTIVE", NEW w \in Holders(f)
                   PROVE  docs[w].status = "INACTIVE"
        OBVIOUS
      <4>1. w \in Versions /\ (w = v \/ w < v)
        BY <3>4 DEF Versions
      <4> QED
        BY <3>4, <4>1 DEF AInv, LatestIsOpen
    <3>6. CidToVerify(docs[v]) = docs[v].minutes.cid
      BY <3>4 DEF CidToVerify
    <3> QED
      BY <3>1, <3>3, <3>4, <3>5, <3>6 DEF RegisteredIsFound, Answer
  <2>2. ASSUME NEW f \in Files PROVE AnsweredByTheLatest(f)
    <3> SUFFICES ASSUME Answer(f, {}) = "APPROVED", NEW w \in Versions,
                        w > FindByCid(Holders(f)), docs[w] # NoDoc
                 PROVE  FALSE
      BY DEF AnsweredByTheLatest
    <3>1. Holders(f) # {} /\ docs[FindByCid(Holders(f))].status # "INACTIVE"
      BY DEF Answer
    <3>2. FindByCid(Holders(f)) \in Versions
      BY <2>0, <3>1
    <3>3. FindByCid(Holders(f)) < w
      BY <3>2 DEF Versions
    <3> QED
      BY <3>1, <3>2, <3>3 DEF AInv, LatestIsOpen
  <2> QED
    BY <2>1, <2>2
<1> QED
  BY <1>1, <1>2, <1>3, Inductive, PTL DEF Spec
==============================================================================
