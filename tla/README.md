# Academic Ledger API: models and proofs

TLA+ models of the student-ledger API (NestJS, PostgreSQL through Prisma, Bull on
Redis, Hyperledger Fabric, IPFS), the TLC runs that check them and the theorems
TLAPS proves of them. `PROJECT.json` maps each definition to the lines it models.

In this text `approvals/…`, `documents/…`, `defenses/…` are directories of
`src/src/core/modules/`, and `fabric/…`, `ipfs/…`, `notifications/…` of
`src/src/core/toolkit/`.

## 1. The system

A coordinator schedules a *defense* for one or two students and an advisor. When it has
taken place the coordinator submits a grade and two PDFs (minutes and evaluation). The
*document* made of them must be *approved* by the coordinator, the advisor and every
student; each signs the hashes with a Fabric *certificate*. When all rows are APPROVED the
document and its signatures are recorded on the *ledger*. A coordinator may later upload
corrected files, which replace the document's while it is not fully approved and make a
new *version* when it is.

| Component | State | Operations that change it | Made correct by |
|---|---|---|---|
| Defenses (`defenses/`) | defense rows (status, result, grade, date), the students of each, history of events | create, update, reschedule, cancel, submit a result; regraded by a new version | status, result and grade belong together; a result is documented and final; a cancellation is final; one open defense per student |
| Documents (`documents/`) | one row per (defense, version): status PENDING / APPROVED / INACTIVE, hashes, CIDs, `blockchainTxId` | create (submit), replace files, new version, mark registered | one open version; APPROVED means "on the ledger"; the row says what the ledger says |
| Approvals (`approvals/`) | one row per document and approver: PENDING / APPROVED / REJECTED, signature | create, approve, reject, override a rejection, reset, register on Fabric | the coordinator is last; what is registered is approved by everybody, and over these files |
| Ledger gateway (`fabric/infra/adapters/fabric-grpc.adapter.ts`) | the records committed | `registerDocument`; reads | one record per version, with a signature of everybody |
| Certificates (`fabric/application`, `fabric/infra/queue`, `fabric/infra/jobs`) | certificates and revocations tables, the job queue, identities at the CA | queue a job, generate (register, enroll, store), find for signing, expire, revoke | base certificates are never revoked; table and CA agree; none in use once recorded |
| IPFS (`ipfs/`, `documents/…/validate`, `…/download`) | pinned files, upload queue | upload, with a queue as fallback; download and validation read | every file a row or a record names is stored; a registered file is found, and answered by the latest version |
| Notifications (`notifications/`, the defenses' notify use cases and scheduler) | notification rows, the reminder's in-memory set | send e-mail; daily reminder | a row says what became of its mail; the last mail about a defense is true; no defense of the day is forgotten |
| Authentication (`auth/`) | refresh tokens, password hashes | login, refresh, logout, change password | one live refresh token per session, none after a logout |
| People and courses (`students/`, `advisors/`, `coordinators/`, `courses/`, `user/`) | users and their roles, profiles, courses and who coordinates them | create, update | a user has the profile of the role; a course without an active coordinator can be given one |
| HTTP layer, serializers, DTOs, seeds | none | none | |

How they interact. A request is one asynchronous handler in one Node.js process. Handlers
call each other's use cases and share nothing but the database, the queues, the CA and the
ledger. `SubmitDefenseResult` (defenses) creates the document and starts
`CreateApprovals`; that queues a certificate job per approval row. `ApproveDocument` signs
with the approver's certificate and starts `RegisterOnBlockchain`, *not awaited*; that
records the document and then revokes the certificates of its approvals.
`CreateDocumentVersion` replaces the files and awaits `ResetApprovalsForNewVersion`
(revocation and a new certificate per row), or inserts the next version and starts
`CreateApprovals`, not awaited; it then grades the defense. Both upload their files to IPFS
before they write a row. Every change of a defense starts a `NotifyDefense…` use case that
nobody awaits and that reads the defense for itself; a scheduler runs one of them every
morning. A new advisor gets a certificate job, and every new user a mail with the password.

What makes it hard. Apart from the revocation of a certificate there are no database
transactions: every query is an await of its own, and other handlers run between them.
Each repository's `update` writes the **whole row** from the entity read earlier, so a
stale handler undoes what was saved meanwhile. Started and not awaited work outlives its
request. Fabric may refuse a transaction, or commit it and lose the reply; the CA fails
the same way; a handler may stop at any await and leave what it wrote. The hazards in
`PROJECT.json` list these at their lines.

## 2. Modules

| Module | What it is |
|---|---|
| `DocumentApproval` | documents, approvals, the ledger and every handler that writes them |
| `DocumentRegistry` | abstract: what the workflow promises of a document's versions and the ledger |
| `DocumentApprovalProofs` | theorems about `DocumentApproval` that hold under every interleaving |
| `DocumentSafetyProofs` | theorems about the ledger and the versions for any number of handlers, until two that do not go together meet, and that their steps are those of `DocumentRegistry` |
| `ApprovalCertificates` | certificates, revocations, the job queue and its processor, the CA |
| `ApprovalCertificatesProofs` | theorems about `ApprovalCertificates` |
| `DefenseLifecycle` | the defenses table, its handlers, and the regrading by a new version |
| `DefenseLifecycleProofs` | theorems about `DefenseLifecycle` |
| `DocumentFiles` | the uploads of a document's files, their queue, what each version names, and the validation |
| `Notifications` | mailings, the notifications table, the daily reminder |
| `NotificationsProofs` | theorems about `Notifications` |
| `Accounts` | passwords, access tokens, refresh tokens and their rotation |
| `Directory` | users with their profiles, courses and their coordinators |
| `DocumentFilesProofs`, `AccountsProofs`, `DirectoryProofs` | theorems about these three |
| `MC…` | finite instances: symmetry sets and the values a `.cfg` cannot express |

Conventions they share.

* **Request slots.** `Requests` is the set of slots, `req[r]` the handler slot `r` is
  running: its program counter (`pc`, named after the handler and the await it stands
  at) and what it read that it will still use. One action per stretch of code between two
  awaits: `…Begin` is the request's arrival together with the first read and its checks (a
  request these refuse changes nothing and is left out); the others are steps of `Continue(r)`
  (`Handle(r)` in `ApprovalCertificates`). With one slot
  requests come one at a time; with more they interleave at every await. Awaits after
  which only a read that cannot change, or e-mail, follows are merged.
* **Stale rows.** What a handler writes back is computed from what it carries
  (`req[r].read`, `req[r].row`), never from the table.
* **Not-awaited work** goes on in the slot of the handler that started it; when the handler
  itself has more to do (the grade, beside the creation of rows) both are enabled and may
  end in either order.
* **Faults.** `Faults` names what may go wrong in an instance, so a run can say under
  which failures its property holds. A lost reply and a handler that stops half-way
  are actions, not properties of the environment.
* **Bounds.** `MaxVersions`, `MaxEdits`, `MaxRecords`, `MaxRequests`, `MaxResets`, `LastDay`
  bound an instance, not the program. The theorems hold for every value of them.
* **Mutants.** An operator marked `\* a mutant` is a plausible bug (a dropped check, a
  missing reset, a copied field). No specification uses it: `PROJECT.json` says which
  definition it stands in for when a property is tested against it.

### DocumentApproval

`docs[v]` is the document row of version `v` (status, content, and `tx`, an index of
`ledger`, for `blockchainTxId`); `appr[v][a]` the approval row of approver `a`; `grade` the
defense's grade, `NoGrade` while SCHEDULED; `ledger` the records committed. The pair of
files with its hashes and CIDs is one value of `Contents`, and a signature is the content
signed.

Two auxiliary variables, which no guard reads, say how far the program keeps its promises.
`crossed` becomes TRUE when two handlers that `Collide` are in flight at once, the cases where
the missing transactions show: two versions or replacements of one document, or one of them
beside a registration that has read the document; a registration that starts, or a version that
is about to supersede, beside one that has; approval rows still to be created or
reset beside a handler that found all of them APPROVED; files just replaced beside an approval
that has read the old ones; two requests about one approval row; a grade still to be written
beside a registration that has read it. All other overlaps leave it FALSE: approvals of
different rows, approvals while rows are being created or files uploaded, overrides and
rejections beside other people's approvals, registrations that run on behind the answer, stops
and lost replies. `unreset` has the versions of which a handler stopped with files replaced
and rows not yet reset.

| Code | Actions |
|---|---|
| `SubmitDefenseResultUseCase`, `CreateApprovalsUseCase` | `SubmitBegin`, `SubmitCreate` (unique (defense, version)), `SubmitGrade`, `CreateRow` (one insert per approver, in the code's order), `CreateRowsFails` (logged only) |
| `ApproveDocumentUseCase` | `ApproveBegin`, `ApproveLoadDocument` (the hashes are taken here), `ApproveLoadApprovals` (the coordinator's checks), `ApproveSign`, `ApproveAdvisor` (the row a coordinator who advises approves too), `SignFails` |
| `RegisterOnBlockchainUseCase` | `RegisterReadApprovals`, `RegisterReadDocument`, `RegisterReadDefense`, `FabricCommits` / `FabricRefuses` / `FabricReplyLost`, `RegisterSave` |
| `RejectDocumentUseCase`, `OverrideRejectionUseCase` | `RejectBegin`, `RejectSave`, `OverrideBegin`, `OverrideSave` |
| `CreateDocumentVersionUseCase`, `ResetApprovalsForNewVersionUseCase` | `VersionBegin`, `VersionDecide`, `VersionReplace`, `ResetReadApprovals`, `ResetWrite`, `VersionInactivate`, `VersionCreate`, `UpdateGrade` |
| any of them | `Abort` |

`DocumentRegistry` has five actions: a version is drafted after its predecessor was
superseded, revised while the ledger has no entry of it, entered once with every
approver's signature over its files, acknowledged (APPROVED), superseded. The refinement
mapping is at the end of `DocumentApproval`; a ledger entry's signers are the approvers
whose signature is over the recorded content. `ImplementsRegistry` is the abstract specification
as it stands; `FollowsRegistry` says the same of any number of handlers, step by step, until
`crossed` or `unreset`.

### ApprovalCertificates

Certificates are kept in the order of their insertion. The Bull queue is `waiting`, the
jobs between two attempts are `delayed`, the one processor is `worker` (register, enroll,
store, one await each). The CA (external) refuses a name it has registered, and enrolls a
name that is not revoked for whoever has its secret; a secret is represented by the name it
was drawn for. An approval row keeps only the statuses that matter here (`recorded`: its
document is on the ledger). A user who is created as coordinator and also advises has an
identity in the advisors' organization besides. A job that was running when the process
stopped is handed out once more (`stalled`), as Bull does.

### DefenseLifecycle

`rows` is the defenses table, `team` the students of each, `documents` the defenses that
have version 1 of a document, `events` the kinds of event in a defense's history, and
`today` a clock. `Row`, `Created`, `Moved`, `Canceled`, `Graded` are the entity's methods.
Of the document only its existence and the grade a later `createVersion` brings appear;
`DocumentApproval` has the rest of these two handlers. `crossed`, auxiliary, has
the defenses of which two handlers were in flight at a time (and `NoDefense` once two
requests to create one were). No guard reads it; it lets a property say *unless two requests
crossed*, exactly the case where the missing transactions show.

### DocumentFiles

A file stands for its bytes, its SHA-256 and its CID. `docs[v]` has the hash and the CID of
both files of version `v`; of the approvals only `approved` remains (all rows of `v` are
APPROVED), and a registration is two steps. `configured` says whether the process has its
mTLS certificates for IPFS, `jobs` is the Bull queue.

| Code | Actions |
|---|---|
| `SubmitDefenseResultUseCase` | `Submit`, the two uploads in either order, `SubmitCreate` |
| `FileUploadAdapter`, `IpfsService` | `Pin`, `PinFails` (an `IpfsUploadError`: not queued), `QueueUpload` (an `IpfsConnectionError`: queued, and answered 500 all the same); `Uploaded` is the `Promise.all`: the first failure answers, the other upload runs on |
| `IpfsQueueProcessor` and Bull | `TakeJob`, `JobPins`, `JobFails`, `Restart` |
| `CreateDocumentVersionUseCase`, with `ResetApprovals…` | `ChangeVersion`, `ReadApprovals`, uploads, `VersionReplace`, `VersionReset`, `VersionInactivate`, `VersionCreate` |
| approval and registration | `Approve`, `Register`, `RegisterSave` |
| `DownloadDocumentUseCase`, `ValidateDocumentUseCase` | `Downloaded`, `Answer` (they only read) |

`Answer(f, failing)` is what the validation answers about `f` when the calls in `failing` fail: without
the CID the request ends in an error, without the ledger it is answered like a document
that is not registered (PENDING). The versions are those of one defense: a file two defenses
share is left out. `crossed` (auxiliary) tells that two handlers that hold a row of one version
were in flight at once.

### Notifications

A *mailing* is one run of a `NotifyDefense…` use case (`mailing[m]`): it reads the defense,
then sends one mail after the other and ends at the first failure. `due[d]` is what handlers
that have answered will still start. `row[m][p]` is the notifications table. `pass`, `todo`,
`waiting` and `notified` are the scheduler: today's run, what is left of its snapshot, the
mailing it awaits and its in-memory set. Auxiliary: `delivered` and `inbox` (what reached
whom), `reminder`, `doubt` (mailings that met a lost answer, a failed write or a restart) and
`disturbed` (defenses of which a mailing failed or was lost, two were under way at a time, or
date or status was changed without a mail). `documents` has the defenses with a document, left
also by a submission that stopped before the grade (`SubmitStops`): its next version may then
complete a SCHEDULED or CANCELED defense, and mails nobody (`Regrade`).

| Code | Actions |
|---|---|
| the handlers of `defenses/` | `Schedule`, `Reschedule`, `Cancel`, `SubmitResult`, `SubmitStops`, `Regrade`, `UpdateDate`; `Notify` starts the mailing |
| mails to one person (`approvals/`, `students/`, `advisors/`, `coordinators/`) | `AskApprover`, `RemindApprover`, `TellOverridden`, `TellCompleted`, `WelcomeStudent`, `WelcomeAdvisor`, `WelcomeCoordinator` |
| `NotifyDefense…`, `SendEmailUseCase`, `SmtpEmailAdapter` | `Read`, `CreateRow`, `Smtp`, `MarkSent`, `HandleError` |
| `DefenseNotificationScheduler` | `Remind`, `RemindOne`, `EndPass`, `Midnight` |
| the process | `Restart` |

### Accounts

`rows` is the `refresh_tokens` table, keyed by the token, which is the user and the second of
its issue (the JWT has nothing else in it); `cookie` and `bearer` are what each browser
holds. A browser may send several requests at once. A login opens a *session*; the rotation
keeps it. `mishaps[s]` (auxiliary) records what befell session `s`: two of its requests
*crossed*, a handler or an answer was *cut*, a token *collided* with one of the same second.

| Code | Actions |
|---|---|
| `LoginUseCase` | `Login`, `Create` (insert and answer) |
| `RefreshTokensUseCase` | `Refresh` (checks), `RefreshRevoke`, `Create` |
| `LogoutUseCase` | `Logout`, `LogoutRevoke` |
| `ChangePasswordUseCase` | `ChangePassword`, `PasswordWrite` |
| `JwtStrategy` | `Authenticated` |
| time, and a handler that stops | `Tick`, `Stop` |

### Directory

`role` is the users table, `coordinator`, `advisor`, `student` the profiles, `course` whether
a course is active. Who coordinates a course is in the coordinator's row, uniquely. Auxiliary:
`cut`, the users whose creation ended half-way; `lent`, the coordinators who were given a
course while inactive. The initial states are all the consistent ones of courses and
coordinators, as the seed and earlier requests may leave them.

| Code | Actions |
|---|---|
| `CreateCoordinator…`, `CreateStudent…`, `CreateAdvisorUseCase` | `CreateCoordinator`, `CreateStudent`, `CreateAdvisor`, `CreateAdvisorAs`, then `InsertUser`, `InsertProfile` or `InsertProfileFails` |
| `UpdateCourseUseCase` | `UpdateCourse`, `ValidateNew`, `DeactivatePrevious`, `ReadHolder`, `RemoveCourse`, `SaveCourse` |
| `UpdateCoordinatorUseCase` | `UpdateCoordinator`, `GiveCourse`, `SaveCoordinator` |
| `CreateCourse…`, `UpdateStudent…`, `UpdateAdvisorUseCase` | `CreateCourse`, `UpdateStudent`, `UpdateAdvisor` |
| any of them | `Abort` |

## 3. Runs

Passing runs; the instance is given in brackets.

| Run | Shows |
|---|---|
| `approval_concurrent` [two slots, a coordinator who advises, 2 versions, 1 edit, 2 records, all faults; 611,000] | What survives any interleaving of two handlers with stale full-row writes: `TxNamesOwnRecord`, `ApprovedIsOnLedger`, `RecordsAreComplete`, and `TypeOK`. And, until two handlers that `Collide` met: `AtMostOneRecord`: no version is recorded twice, although a reply may be lost (all rows are APPROVED then, which also keeps anyone from triggering it again). `RegisteredContentMatches`, `RecordInForceHasTheGrade`: what is recorded of a version is what the tables hold. `CoordinatorApprovesLast`: through rejections, overrides and resets. `OnlyLatestIsOpen`: one version is open. `OnlyApprovedIsSubmitted`: the ledger grows by approved versions only. `SignaturesCoverRecord`: each recorded signature is over the recorded files. `FollowsRegistry`: every step is one of `DocumentRegistry`. Proved for any number of handlers (section 5). |
| `approval_live` [three slots, 1 version, signing may fail, fairness; 65,000] | `EventuallyRegistered`: whoever of three concurrent approvers saves last finds the others' approvals and registers. |
| `approval_signed` [one slot, 2 students, a coordinator who advises, 3 versions, three edits, no handler stops half-way; 46,000] | `ImplementsRegistry`: over several replacements, versions and registrations the workflow implements `DocumentRegistry`, thus also one entry per version, over its files and signed by everybody. |
| `certificates` [one approver, one approval row reset once, two handlers beside the processor, all faults; 870,000] | `BaseCertificatesStay`, `RevocationsAgree`, `RecordedHasNoCertificate`: the CA revokes an identity, not a certificate, and still no revocation reaches a base certificate; the table and the CA differ only while a revocation is between the two or after one that failed; nothing generated late by the queue is left in use. |
| `defense` [2 defenses, 2 students, grades 6 and 7, two slots, 2 days, 5 requests, handlers may stop; 638,000] | `RowsConsistent` and `CompletedHasDocument` under every interleaving; `OneScheduledDefense`, `CompletedStaysCompleted`, `CanceledForGood` as long as no two requests about the defense crossed. |
| `files` [3 files, 2 versions, two slots, 3 requests, 1 job of 2 attempts, 2 restarts with and without certificates, all faults; 409,000] | `FilesAreStored`: while the certificates are there, every file a version or a ledger record names can be downloaded, with the hash its row has; an upload that failed, was queued, or ended after the other one's failure is named by nobody, and no stale write parts a hash from its CID. `AnswersAreTrue`: whichever of its calls fails, the validation never answers NOT_FOUND about a file of a record, INACTIVE only when all versions with the file are, and PENDING only when the ledger failed or the file has come to stand beside minutes that are not registered; APPROVED is answered by no version that another followed. Up to two handlers on one version at once. |
| `notifications` [1 defense, 2 participants, 2 days, 2 mailings, 2 changes, all faults, fairness; 564,000] | `StatusIsTrue`: SENT was delivered; RETRY was not, unless an answer or a write was lost. `LastMailIsTrue`: once all is quiet the last mail everybody has of a defense states its date and whether it is canceled or graded. `NobodyForgotten`: the reminder attends to every defense of the day at 8, one reminded of and then moved included. `EveryMailSettles`: no mail stays PENDING or PROCESSING. |
| `accounts` [2 users, 2 browsers, 2 passwords, two slots, access tokens of 2 and refresh tokens of 3 seconds, 4 seconds, 4 requests, handlers may stop and answers be lost; 410,000] | `OneLiveToken`: rotation leaves a session one token that is not revoked. `LogoutEndsSession`; `CookieIsLive`: the rotation signs nobody out; `RevokedStaysRevoked`, although a token of the same second is the same string. The first three up to `mishaps`. |
| `directory` [3 users, 2 courses, 1 registration, two slots, 3 requests, handlers may stop; 1,025,000] | `ProfilesMatchRoles`: a user has a profile in the table of the role and in no other, also when one e-mail is created in two roles at once; who has none is being created or was cut short. `SeatsCanBeFilled`: a course that no active coordinator has is kept by nobody inactive, except one who was given it while inactive. |

Runs that find a violation; each checks one sentence of the repository's documentation or
error messages (quoted under "findings"), which the code does not keep.

| Run | Shows |
|---|---|
| `approval_signature_race` | Files are replaced between the registration's two reads, of the rows and of the document, and are recorded with signatures of the old ones; an approval in flight during the replacement ends so too (`reset` skips rows that are PENDING). Two handlers, nothing fails. |
| `certificates_second` | An approver with the certificate of one approval gets none for a second: the name is taken, a suffixed one is registered and the plain one enrolled with its secret, on every attempt. The repository's own test script expects two (it needs a CA to run). |
| `files_unregistered` | The validation asks the ledger about the minutes of the version the uploaded file belongs to, not about the file: an evaluation that replaced another, before any registration of it, is answered APPROVED. One request after another, nothing fails. |

Why the instances are large enough. Two slots give every pair of handlers every
interleaving; each race in the hazards list is between two handlers, and the three slots of
`approval_live` let all the approvers of a one-student document approve at once. In
`approval_signed` three versions let a version be replaced, registered and superseded with a
predecessor and a successor; three edits put a reset, a new version and another reset into one
behaviour. `approval_concurrent` has one edit, which is a replacement with its reset or a new
version (two edits beside two slots are beyond minutes); behaviours with more of them are
in `approval_signed` and, with stops and any number of handlers, in the theorems.
Grades 6 and 7 lie on the two sides of the passing mark. `MaxRecords` lets a version be recorded
twice in each instance. Five requests let a defense be
created, canceled, submitted and regraded with one request more that crosses any of them.
Three files and two versions let one file be shared by two versions and the other be
replaced in both; two attempts of one job are the last and one before it. Two mailings are the
two that can cross, and two changes with two days let a defense be reminded of, moved and
reminded of again. In `accounts` a session is opened, refreshed or logged out by three
requests while another crosses; four seconds exceed both lifetimes. Three requests in
`directory` are an update of a course, one of a coordinator and the creation that would
meet what the two left; the initial states stand for the requests before.

What the restrictions of an instance mean. They are not conveniences; TLC finds the
property violated beyond them.

* These properties of `approval_concurrent` fail for handlers that `Collide`, for each of the reasons given
  in section 2: two approvals that end together both find `blockchainTxId` empty and both
  register; a rejection is saved between the registration's read and its transaction, or beside the
  coordinator's approval; files are replaced and a grade changed while a registration is under
  way; a stale row opens an INACTIVE version again. The finding about signatures is such a
  crossing. `reject.docs.ts:33` ("Document does not proceed to blockchain") is wrong of a rejection
  that crosses an approval of its row. Without any one of the disjuncts of `Collide` TLC finds some property of
  `approval_concurrent` violated (without the pair of two versions, with two edits).
* `SignaturesCoverRecord` fails for a version in `unreset`, when a handler stops between replacing
  the files and resetting the rows; hence no `"abort"` in `approval_signed`, whose
  `ImplementsRegistry` has no exemption.
* `AnswersAreTrue` fails when files are replaced beside the registration of their version: a file
  of the record is then in no row, and the answer is NOT_FOUND.
* `EventuallyRegistered` fails when Fabric refuses (below), when a handler
  may stop, when the coordinator advises and signing fails after the coordinator's own row was
  saved (a second attempt is refused), and when files are replaced beside an approval.
* `CompletedStaysCompleted` and `OneScheduledDefense` fail without their `crossed` disjuncts:
  a cancellation that read the defense SCHEDULED is written over a submitted result, and two
  creations both pass the check. `CanceledForGood` needs `documents` as well: a submission
  that stopped before the grade leaves a document, and `createVersion` then grades even
  a CANCELED defense.
* `LastMailIsTrue` fails for a disturbed defense: two mailings under way at a time arrive in
  either order, `UpdateDefenseUseCase` changes the date and mails nobody, a new version of a
  document left by a stopped submission completes a SCHEDULED or CANCELED defense and mails
  nobody, and a defense that is rescheduled while CANCELED has a date mailed to its participants.
* `StatusIsTrue` and `EveryMailSettles` fail for a mailing in `doubt`: a failed update after a
  delivered mail is handled like a failed mail, and a row the process left in PROCESSING is read
  by nobody.
* `OneLiveToken` fails when two requests of a session cross (both find the token live, both
  replace it), `LogoutEndsSession` also when the answer with a newer cookie was lost,
  `CookieIsLive` when a handler stops between the revocation and the new token or a token of
  the same second exists.
* `SeatsCanBeFilled` fails for a coordinator in `lent`: the update that gives a course accepts an
  inactive coordinator; the unique column then refuses anybody else, and the creation of a
  coordinator leaves a user without a profile.

What the models show besides. None of these is a property of a run; they follow from the
actions named, and a reader of the code should know them.

* *Approvals.* A registration that Fabric refuses is never tried again: the failure is logged,
  every row is APPROVED and no request reaches the registration (`FabricRefuses`). The
  registration writes back the row it read before the Fabric call, so a version made INACTIVE
  meanwhile is APPROVED again beside its successor (`RegisterSave`, two slots). `createVersion`
  changes a PENDING document that is not on the ledger, which its documentation excludes
  (`VersionDecide`). Whether the mail "everybody approved" is sent is decided on rows read
  before the handler saved its own approval, so with requests one at a time it is never sent.
* *Certificates.* The dead end of `certificates_second` meets every approval of a user whose base
  certificate is of the same organization, thus of any student or plain advisor who has one.
* *Defenses.* A FAILED defense can be regraded to APPROVED after the student's next one was
  scheduled: two active defenses, one handler at a time. `OneScheduledDefense` therefore
  counts scheduled ones only.
* *Files.* Only missing certificates put an upload in the queue; every other failure is
  answered 500 and forgotten. A queued upload is answered 500 too, so what it pins later is
  named by no row.
* *Mail.* RETRY is picked up by nothing and FAILED is unreachable (`CanRetry` compares a count
  that is always 0). The welcome mail holds the only copy of a random password. A reminder
  missed at 8 is not made up for.
* *Sign-in.* Two logins of one user in one second: the second answers 500. A refresh that
  collides so has revoked the old token already. `/auth/refresh` wants an access token that has
  not expired. Refresh tokens survive a change of password, access tokens survive a logout, and
  a logout revokes only the token it is sent.
* *Courses.* `UpdateCourse` with a new coordinator deactivates the previous one and assigns the
  new one in memory only (the mapper writes no coordinator), so the course is left with none,
  though `courses.controller.ts:87` says otherwise; on an inactive course it throws after the
  deactivation. With `active: false` besides, it takes the *new* coordinator off whatever course
  they hold. Deactivating a course leaves its coordinator active without one. A student or
  advisor is two inserts, though `students.controller.ts:34` and `advisors.controller.ts:38`
  promise both or neither; the certificate of a new advisor is queued after that, and when
  it cannot be, the request fails and its repetition is refused.

Deadlock is not checked (`CHECK_DEADLOCK FALSE`): when the bounds are used up, or nobody has
anything left to approve, the system rests.

Fairness. Two runs need it. `approval_live`: `WF_vars(Continue(r))` for each slot. A handler
that is running is resumed by the event loop when its await completes, so it is never left
standing while it could go on. `Arrive` and `Abort` are outside: users owe the system no
request, and nothing has to fail. Weak fairness of `Continue` does not choose between
outcomes either. `notifications`: `WF_vars(MailStep(m))` for each mailing, for the same reason;
the database and the SMTP server answer or fail. Starting a mailing, the clock and restarts
are outside.

The requests enumerated are those the handlers' validations let through: the coordinator
cannot reject, an upload differs from the files there are, a defense has one or two
students. A row is approved and rejected by the approver it belongs to.

## 4. Simplifications to know about

* A unique index is the guard of the insert: the handler ends, as it does in the
  code, where nothing before the insert is undone.
* The unique `approvalId` of the certificates table is in `StoreCertificate`, but with this
  CA a second job for the same approval fails earlier, when it enrolls.
* That the CA enrolls a name only for the secret of that name's registration is what
  `fabric-ca.adapter.ts` relies on; the CA itself is external.
* `certificates` has one approval row: with two and all faults the space outgrows a
  run of minutes.
* The CA has one name space per organization; that each organization has a CA of its own
  is left out. Access checks (who may see or change what) are left out of all modules.
* `DefenseLifecycle` lets `CreateSave` take any free id, and leaves a request beyond the
  last id standing.
* A content in `DocumentApproval` and a `Named` pair in `DocumentFiles` are the same column seen
  at two grains; the modules are not composed, since the approvals never look inside a content
  and the files never at a signature.
* In `Notifications` a date is a day, a mail to one person is of no defense, and a reminder
  begun at 8 ends before midnight. Rows written by two handlers at once are in `DefenseLifecycle`.
* A token of `Accounts` is checked against the clock in whole seconds, as a JWT is.

## 5. Proofs

TLAPS proves these for every value of the constants: any sets of students, files, grades,
defenses and request slots (infinite ones included), any bounds, any `Faults`. The only
assumptions are the named `ASSUME`s of the modules, which every run evaluates.

`DocumentApprovalProofs`: `TypeCorrect`, `TxIsOwn`, `ApprovedIsRegistered`,
`LedgerIsComplete`. None of the properties is inductive: a handler writes back a row it read many
steps ago. `IInv` says of the row each handler carries what it says of the table, and, at
each `pc`, what the handler has established so far (`HandlerOK`): it has content to
write, the rows it read were complete and all signed, the document it addresses exists. Steps of
*other* handlers keep this because a document is never deleted and the ledger only grows, by
complete records (`HandlerKept`, from `LedgerGrows` and `TxKept`), so whatever was true of a
stale row stays true. `StepKeeps` reduces each action to what it writes; then there is one
lemma per action.

`DocumentSafetyProofs`: `RecordedOnce`, `ContentMatches`, `GradeMatches`, `CoordinatorIsLast`,
`OnlyLatest`, `SignaturesMatch` and the action properties `ApprovedWhenSubmitted` and `Refinement`,
for any number of handlers, stops and all faults included; `crossed` and `unreset` are in the
properties and not hypotheses. `Safe` is the invariant `crossed \/ SInv`: `SInv` adds to `IInv`
that what each handler has read is still so (`Current`), that no two handlers in flight collide
(`Apart`), and the fact everything turns on: every handler that writes rows or files works on a
version that is PENDING and has no record, because a version all of whose rows are APPROVED is never
approved, rejected, overridden or reset again. A reply that was lost, or a stop between the
transaction and the save, leaves just such a version. What a step could
make stale in another handler is, each time, a pair in `Collide`.
`FilesSafe` adds that each signature in the table, and each one about to be written, is over the
files in the table, except where a reset is under way or in `unreset`. Every step is then an action of
`DocumentRegistry` or a stutter; there is one lemma for each of its actions (`DraftMaps`,
`ReviseMaps`, `EnterMaps`, `AcknowledgeMaps`, `SupersedeMaps`) and one for the rest.

`ApprovalCertificatesProofs`: `TypeCorrect`, `BaseStays`, `TableAgrees`,
`RecordedIsClean`, with all faults and any number of handlers beside the processor. The processor
enrolls a name only with the secret that was drawn when the name was first registered, so a name
that is about to be enrolled or stored has no certificate (`Working`), and a name gives one
(`Names`). `approvalId` is unique over the whole table, revoked rows included, so an approval has
one certificate in its life; hence what is generated late by the queue cannot follow the
revocation at registration (`Recorded`). The CA revokes only names of approvals' certificates,
which no base certificate shares. A certificate that is revoked at the CA and ACTIVE in the table
is in the hands of a handler between the two, or in `missed` (`Agreed`).

`DefenseLifecycleProofs`: `TypeCorrect`, `RowsStayConsistent`, `CompletedIsDocumented` under
every interleaving; `OneScheduled` and the action properties `ResultStays` and
`CancellationStays` up to `crossed`. The invariant has three layers: `HandlerOK` (the row to be written is consistent,
and a COMPLETED one has its document, at every pc after its insert), `Alone` (of the handlers
about a defense that nobody crossed there is only one), and `SyncOK` (what an uncrossed handler checked
still holds of the table when it writes). The two action properties are proved with each
step in `NextKeeps`, since they need the invariant of the state before the step.
`OneScheduled` adds that between the check of a student and the insert nothing becomes
SCHEDULED: a stale row brings that status back only where two handlers crossed, and another
insert only when two creations did (`CheckedOK`).

`DocumentFilesProofs`: `TypeCorrect`, `FilesStay`, `AnswersHold`. A row is `Good` when each of
its hashes belongs to the CID beside it and both files are pinned. What is pinned stays so, thus a
row that was good when a handler read it is good when the handler writes it back; and a handler
writes only after all its uploads ended well (`FileOK`). `AnswersHold` has an invariant of its own,
up to `crossed`: handlers work on different versions (`Apart`), so what one has read is what the
table holds (`HoldOK`); every version but the latest is INACTIVE, and each record is of a row that
still has its files (`LatestIsOpen`, `RecordsAreKept`). That there is a highest version with a file
is well-founded induction over the versions.

`AccountsProofs`: `TypeCorrect`, `Rotation`, `LogoutEnds`, `CookieStays`, and the action property
`RevocationStays`. The properties are about sessions, and so is the invariant: a session's cookie
and handlers are in one browser (`Places`); of its handlers, when none crossed, there is one
(`Alone`), so the token it read is the session's only live one until it revokes it (`Rotates`);
the cookie names the live token while nothing was lost (`Ends`), and a live one while nothing
befell the session (`Follows`). A step touches one session: `QuietElsewhere` settles all others,
and `EndsEmpty` all the ways of ending without a write.

`DirectoryProofs`: `TypeCorrect`, `ProfilesMatch`, `SeatsAreFree`. Profiles are never deleted and a
role is written once, so what a handler found of either holds however old it is; whoever is
written inactive is written without a course, or is in `lent`.

`NotificationsProofs`: `TypeCorrect`, `StatusTrue`, `LastMailTrue`, `NoneForgotten`, with all
faults. A mailing goes from one participant to the next, so those from the one it is at on have
not been reached and their rows are still unsettled (`MailOK`). A reminder that is owed is in what
is left of the scheduler's snapshot, none of which it has notified, and the mailing it awaits is of
a member (`RemindOK`). `LastMailTrue` needs to know of a defense that nothing disturbed that at
most one mailing is to be started or under way, that this one says what the table says, to
everybody it has reached so far, and that everybody has been told when there is none (`Track`);
`OtherDefense` settles every step that is not about the defense in question. The theorems are of
`Spec`; the run adds the fairness that `EveryMailSettles` needs.

Only model-checked: `EventuallyRegistered` and `EveryMailSettles`, which are liveness under
fairness and beyond this prover; and `ImplementsRegistry`, which is proved as `FollowsRegistry`, in
the form that holds for several handlers.

## 6. Not modelled

The HTTP layer, DTOs, serializers and documentation are stateless translation; what a guard or
a validation refuses appears as the guard of the `Begin` action. Who may see or change what is
left out of every module, and so is the access check of `UpdateDefenseUseCase`, which is
started and not awaited. Listings, summaries, ledger history and verification read and write
nothing. `CreateDocumentUseCase` is called by no controller. Seeds, migrations, Docker and
Fabric network set-up are not part of the running program; what the seed leaves is among the
initial states of `Directory`. Names, wording of mails, an advisor's specialization and rate limits
are columns no modelled decision reads. There is no liveness property of the upload queue:
nothing waits for a job, and one that fails five times is dropped.

## 7. Plan

1. *Done.* `DocumentApproval`, with `DocumentRegistry` as its abstract specification and its proofs.
2. *Done.* `ApprovalCertificates`.
3. *Done.* `DefenseLifecycle`, with its proofs.
4. *Done.* `DocumentFiles`, `Notifications`, `Accounts`, `Directory`.
5. *Done.* Proofs: every invariant and action property of the passing runs, and the refinement of
   `DocumentRegistry`, without hypotheses about how many handlers run or whether they stop.
