---------------------------- MODULE Notifications ----------------------------
(***************************************************************************)
(* E-mail: what each change of a defense tells its participants, the mails *)
(* to one person, the notifications table, and the daily reminder.         *)
(*                                                                         *)
(* A mailing is one run of a NotifyDefense... use case: it reads the       *)
(* defense, then mails its participants one at a time and ends at the first*)
(* failure; the handler that started it has answered long before.  A mail  *)
(* is a row (PENDING, PROCESSING, then SENT or RETRY) and an SMTP call.    *)
(* The reminder runs at 8 and awaits its mailings one by one.  Of a defense*)
(* only status and date are kept, and a date is a day; the races between   *)
(* two handlers that write one defense are in DefenseLifecycle.            *)
(***************************************************************************)
EXTENDS Naturals, FiniteSets

CONSTANTS
    Defenses,
    LastParticipant, \* 1 is the advisor, then the students, then the board
    LastDay,         \* bound on the days, and on the dates asked for
    MaxMailings,     \* bound on the mailings started
    MaxChanges,      \* bound on the requests made
    Faults           \* "refuse": SMTP fails; "reply": it delivers and its
                     \* answer is lost; "db": a write of a notification fails;
                     \* "restart": the process stops, or is down at 8

Days == 0..LastDay
Participants == 1..LastParticipant
Mailings == 1..MaxMailings       \* numbered in the order they start
NoMailing == 0

ASSUME IdsAssumption == NoMailing \notin Defenses
ASSUME BoundsAssumption ==
    /\ LastParticipant \in Nat \ {0} /\ LastDay \in Nat
    /\ MaxMailings \in Nat /\ MaxChanges \in Nat
ASSUME FaultsAssumption == Faults \subseteq {"refuse", "reply", "db", "restart"}

VARIABLES
    defense,    \* defenses table
    due,        \* kinds of mailing a handler has yet to start, by defense
    mailing,    \* the mailings
    started,    \* mailings started so far
    row,        \* notifications table: one row per mailing and participant
    documents,  \* defenses that have a document
    changes,    \* requests made so far (only to bound them)
    today,
    pass,       \* the reminder of today: "due", "running" or "over"
    todo,       \* what the running reminder has left of its snapshot
    waiting,    \* the mailing the reminder awaits
    notified,   \* the scheduler's notifiedDefenses
    delivered,  \* auxiliary: the participants each mailing reached
    inbox,      \* auxiliary: the last mail each participant got of a defense
    reminder,   \* auxiliary: what became of each defense's reminder of today
    doubt,      \* auxiliary: mailings that met "reply", "db" or "restart"
    disturbed   \* auxiliary: defenses of which a mailing failed or was lost,
                \* two were under way at a time, or a change was told nobody

mails == <<mailing, started, row, delivered, inbox>>
clock == <<today, pass, todo, waiting, notified, reminder>>
requests == <<documents, changes>>
vars == <<defense, due, mails, requests, clock, doubt, disturbed>>

-----------------------------------------------------------------------------
Kinds == {"scheduled", "rescheduled", "canceled", "result"}
Mail == [kind : Kinds \cup {"none"}, date : Days]
NoMail == [kind |-> "none", date |-> 0]

Mailing ==
    [pc : {"idle", "read", "create", "smtp", "mark", "retry", "over"},
     of : Defenses \cup {NoMailing},     \* the mails to one person are of no defense
     mail : Mail,
     to : Participants, last : Participants]
Unstarted == [pc |-> "idle", of |-> NoMailing, mail |-> NoMail, to |-> 1, last |-> 1]

\* A notification's row: PENDING when created; its other columns are the mail's.
RowStatus == {"none", "PENDING", "PROCESSING", "SENT", "FAILED", "RETRY"}

Over(m) == mailing[m].pc \in {"idle", "over"}
About(d) == {m \in Mailings : ~Over(m) /\ mailing[m].of = d}
Quiet(d) == due[d] = {} /\ About(d) = {} /\ d \notin todo

TypeOK ==
    /\ defense \in [Defenses -> [status : {"none", "SCHEDULED", "CANCELED", "COMPLETED"},
                                 date : Days]]
    /\ due \in [Defenses -> SUBSET Kinds]
    /\ mailing \in [Mailings -> Mailing]
    /\ started \in 0..MaxMailings
    /\ row \in [Mailings -> [Participants -> RowStatus]]
    /\ documents \subseteq Defenses
    /\ changes \in 0..MaxChanges
    /\ today \in Days
    /\ pass \in {"due", "running", "over"}
    /\ todo \subseteq Defenses
    /\ waiting \in Mailings \cup {NoMailing}
    /\ notified \subseteq Defenses
    /\ delivered \in [Mailings -> SUBSET Participants]
    /\ inbox \in [Defenses -> [Participants -> Mail]]
    /\ reminder \in [Defenses -> {"none", "owed", "sent", "failed"}]
    /\ doubt \subseteq Mailings
    /\ disturbed \subseteq Defenses

Init ==
    /\ defense = [d \in Defenses |-> [status |-> "none", date |-> 0]]
    /\ due = [d \in Defenses |-> {}]
    /\ mailing = [m \in Mailings |-> Unstarted]
    /\ started = 0
    /\ row = [m \in Mailings |-> [p \in Participants |-> "none"]]
    /\ documents = {} /\ changes = 0
    /\ today = 0 /\ pass = "due" /\ todo = {} /\ waiting = NoMailing /\ notified = {}
    /\ delivered = [m \in Mailings |-> {}]
    /\ inbox = [d \in Defenses |-> [p \in Participants |-> NoMail]]
    /\ reminder = [d \in Defenses |-> "none"]
    /\ doubt = {} /\ disturbed = {}

-----------------------------------------------------------------------------
(* The defenses change; their handlers then start a mailing and answer.    *)

\* One request about d saves its row and has a mailing of this kind to start.
Change(d, status, date, kinds) ==
    /\ changes < MaxChanges
    /\ changes' = changes + 1
    /\ defense' = [defense EXCEPT ![d] = [status |-> status, date |-> date]]
    /\ due' = [due EXCEPT ![d] = @ \cup kinds]
    /\ UNCHANGED <<mails, clock, doubt>>
Disturb(d, when) == disturbed' = IF when THEN disturbed \cup {d} ELSE disturbed

Schedule(d, day) ==
    /\ defense[d].status = "none" /\ day >= today
    /\ Change(d, "SCHEDULED", day, {"scheduled"})
    /\ Disturb(d, FALSE)
    /\ UNCHANGED documents

NotCompleted(d) == defense[d].status \in {"SCHEDULED", "CANCELED"}

\* Also of a canceled defense: its participants are told a date then.
Reschedule(d, day) ==
    /\ NotCompleted(d) /\ day >= today
    /\ Change(d, defense[d].status, day, {"rescheduled"})
    /\ Disturb(d, ~Quiet(d) \/ defense[d].status = "CANCELED")
    /\ UNCHANGED documents

CopiedMail == {"rescheduled"}                                     \* a mutant
CancelMail == {"canceled"}
Cancel(d) ==
    /\ NotCompleted(d)
    /\ Change(d, "CANCELED", defense[d].date, CancelMail)
    /\ Disturb(d, ~Quiet(d))
    /\ UNCHANGED documents

\* The first version of its document can be inserted once.
MaySubmit(d) ==
    defense[d].status = "SCHEDULED" /\ defense[d].date <= today /\ d \notin documents
SubmitResult(d) ==
    /\ MaySubmit(d)
    /\ documents' = documents \cup {d}
    /\ Change(d, "COMPLETED", defense[d].date, {"result"})
    /\ Disturb(d, ~Quiet(d))

\* The submission ends between the document and the grade.
SubmitStops(d) ==
    /\ {"db", "restart"} \cap Faults # {}
    /\ MaySubmit(d)
    /\ documents' = documents \cup {d}
    /\ UNCHANGED <<defense, due, mails, changes, clock, doubt, disturbed>>

\* A new version of a document may bring a grade, which completes the defense,
\* also one that is SCHEDULED or CANCELED; nobody is told.
Regrade(d) ==
    /\ d \in documents
    /\ Change(d, "COMPLETED", defense[d].date, {})
    /\ Disturb(d, defense[d].status # "COMPLETED" \/ ~Quiet(d))
    /\ UNCHANGED documents

\* UpdateDefenseUseCase changes the date and tells nobody.
UpdateDate(d, day) ==
    /\ defense[d].status # "none"
    /\ Change(d, defense[d].status, day, {})
    /\ Disturb(d, day # defense[d].date \/ ~Quiet(d))
    /\ UNCHANGED documents

-----------------------------------------------------------------------------
(* Starting a mailing.                                                     *)

Start(d, kind, last) ==
    /\ started < MaxMailings
    /\ started' = started + 1
    /\ mailing' = [mailing EXCEPT ![started + 1] =
                     [Unstarted EXCEPT !.pc = "read", !.of = d, !.mail.kind = kind, !.last = last]]
    /\ UNCHANGED <<row, delivered, inbox, defense, requests, doubt, disturbed>>

Notify(d, kind) ==
    /\ kind \in due[d]
    /\ due' = [due EXCEPT ![d] = @ \ {kind}]
    /\ Start(d, kind, LastParticipant)
    /\ UNCHANGED clock

\* A mail to one person, whoever it is: an approver asked or asked again, one
\* whose rejection was overridden, each of those told that everybody approved,
\* a new user with the first password.
MailOne ==
    /\ Start(NoMailing, "none", 1)
    /\ UNCHANGED <<due, clock>>
AskApprover == MailOne
RemindApprover == MailOne
TellOverridden == MailOne
TellCompleted == MailOne
WelcomeStudent == MailOne
WelcomeAdvisor == MailOne
WelcomeCoordinator == MailOne

-----------------------------------------------------------------------------
(* A mailing: NotifyDefense...UseCase and, for each mail, SendEmailUseCase.*)

At(m, pc) == mailing[m].pc = pc
Goto(m, pc) == mailing' = [mailing EXCEPT ![m].pc = pc]
SetRow(m, status) == row' = [row EXCEPT ![m][mailing[m].to] = status]

\* The use case ends; the reminder may have been waiting for it.
Finish(m, how) ==
    /\ mailing' = [mailing EXCEPT ![m] = [Unstarted EXCEPT !.pc = "over"]]
    /\ IF waiting = m
       THEN LET d == mailing[m].of IN
            /\ waiting' = NoMailing
            /\ todo' = todo \ {d}
            /\ notified' = IF how = "done" THEN notified \cup {d} ELSE notified
            /\ reminder' = [reminder EXCEPT ![d] = IF how = "done" THEN "sent" ELSE "failed"]
       ELSE UNCHANGED <<waiting, todo, notified, reminder>>
    /\ disturbed' = IF how = "failed" THEN disturbed \cup (Defenses \cap {mailing[m].of})
                                     ELSE disturbed
    /\ UNCHANGED <<today, pass>>

\* The defense is read here, not when the mailing was started.
Says(m) ==
    LET d == mailing[m].of
    IN  [mailing[m].mail EXCEPT !.date = IF d \in Defenses THEN defense[d].date ELSE 0]
Read(m) ==
    /\ At(m, "read")
    /\ mailing' = [mailing EXCEPT ![m].pc = "create", ![m].mail = Says(m)]
    /\ UNCHANGED <<started, row, delivered, inbox, clock, doubt, disturbed>>

\* The row is inserted PENDING and updated to PROCESSING, before the try block:
\* when either write fails the use case ends with it.
CreateRow(m) ==
    /\ At(m, "create")
    /\ \/ /\ SetRow(m, "PROCESSING")
          /\ Goto(m, "smtp")
          /\ UNCHANGED <<clock, doubt, disturbed>>
       \/ /\ "db" \in Faults
          /\ SetRow(m, "PENDING") \/ UNCHANGED row
          /\ doubt' = doubt \cup {m}
          /\ Finish(m, "failed")
    /\ UNCHANGED <<started, delivered, inbox>>

\* SmtpEmailAdapter: the mail arrives or not, and the call returns or throws.
AlwaysMark(failed) == "mark"                                      \* a mutant
AfterSmtp(failed) == IF failed THEN "retry" ELSE "mark"
Deliver(m) ==
    LET p == mailing[m].to
        d == mailing[m].of
    IN  /\ delivered' = [delivered EXCEPT ![m] = @ \cup {p}]
        /\ inbox' = IF d \in Defenses THEN [inbox EXCEPT ![d][p] = mailing[m].mail] ELSE inbox

Smtp(m) ==
    /\ At(m, "smtp")
    /\ \/ Deliver(m) /\ Goto(m, AfterSmtp(FALSE)) /\ UNCHANGED doubt
       \/ /\ "reply" \in Faults
          /\ Deliver(m) /\ Goto(m, AfterSmtp(TRUE)) /\ doubt' = doubt \cup {m}
       \/ /\ "refuse" \in Faults
          /\ Goto(m, AfterSmtp(TRUE)) /\ UNCHANGED <<delivered, inbox, doubt>>
    /\ UNCHANGED <<started, row, clock, disturbed>>

PastLast(m) == mailing[m].to > mailing[m].last                    \* a mutant
AtLast(m) == mailing[m].to = mailing[m].last

\* Marked SENT, and on to the next participant; when the update fails the
\* mail that was sent is handled like one that was not.
MarkSent(m) ==
    /\ At(m, "mark")
    /\ \/ /\ SetRow(m, "SENT")
          /\ IF AtLast(m)
             THEN Finish(m, "done")
             ELSE /\ mailing' = [mailing EXCEPT ![m].pc = "create", ![m].to = @ + 1]
                  /\ UNCHANGED <<clock, disturbed>>
          /\ UNCHANGED doubt
       \/ /\ "db" \in Faults
          /\ Goto(m, "retry")
          /\ doubt' = doubt \cup {m}
          /\ UNCHANGED <<row, clock, disturbed>>
    /\ UNCHANGED <<started, delivered, inbox>>

\* canRetry compares the retryCount, 0, with maxRetries, 3: a row becomes RETRY
\* and never FAILED, and nothing reads the rows with RETRY.
CanRetry == 0 < 3
Untouched(m) == row[m][mailing[m].to]                             \* a mutant
AfterError(m) == IF CanRetry THEN "RETRY" ELSE "FAILED"
HandleError(m) ==
    /\ At(m, "retry")
    /\ \/ /\ SetRow(m, AfterError(m))
          /\ UNCHANGED doubt
       \/ "db" \in Faults /\ doubt' = doubt \cup {m} /\ UNCHANGED row
    /\ Finish(m, "failed")
    /\ UNCHANGED <<started, delivered, inbox>>

MailStep(m) ==
    /\ Read(m) \/ CreateRow(m) \/ Smtp(m) \/ MarkSent(m) \/ HandleError(m)
    /\ UNCHANGED <<defense, due, requests>>

-----------------------------------------------------------------------------
(* DefenseNotificationScheduler.                                           *)

OfToday(d) == defense[d].status = "SCHEDULED" /\ defense[d].date = today

Remind ==       \* at 8: the defenses are read once
    /\ pass = "due"
    /\ pass' = "running"
    /\ todo' = {d \in Defenses : OfToday(d)}
    /\ reminder' = [d \in Defenses |-> IF OfToday(d) THEN "owed" ELSE "none"]
    /\ disturbed' = disturbed \cup {d \in Defenses : OfToday(d) /\ ~Quiet(d)}
    /\ UNCHANGED <<defense, due, mails, requests, today, waiting, notified, doubt>>

RemindOne(d) ==
    /\ pass = "running" /\ waiting = NoMailing /\ d \in todo
    /\ IF d \in notified
       THEN /\ todo' = todo \ {d}
            /\ UNCHANGED <<waiting, mails, defense, requests, doubt, disturbed>>
       ELSE /\ Start(d, "scheduled", LastParticipant)
            /\ waiting' = started + 1
            /\ UNCHANGED todo
    /\ UNCHANGED <<due, today, pass, notified, reminder>>

EndPass ==
    /\ pass = "running" /\ todo = {}
    /\ pass' = "over"
    /\ UNCHANGED <<defense, due, mails, requests, today, todo, waiting, notified, reminder,
                   doubt, disturbed>>

\* clearNotifiedDefenses; a reminder begun at 8 is taken to end before midnight.
NotCleared == notified                                            \* a mutant
Cleared == {}
Midnight ==
    /\ pass = "over" /\ today < LastDay
    /\ today' = today + 1
    /\ pass' = "due"
    /\ notified' = Cleared
    /\ reminder' = [d \in Defenses |-> "none"]
    /\ UNCHANGED <<defense, due, mails, requests, todo, waiting, doubt, disturbed>>

\* Everything in memory is lost; a reminder missed at 8 is not made up for.
Restart ==
    LET cut == {m \in Mailings : ~Over(m)} IN
    /\ "restart" \in Faults
    /\ mailing' = [m \in Mailings |-> IF m \in cut THEN [Unstarted EXCEPT !.pc = "over"]
                                                   ELSE mailing[m]]
    /\ due' = [d \in Defenses |-> {}]
    /\ doubt' = doubt \cup cut
    /\ disturbed' = disturbed \cup {d \in Defenses : ~Quiet(d)}
    /\ pass' \in IF pass = "due" THEN {"due", "over"} ELSE {"over"}
    /\ reminder' = [d \in Defenses |-> IF reminder[d] = "owed" THEN "failed" ELSE reminder[d]]
    /\ todo' = {} /\ waiting' = NoMailing /\ notified' = {}
    /\ UNCHANGED <<defense, started, row, delivered, inbox, requests, today>>

Next ==
    \/ \E d \in Defenses :
          \/ \E day \in Days : Schedule(d, day) \/ Reschedule(d, day) \/ UpdateDate(d, day)
          \/ Cancel(d) \/ SubmitResult(d) \/ SubmitStops(d) \/ Regrade(d)
          \/ \E kind \in Kinds : Notify(d, kind)
          \/ RemindOne(d)
    \/ AskApprover \/ RemindApprover \/ TellOverridden \/ TellCompleted
    \/ WelcomeStudent \/ WelcomeAdvisor \/ WelcomeCoordinator
    \/ \E m \in Mailings : MailStep(m)
    \/ Remind \/ EndPass \/ Midnight \/ Restart

\* A mailing that was started runs: the process has nothing to wait for but
\* the database and the SMTP server, which answer or fail.
Spec == Init /\ [][Next]_vars
FairSpec == Spec /\ \A m \in Mailings : WF_vars(MailStep(m))

-----------------------------------------------------------------------------
(* Properties.                                                             *)

\* What the notifications table says of a mail is so: SENT was delivered, and
\* RETRY was not unless an answer or an update was lost (handleError of
\* send-email.use-case also catches the failure of marking a sent mail).
StatusIsTrue ==
    \A m \in Mailings, p \in Participants :
        /\ row[m][p] = "SENT" => p \in delivered[m]
        /\ row[m][p] = "RETRY" /\ m \notin doubt => p \notin delivered[m]

\* Once all is quiet, the last mail every participant has of a defense states
\* its date, and says canceled or graded exactly when it is, whatever changes
\* and reminders came one after the other (each mailing reads the defense anew).
\* Left out are defenses a change of which was told nobody: a date changed by
\* UpdateDefenseUseCase, and a grade that completed a defense with a new version.
LastMailIsTrue ==
    \A d \in Defenses : defense[d].status # "none" /\ d \notin disturbed /\ Quiet(d) =>
        \A p \in Participants :
            /\ inbox[d][p].date = defense[d].date
            /\ inbox[d][p].kind = "canceled" <=> defense[d].status = "CANCELED"
            /\ inbox[d][p].kind = "result" <=> defense[d].status = "COMPLETED"

\* A reminder that has run has mailed, or failed to mail, every defense that
\* was of the day at 8, also one that was reminded of on an earlier day and
\* moved (the scheduler clears its set at midnight).
NobodyForgotten == pass = "over" => \A d \in Defenses : reminder[d] # "owed"

\* No mail is left half-way: its row comes to say SENT or RETRY, unless a write
\* failed or the process stopped.
HalfWay(m) == \E p \in Participants : row[m][p] \in {"PENDING", "PROCESSING"}
EveryMailSettles == \A m \in Mailings : HalfWay(m) ~> (~HalfWay(m) \/ m \in doubt)
===============================================================================
