-------------------------- MODULE NotificationsProofs --------------------------
(***************************************************************************)
(* Theorems about Notifications that hold for any defenses, participants,  *)
(* changes and mailings under way, and whatever fails.                     *)
(*                                                                         *)
(* The argument: a mailing goes from one participant to the next, so those *)
(* from the one it is at on have not been reached, and their rows say so   *)
(* (MailOK).  A reminder owed is still in the snapshot the scheduler works *)
(* through, whose members it has not notified (RemindOK).  Of a defense    *)
(* that nothing disturbed at most one mailing is to be started or under    *)
(* way; it tells what the table says to all it has reached, and when there *)
(* is none everybody has been told (Track).                                *)
(***************************************************************************)
EXTENDS Notifications, TLAPS

\* The row does not say what became of the mail.
Unsettled(s) == s \notin {"SENT", "RETRY"}

MailOK(m) ==
    /\ m > started <=> At(m, "idle")
    /\ mailing[m].to <= mailing[m].last
    /\ At(m, "idle") => \A p \in Participants : p \notin delivered[m] /\ Unsettled(row[m][p])
    /\ ~Over(m) => \A p \in Participants :
          p > mailing[m].to => p \notin delivered[m] /\ Unsettled(row[m][p])
    /\ mailing[m].pc \in {"read", "create", "smtp"} => mailing[m].to \notin delivered[m]
    /\ ~Over(m) => Unsettled(row[m][mailing[m].to])
    /\ At(m, "mark") => mailing[m].to \in delivered[m]
    /\ At(m, "retry") /\ m \notin doubt => mailing[m].to \notin delivered[m]

RemindOK ==
    /\ \A d \in Defenses : reminder[d] = "owed" => d \in todo
    /\ notified \cap todo = {}
    /\ pass # "running" => todo = {}
    /\ pass = "due" => notified = {}
    /\ waiting # NoMailing => ~Over(waiting) /\ mailing[waiting].of \in todo

\* What a mail of this kind says is the status of the defense.
Fits(kind, status) ==
    /\ kind = "canceled" <=> status = "CANCELED"
    /\ kind = "result" <=> status = "COMPLETED"
Told(d, p) == inbox[d][p].date = defense[d].date /\ Fits(inbox[d][p].kind, defense[d].status)

\* A mailing about d.
Tells(d, m) ==
    /\ Fits(mailing[m].mail.kind, defense[d].status)
    /\ mailing[m].last = LastParticipant
    /\ ~At(m, "read") => mailing[m].mail.date = defense[d].date
    /\ \A p \in Participants :
          p < mailing[m].to \/ (p = mailing[m].to /\ At(m, "mark")) => Told(d, p)
    /\ d \in todo => waiting = m

Track(d) ==
    /\ \A k \in due[d] : Fits(k, defense[d].status)
    /\ \A k, l \in due[d] : k = l
    /\ \A m \in About(d) : Tells(d, m)
    /\ \A m, n \in About(d) : m = n
    /\ due[d] = {} \/ (About(d) = {} /\ d \notin todo)
    /\ d \in todo => defense[d].status = "SCHEDULED"
    /\ due[d] = {} /\ About(d) = {} => \A p \in Participants : Told(d, p)

DefenseOK(d) ==
    IF defense[d].status = "none" THEN Quiet(d) ELSE d \in disturbed \/ Track(d)

MailsOK == StatusIsTrue /\ \A m \in Mailings : MailOK(m)

IInv ==
    /\ TypeOK
    /\ MailsOK
    /\ RemindOK
    /\ \A d \in Defenses : DefenseOK(d)

USE IdsAssumption, BoundsAssumption
-----------------------------------------------------------------------------
(* What a step makes of a mailing.                                         *)

MailingOf(p, d, y, t, l) == [pc |-> p, of |-> d, mail |-> y, to |-> t, last |-> l]

Becomes(m, x) ==
    /\ mailing' \in [Mailings -> Mailing]
    /\ mailing'[m] = x
    /\ \A q \in Mailings : q # m => mailing'[q] = mailing[q]

LEMMA Sets ==
    /\ Mailings \subseteq Nat /\ NoMailing \notin Mailings
    /\ Participants \subseteq Nat /\ 1 \in Participants /\ LastParticipant \in Participants
    /\ 0 \in Days
BY DEF Mailings, NoMailing, Participants, Days

LEMMA BecomesLemma ==
    ASSUME TypeOK, NEW m \in Mailings, NEW x \in Mailing, mailing' = [mailing EXCEPT ![m] = x]
    PROVE  Becomes(m, x)
BY DEF TypeOK, Becomes

LEMMA MailingFields ==
    ASSUME NEW x \in Mailing
    PROVE  /\ x = MailingOf(x.pc, x.of, x.mail, x.to, x.last)
           /\ x.of \in Defenses \cup {NoMailing} /\ x.mail \in Mail
           /\ x.to \in Participants /\ x.last \in Participants
BY DEF Mailing, MailingOf

Pcs == {"idle", "read", "create", "smtp", "mark", "retry", "over"}

LEMMA MailingType ==
    ASSUME NEW p \in Pcs, NEW d \in Defenses \cup {NoMailing}, NEW y \in Mail,
           NEW t \in Participants, NEW l \in Participants
    PROVE  MailingOf(p, d, y, t, l) \in Mailing
BY DEF MailingOf, Mailing, Pcs

LEMMA FieldSet ==
    \A p, d, y, t, l, v :
        /\ [MailingOf(p, d, y, t, l) EXCEPT !.pc = v] = MailingOf(v, d, y, t, l)
        /\ [MailingOf(p, d, y, t, l) EXCEPT !.of = v] = MailingOf(p, v, y, t, l)
        /\ [MailingOf(p, d, y, t, l) EXCEPT !.mail = v] = MailingOf(p, d, v, t, l)
        /\ [MailingOf(p, d, y, t, l) EXCEPT !.to = v] = MailingOf(p, d, y, v, l)
        /\ [MailingOf(p, d, y, t, l) EXCEPT !.last = v] = MailingOf(p, d, y, t, v)
BY DEF MailingOf

LEMMA FieldsSet ==
    ASSUME NEW z \in Mailing, NEW p
    PROVE  /\ [z EXCEPT !.pc = p] = MailingOf(p, z.of, z.mail, z.to, z.last)
           /\ \A y : [z EXCEPT !.pc = p, !.mail = y] = MailingOf(p, z.of, y, z.to, z.last)
           /\ \A t : [z EXCEPT !.pc = p, !.to = t] = MailingOf(p, z.of, z.mail, t, z.last)
<1> DEFINE z1 == [z EXCEPT !.pc = p]
<1>1. z1 = MailingOf(p, z.of, z.mail, z.to, z.last)
  BY MailingFields, FieldSet
<1>2. ASSUME NEW y
      PROVE  [z EXCEPT !.pc = p, !.mail = y] = MailingOf(p, z.of, y, z.to, z.last)
  <2> DEFINE z2 == [z1 EXCEPT !.mail = y]
  <2> HIDE DEF z1
  <2>1. z2 = MailingOf(p, z.of, y, z.to, z.last)
    BY <1>1, FieldSet
  <2> QED
    BY <2>1 DEF z1, z2
<1>3. ASSUME NEW t
      PROVE  [z EXCEPT !.pc = p, !.to = t] = MailingOf(p, z.of, z.mail, t, z.last)
  <2> DEFINE z2 == [z1 EXCEPT !.to = t]
  <2> HIDE DEF z1
  <2>1. z2 = MailingOf(p, z.of, z.mail, t, z.last)
    BY <1>1, FieldSet
  <2> QED
    BY <2>1 DEF z1, z2
<1> QED
  BY <1>1, <1>2, <1>3

LEMMA GotoLemma ==
    ASSUME TypeOK, NEW m \in Mailings, NEW p \in Pcs, Goto(m, p)
    PROVE  Becomes(m, MailingOf(p, mailing[m].of, mailing[m].mail, mailing[m].to,
                                mailing[m].last))
<1> DEFINE x == MailingOf(p, mailing[m].of, mailing[m].mail, mailing[m].to, mailing[m].last)
<1>1. mailing[m] \in Mailing /\ mailing \in [Mailings -> Mailing]
  BY DEF TypeOK
<1>2. x \in Mailing
  BY <1>1, MailingFields, MailingType
<1>3. mailing' = [mailing EXCEPT ![m] = x]
  <2>1. mailing' = [mailing EXCEPT ![m] = [mailing[m] EXCEPT !.pc = p]]
    BY <1>1 DEF Goto
  <2> QED
    BY <1>1, <2>1, FieldsSet
<1> HIDE DEF x
<1>4. Becomes(m, x)
  BY <1>2, <1>3, BecomesLemma
<1> QED
  BY <1>4 DEF x

LEMMA SaysType ==
    ASSUME TypeOK, NEW m \in Mailings
    PROVE  /\ Says(m) \in Mail /\ Says(m).kind = mailing[m].mail.kind
           /\ mailing[m].of \in Defenses => Says(m).date = defense[mailing[m].of].date
<1>1. mailing[m].mail \in Mail
  BY MailingFields DEF TypeOK
<1>2. \A d \in Defenses : defense[d].date \in Days
  BY DEF TypeOK
<1> QED
  BY <1>1, <1>2, Sets DEF Says, Mail

LEMMA ReadLemma ==
    ASSUME TypeOK, NEW m \in Mailings, Read(m)
    PROVE  Becomes(m, MailingOf("create", mailing[m].of, Says(m), mailing[m].to,
                                mailing[m].last))
<1> DEFINE y == Says(m)
           x == MailingOf("create", mailing[m].of, y, mailing[m].to, mailing[m].last)
<1>1. mailing[m] \in Mailing /\ mailing \in [Mailings -> Mailing]
  BY DEF TypeOK
<1>2. y \in Mail
  BY SaysType
<1>3. mailing' = [mailing EXCEPT ![m].pc = "create", ![m].mail = y]
  BY DEF Read
<1> HIDE DEF y
<1>4. x \in Mailing
  BY <1>1, <1>2, MailingFields, MailingType DEF Pcs
<1>5. mailing' = [mailing EXCEPT ![m] = x]
  <2>1. mailing' = [mailing EXCEPT ![m] = [mailing[m] EXCEPT !.pc = "create", !.mail = y]]
    BY <1>1, <1>3
  <2> QED
    BY <1>1, <2>1, FieldsSet
<1> HIDE DEF x
<1>6. Becomes(m, x)
  BY <1>4, <1>5, BecomesLemma
<1> QED
  BY <1>6 DEF x, y

LEMMA NextMailLemma ==
    ASSUME TypeOK, NEW m \in Mailings,
           mailing' = [mailing EXCEPT ![m].pc = "create", ![m].to = @ + 1],
           mailing[m].to <= mailing[m].last, ~AtLast(m)
    PROVE  Becomes(m, MailingOf("create", mailing[m].of, mailing[m].mail, mailing[m].to + 1,
                                mailing[m].last))
<1> DEFINE t == mailing[m].to + 1
           x == MailingOf("create", mailing[m].of, mailing[m].mail, t, mailing[m].last)
<1>1. mailing[m] \in Mailing /\ mailing \in [Mailings -> Mailing]
  BY DEF TypeOK
<1>2. t \in Participants
  BY <1>1, MailingFields DEF Participants, AtLast
<1>3. mailing' = [mailing EXCEPT ![m].pc = "create", ![m].to = t]
  BY <1>1
<1> HIDE DEF t
<1>4. x \in Mailing
  BY <1>1, <1>2, MailingFields, MailingType DEF Pcs
<1>5. mailing' = [mailing EXCEPT ![m] = x]
  <2>1. mailing' = [mailing EXCEPT ![m] = [mailing[m] EXCEPT !.pc = "create", !.to = t]]
    BY <1>1, <1>3
  <2>2. [mailing[m] EXCEPT !.pc = "create", !.to = t] = x
    BY <1>1, FieldsSet
  <2> QED
    BY <2>1, <2>2, Zenon
<1> HIDE DEF x
<1>6. Becomes(m, x)
  BY <1>4, <1>5, BecomesLemma
<1> QED
  BY <1>6 DEF x, t

LEMMA UnstartedLemma ==
    /\ Unstarted = MailingOf("idle", NoMailing, NoMail, 1, 1)
    /\ [Unstarted EXCEPT !.pc = "over"] = MailingOf("over", NoMailing, NoMail, 1, 1)
    /\ NoMail \in Mail /\ NoMail.date = 0 /\ Unstarted \in Mailing
BY Sets DEF Unstarted, MailingOf, NoMail, Mail, Mailing

Ended == MailingOf("over", NoMailing, NoMail, 1, 1)

LEMMA FinishLemma ==
    ASSUME TypeOK, NEW m \in Mailings, NEW how, Finish(m, how)
    PROVE  Becomes(m, Ended)
<1>1. mailing' = [mailing EXCEPT ![m] = Ended]
  BY UnstartedLemma DEF Finish, Ended
<1>2. Ended \in Mailing
  BY UnstartedLemma, MailingType, Sets DEF Ended, Pcs
<1> QED
  BY <1>1, <1>2, BecomesLemma

LEMMA StartLemma ==
    ASSUME TypeOK, NEW d \in Defenses \cup {NoMailing}, NEW kind \in Kinds \cup {"none"},
           NEW last \in Participants, Start(d, kind, last)
    PROVE  /\ started + 1 \in Mailings
           /\ Becomes(started + 1, MailingOf("read", d, [kind |-> kind, date |-> 0], 1, last))
<1> DEFINE x == MailingOf("read", d, [kind |-> kind, date |-> 0], 1, last)
<1>1. started + 1 \in Mailings
  BY DEF Start, TypeOK, Mailings
<1>2. [Unstarted EXCEPT !.pc = "read", !.of = d, !.mail.kind = kind, !.last = last] = x
  <2> DEFINE y == [NoMail EXCEPT !.kind = kind]
             u1 == [Unstarted EXCEPT !.pc = "read"]
             u2 == [u1 EXCEPT !.of = d]
             u3 == [u2 EXCEPT !.mail = y]
             u4 == [u3 EXCEPT !.last = last]
  <2>1. u1 = MailingOf("read", NoMailing, NoMail, 1, 1)
    BY UnstartedLemma, FieldSet
  <2> HIDE DEF u1
  <2>2. u2 = MailingOf("read", d, NoMail, 1, 1)
    BY <2>1, FieldSet
  <2> HIDE DEF u2, y
  <2>3. u3 = MailingOf("read", d, y, 1, 1)
    BY <2>2, FieldSet
  <2> HIDE DEF u3
  <2>4. u4 = MailingOf("read", d, y, 1, last)
    BY <2>3, FieldSet
  <2>5. y = [kind |-> kind, date |-> 0]
    BY DEF y, NoMail
  <2>6. Unstarted.mail = NoMail
    BY DEF Unstarted
  <2>7. [Unstarted EXCEPT !.pc = "read", !.of = d, !.mail.kind = kind, !.last = last]
          = [Unstarted EXCEPT !.pc = "read", !.of = d, !.mail = y, !.last = last]
    BY <2>6 DEF y
  <2>8. [Unstarted EXCEPT !.pc = "read", !.of = d, !.mail = y, !.last = last] = u4
    BY DEF u1, u2, u3
  <2> QED
    BY <2>4, <2>5, <2>7, <2>8
<1>3. [kind |-> kind, date |-> 0] \in Mail
  BY Sets DEF Mail
<1>4. x \in Mailing
  BY <1>3, Sets, MailingType DEF Pcs
<1>5. mailing' = [mailing EXCEPT ![started + 1] = x]
  BY <1>2 DEF Start
<1> HIDE DEF x
<1>6. Becomes(started + 1, x)
  BY <1>1, <1>4, <1>5, BecomesLemma
<1> QED
  BY <1>1, <1>6 DEF x
-----------------------------------------------------------------------------
(* What a step makes of a mail's row, of what was delivered, and of the    *)
(* reminder that waits for a mailing.                                      *)

RowBecomes(m, s) ==
    /\ row' \in [Mailings -> [Participants -> RowStatus]]
    /\ \A q \in Mailings : q # m => row'[q] = row[q]
    /\ \A p \in Participants : row'[m][p] = IF p = mailing[m].to THEN s ELSE row[m][p]

LEMMA SetRowLemma ==
    ASSUME TypeOK, NEW m \in Mailings, NEW s \in RowStatus, SetRow(m, s)
    PROVE  RowBecomes(m, s)
<1> DEFINE r == row[m]
           t == mailing[m].to
           z == [r EXCEPT ![t] = s]
<1>1. row \in [Mailings -> [Participants -> RowStatus]] /\ r \in [Participants -> RowStatus]
  BY DEF TypeOK
<1>2. t \in Participants
  BY MailingFields DEF TypeOK
<1>3. row' = [row EXCEPT ![m] = z]
  BY <1>1 DEF SetRow
<1>4. z \in [Participants -> RowStatus] /\ \A p \in Participants : z[p] = IF p = t THEN s ELSE r[p]
  <2> HIDE DEF r, t
  <2> QED
    BY <1>1, <1>2
<1> HIDE DEF z
<1>5. row' \in [Mailings -> [Participants -> RowStatus]] /\ row'[m] = z
  BY <1>1, <1>3, <1>4
<1>6. \A q \in Mailings : q # m => row'[q] = row[q]
  BY <1>1, <1>3
<1> QED
  BY <1>4, <1>5, <1>6 DEF RowBecomes

DeliveredBecomes(m) ==
    /\ delivered' \in [Mailings -> SUBSET Participants]
    /\ delivered'[m] = delivered[m] \cup {mailing[m].to}
    /\ \A q \in Mailings : q # m => delivered'[q] = delivered[q]

InboxBecomes(m) ==
    /\ inbox' \in [Defenses -> [Participants -> Mail]]
    /\ \A d \in Defenses : d # mailing[m].of => inbox'[d] = inbox[d]
    /\ \A d \in Defenses, p \in Participants :
          d = mailing[m].of =>
             inbox'[d][p] = IF p = mailing[m].to THEN mailing[m].mail ELSE inbox[d][p]

LEMMA DeliverLemma ==
    ASSUME TypeOK, NEW m \in Mailings, Deliver(m)
    PROVE  DeliveredBecomes(m) /\ InboxBecomes(m)
<1> DEFINE t == mailing[m].to
           e == mailing[m].of
           y == mailing[m].mail
<1>1. /\ t \in Participants /\ y \in Mail /\ delivered \in [Mailings -> SUBSET Participants]
      /\ inbox \in [Defenses -> [Participants -> Mail]]
  BY MailingFields DEF TypeOK
<1>2. /\ delivered' = [delivered EXCEPT ![m] = @ \cup {t}]
      /\ inbox' = IF e \in Defenses THEN [inbox EXCEPT ![e][t] = y] ELSE inbox
  BY DEF Deliver
<1> HIDE DEF t, e, y
<1>3. /\ delivered' \in [Mailings -> SUBSET Participants]
      /\ delivered'[m] = delivered[m] \cup {t}
      /\ \A q \in Mailings : q # m => delivered'[q] = delivered[q]
  BY <1>1, <1>2
<1>4. /\ inbox' \in [Defenses -> [Participants -> Mail]]
      /\ \A d \in Defenses : d # e => inbox'[d] = inbox[d]
      /\ \A d \in Defenses, p \in Participants :
            d = e => inbox'[d][p] = IF p = t THEN y ELSE inbox[d][p]
  <2>1. CASE e \notin Defenses
    BY <1>1, <1>2, <2>1
  <2>2. CASE e \in Defenses
    <3> DEFINE z == [inbox[e] EXCEPT ![t] = y]
    <3>1. inbox[e] \in [Participants -> Mail]
      BY <1>1, <2>2
    <3>2. z \in [Participants -> Mail]
          /\ \A p \in Participants : z[p] = IF p = t THEN y ELSE inbox[e][p]
      BY <1>1, <3>1
    <3>3. inbox' = [inbox EXCEPT ![e] = z]
      BY <1>1, <1>2, <2>2
    <3> HIDE DEF z
    <3>4. inbox' \in [Defenses -> [Participants -> Mail]] /\ inbox'[e] = z
      BY <1>1, <2>2, <3>2, <3>3
    <3>5. \A d \in Defenses : d # e => inbox'[d] = inbox[d]
      BY <1>1, <3>3
    <3> QED
      BY <3>2, <3>4, <3>5
  <2> QED
    BY <2>1, <2>2
<1> QED
  BY <1>3, <1>4 DEF DeliveredBecomes, InboxBecomes, t, e, y

\* What is left of the reminder when mailing m ends.
ReminderEnds(m, how) ==
    /\ waiting' = NoMailing
    /\ todo' = todo \ {mailing[m].of}
    /\ notified' = IF how = "done" THEN notified \cup {mailing[m].of} ELSE notified
    /\ \A d \in Defenses :
          reminder'[d] = IF d # mailing[m].of THEN reminder[d]
                         ELSE IF how = "done" THEN "sent" ELSE "failed"

LEMMA FinishClock ==
    ASSUME TypeOK, RemindOK, NEW m \in Mailings, NEW how, Finish(m, how)
    PROVE  /\ waiting = m => mailing[m].of \in todo /\ ReminderEnds(m, how)
           /\ waiting # m => UNCHANGED <<waiting, todo, notified, reminder>>
           /\ pass' = pass /\ today' = today
           /\ waiting' \in Mailings \cup {NoMailing} /\ todo' \subseteq Defenses
           /\ notified' \subseteq Defenses
           /\ reminder' \in [Defenses -> {"none", "owed", "sent", "failed"}]
           /\ disturbed \subseteq disturbed' /\ disturbed' \subseteq Defenses
           /\ how = "failed" /\ mailing[m].of \in Defenses => mailing[m].of \in disturbed'
<1>1. /\ reminder \in [Defenses -> {"none", "owed", "sent", "failed"}]
      /\ waiting \in Mailings \cup {NoMailing} /\ todo \subseteq Defenses
      /\ notified \subseteq Defenses /\ disturbed \subseteq Defenses
  BY DEF TypeOK
<1>2. /\ pass' = pass /\ today' = today
      /\ disturbed' = IF how = "failed" THEN disturbed \cup (Defenses \cap {mailing[m].of})
                                        ELSE disturbed
  BY DEF Finish
<1>3. CASE waiting = m
  <2>1. mailing[m].of \in todo
    BY <1>3, Sets DEF RemindOK
  <2>2. /\ waiting' = NoMailing /\ todo' = todo \ {mailing[m].of}
        /\ notified' = IF how = "done" THEN notified \cup {mailing[m].of} ELSE notified
        /\ reminder' = [reminder EXCEPT ![mailing[m].of] =
                          IF how = "done" THEN "sent" ELSE "failed"]
    BY <1>3 DEF Finish
  <2> QED
    BY <1>1, <1>2, <1>3, <2>1, <2>2 DEF ReminderEnds
<1>4. CASE waiting # m
  <2>1. UNCHANGED <<waiting, todo, notified, reminder>>
    BY <1>4 DEF Finish
  <2> QED
    BY <1>1, <1>2, <1>4, <2>1
<1> QED
  BY <1>3, <1>4
-----------------------------------------------------------------------------
(* The rows, and what was delivered (MailsOK): a step of one mailing.      *)

RowsTrue(m) ==
    \A p \in Participants :
        /\ row[m][p] = "SENT" => p \in delivered[m]
        /\ row[m][p] = "RETRY" /\ m \notin doubt => p \notin delivered[m]

LEMMA RowsTrueLemma == StatusIsTrue <=> \A m \in Mailings : RowsTrue(m)
BY DEF StatusIsTrue, RowsTrue

LEMMA OneMailKeeps ==
    ASSUME TypeOK, MailsOK, NEW m \in Mailings, started' = started, doubt \subseteq doubt',
           \A q \in Mailings : q # m =>
              mailing'[q] = mailing[q] /\ row'[q] = row[q] /\ delivered'[q] = delivered[q],
           MailOK(m)', RowsTrue(m)'
    PROVE  MailsOK'
<1>1. \A q \in Mailings : MailOK(q) /\ RowsTrue(q)
  BY RowsTrueLemma DEF MailsOK
<1>2. ASSUME NEW q \in Mailings, q # m
      PROVE  MailOK(q)' /\ RowsTrue(q)'
  <2>1. /\ mailing'[q] = mailing[q] /\ row'[q] = row[q] /\ delivered'[q] = delivered[q]
        /\ MailOK(q) /\ RowsTrue(q)
    BY <1>1, <1>2
  <2>2. RowsTrue(q)'
    BY <2>1 DEF RowsTrue
  <2>3. MailOK(q)'
    BY <2>1 DEF MailOK, At, Over
  <2> QED
    BY <2>2, <2>3
<1>3. \A q \in Mailings : MailOK(q)' /\ RowsTrue(q)'
  BY <1>2
<1>4. StatusIsTrue'
  BY <1>3 DEF StatusIsTrue, RowsTrue
<1> QED
  BY <1>3, <1>4 DEF MailsOK

LEMMA MailFacts ==
    ASSUME TypeOK, MailsOK, NEW m \in Mailings
    PROVE  /\ MailOK(m) /\ RowsTrue(m)
           /\ mailing[m] \in Mailing /\ mailing[m].to \in Participants
           /\ mailing[m].last \in Participants /\ started \in Nat
           /\ row[m] \in [Participants -> RowStatus] /\ delivered[m] \subseteq Participants
BY RowsTrueLemma, MailingFields DEF MailsOK, TypeOK

LEMMA EndedFields ==
    /\ Ended.pc = "over" /\ Ended.of = NoMailing /\ Ended.to = 1 /\ Ended.last = 1
    /\ Ended \in Mailing
BY UnstartedLemma, MailingType, Sets DEF Ended, MailingOf, Pcs

LEMMA EndedMailOK ==
    ASSUME TypeOK, NEW m \in Mailings, MailOK(m), ~At(m, "idle"), started' = started,
           mailing'[m] = Ended
    PROVE  MailOK(m)'
BY EndedFields DEF MailOK, At, Over

LEMMA MailsRead ==
    ASSUME TypeOK, MailsOK, NEW m \in Mailings, Read(m)
    PROVE  MailsOK'
<1>1. /\ UNCHANGED <<started, row, delivered, doubt>> /\ At(m, "read")
      /\ Becomes(m, MailingOf("create", mailing[m].of, Says(m), mailing[m].to,
                              mailing[m].last))
  BY ReadLemma DEF Read
<1>2. /\ mailing'[m].pc = "create" /\ mailing'[m].to = mailing[m].to
      /\ mailing'[m].last = mailing[m].last
  BY <1>1 DEF Becomes, MailingOf
<1>3. MailOK(m)' /\ RowsTrue(m)'
  BY <1>1, <1>2, MailFacts DEF MailOK, RowsTrue, At, Over
<1> QED
  BY <1>1, <1>3, OneMailKeeps DEF Becomes

LEMMA MailsCreate ==
    ASSUME TypeOK, MailsOK, NEW m \in Mailings, CreateRow(m)
    PROVE  MailsOK'
<1>1. UNCHANGED <<started, delivered>> /\ At(m, "create")
  BY DEF CreateRow
<1>2. CASE SetRow(m, "PROCESSING") /\ Goto(m, "smtp") /\ UNCHANGED doubt
  <2>1. Becomes(m, MailingOf("smtp", mailing[m].of, mailing[m].mail, mailing[m].to,
                             mailing[m].last))
    BY <1>2, GotoLemma DEF Pcs
  <2>2. /\ mailing'[m].pc = "smtp" /\ mailing'[m].to = mailing[m].to
        /\ mailing'[m].last = mailing[m].last
    BY <2>1 DEF Becomes, MailingOf
  <2>3. RowBecomes(m, "PROCESSING")
    BY <1>2, SetRowLemma DEF RowStatus
  <2>4. MailOK(m)'
    BY <1>1, <1>2, <2>2, <2>3, MailFacts DEF MailOK, RowBecomes, At, Over, Unsettled
  <2>5. RowsTrue(m)'
    BY <1>1, <1>2, <2>3, MailFacts DEF RowsTrue, RowBecomes
  <2> QED
    BY <1>1, <1>2, <2>1, <2>3, <2>4, <2>5, OneMailKeeps DEF Becomes, RowBecomes
<1>3. CASE (SetRow(m, "PENDING") \/ UNCHANGED row) /\ doubt' = doubt \cup {m}
           /\ Finish(m, "failed")
  <2>1. Becomes(m, Ended)
    BY <1>3, FinishLemma
  <2>2. MailOK(m)'
    BY <1>1, <2>1, MailFacts, EndedMailOK DEF Becomes, At
  <2>3. /\ \A q \in Mailings : q # m => row'[q] = row[q]
        /\ \A p \in Participants : row'[m][p] \in {row[m][p], "PENDING"}
    BY <1>3, SetRowLemma DEF RowBecomes, RowStatus
  <2>4. RowsTrue(m)'
    BY <1>1, <1>3, <2>3, MailFacts DEF RowsTrue
  <2> QED
    BY <1>1, <1>3, <2>1, <2>2, <2>3, <2>4, OneMailKeeps DEF Becomes
<1> QED
  BY <1>2, <1>3 DEF CreateRow

LEMMA MailsSmtp ==
    ASSUME TypeOK, MailsOK, NEW m \in Mailings, Smtp(m)
    PROVE  MailsOK'
<1>1. UNCHANGED <<started, row>> /\ At(m, "smtp")
  BY DEF Smtp
<1>2. ASSUME NEW p \in {"mark", "retry"}, Goto(m, p)
      PROVE  /\ mailing'[m].pc = p /\ mailing'[m].to = mailing[m].to
             /\ mailing'[m].last = mailing[m].last
             /\ \A q \in Mailings : q # m => mailing'[q] = mailing[q]
  <2>1. p \in Pcs
    BY <1>2 DEF Pcs
  <2>2. Becomes(m, MailingOf(p, mailing[m].of, mailing[m].mail, mailing[m].to,
                             mailing[m].last))
    BY <1>2, <2>1, GotoLemma
  <2> QED
    BY <2>2 DEF Becomes, MailingOf
<1>3. CASE Deliver(m) /\ Goto(m, "mark") /\ UNCHANGED doubt
  <2>1. DeliveredBecomes(m)
    BY <1>3, DeliverLemma
  <2>2. MailOK(m)' /\ RowsTrue(m)'
    BY <1>1, <1>2, <1>3, <2>1, MailFacts, Sets
    DEF MailOK, RowsTrue, DeliveredBecomes, At, Over, Unsettled
  <2> QED
    BY <1>1, <1>2, <1>3, <2>1, <2>2, OneMailKeeps DEF DeliveredBecomes
<1>4. CASE Deliver(m) /\ Goto(m, "retry") /\ doubt' = doubt \cup {m}
  <2>1. DeliveredBecomes(m)
    BY <1>4, DeliverLemma
  <2>2. MailOK(m)' /\ RowsTrue(m)'
    BY <1>1, <1>2, <1>4, <2>1, MailFacts, Sets
    DEF MailOK, RowsTrue, DeliveredBecomes, At, Over, Unsettled
  <2> QED
    BY <1>1, <1>2, <1>4, <2>1, <2>2, OneMailKeeps DEF DeliveredBecomes
<1>5. CASE Goto(m, "retry") /\ UNCHANGED <<delivered, inbox, doubt>>
  <2>1. MailOK(m)' /\ RowsTrue(m)'
    BY <1>1, <1>2, <1>5, MailFacts DEF MailOK, RowsTrue, At, Over
  <2> QED
    BY <1>1, <1>2, <1>5, <2>1, OneMailKeeps
<1> QED
  BY <1>3, <1>4, <1>5 DEF Smtp, AfterSmtp
LEMMA MailsMark ==
    ASSUME TypeOK, MailsOK, NEW m \in Mailings, MarkSent(m)
    PROVE  MailsOK'
<1>1. UNCHANGED <<started, delivered>> /\ At(m, "mark")
  BY DEF MarkSent
<1>2. CASE /\ SetRow(m, "SENT") /\ UNCHANGED doubt
           /\ \/ AtLast(m) /\ Finish(m, "done")
              \/ /\ ~AtLast(m)
                 /\ mailing' = [mailing EXCEPT ![m].pc = "create", ![m].to = @ + 1]
  <2>1. RowBecomes(m, "SENT")
    BY <1>2, SetRowLemma DEF RowStatus
  <2>2. RowsTrue(m)'
    BY <1>1, <1>2, <2>1, MailFacts DEF RowsTrue, RowBecomes, MailOK
  <2>3. CASE AtLast(m) /\ Finish(m, "done")
    <3>1. Becomes(m, Ended)
      BY <2>3, FinishLemma
    <3>2. MailOK(m)'
      BY <1>1, <3>1, MailFacts, EndedMailOK DEF Becomes, At
    <3> QED
      BY <1>1, <1>2, <2>1, <2>2, <3>1, <3>2, OneMailKeeps DEF Becomes, RowBecomes
  <2>4. CASE ~AtLast(m) /\ mailing' = [mailing EXCEPT ![m].pc = "create", ![m].to = @ + 1]
    <3>1. mailing[m].to <= mailing[m].last
      BY MailFacts DEF MailOK
    <3>2. Becomes(m, MailingOf("create", mailing[m].of, mailing[m].mail, mailing[m].to + 1,
                               mailing[m].last))
      BY <2>4, <3>1, NextMailLemma
    <3>3. /\ mailing'[m].pc = "create" /\ mailing'[m].to = mailing[m].to + 1
          /\ mailing'[m].last = mailing[m].last
          /\ mailing'[m].to \in Participants
      BY <3>2, MailingFields DEF Becomes, MailingOf, Mailing
    <3>4. MailOK(m)'
      <4> DEFINE t == mailing[m].to
                 l == mailing[m].last
      <4>1. /\ t \in Nat /\ l \in Nat /\ t + 1 <= l /\ t + 1 \in Participants
            /\ \A p \in Participants : p \in Nat
        BY <2>4, <3>1, <3>3, MailFacts, Sets DEF AtLast
      <4>2. ~(m > started)
        BY <1>1, MailFacts DEF MailOK, At
      <4>3. \A p \in Participants :
               p > t => p \notin delivered'[m] /\ Unsettled(row'[m][p])
        BY <1>1, <2>1, <4>1, MailFacts DEF MailOK, RowBecomes, At, Over
      <4> HIDE DEF t, l
      <4>4. \A p \in Participants :
               p > t + 1 \/ p = t + 1 => p \notin delivered'[m] /\ Unsettled(row'[m][p])
        BY <4>1, <4>3
      <4>5. mailing'[m].to = t + 1 /\ mailing'[m].last = l /\ mailing'[m].pc = "create"
        BY <3>3 DEF t, l
      <4> QED
        BY <1>1, <4>1, <4>2, <4>4, <4>5 DEF MailOK, At, Over
    <3> QED
      BY <1>1, <1>2, <2>1, <2>2, <3>2, <3>4, OneMailKeeps DEF Becomes, RowBecomes
  <2> QED
    BY <1>2, <2>3, <2>4
<1>3. CASE /\ Goto(m, "retry") /\ doubt' = doubt \cup {m} /\ UNCHANGED row
  <2>1. Becomes(m, MailingOf("retry", mailing[m].of, mailing[m].mail, mailing[m].to,
                             mailing[m].last))
    BY <1>3, GotoLemma DEF Pcs
  <2>2. /\ mailing'[m].pc = "retry" /\ mailing'[m].to = mailing[m].to
        /\ mailing'[m].last = mailing[m].last
    BY <2>1 DEF Becomes, MailingOf
  <2>3. MailOK(m)' /\ RowsTrue(m)'
    BY <1>1, <1>3, <2>2, MailFacts DEF MailOK, RowsTrue, At, Over
  <2> QED
    BY <1>1, <1>3, <2>1, <2>3, OneMailKeeps DEF Becomes
<1> QED
  BY <1>2, <1>3 DEF MarkSent

LEMMA MailsRetry ==
    ASSUME TypeOK, MailsOK, NEW m \in Mailings, HandleError(m)
    PROVE  MailsOK'
<1>1. UNCHANGED <<started, delivered>> /\ At(m, "retry") /\ Finish(m, "failed")
  BY DEF HandleError
<1>2. Becomes(m, Ended)
  BY <1>1, FinishLemma
<1>3. MailOK(m)'
  BY <1>1, <1>2, MailFacts, EndedMailOK DEF Becomes, At
<1>4. /\ doubt \subseteq doubt' /\ RowsTrue(m)'
      /\ \A q \in Mailings : q # m => row'[q] = row[q]
  <2>1. CASE SetRow(m, AfterError(m)) /\ UNCHANGED doubt
    <3>1. AfterError(m) = "RETRY"
      BY DEF AfterError, CanRetry
    <3>2. RowBecomes(m, "RETRY")
      BY <2>1, <3>1, SetRowLemma DEF RowStatus
    <3> QED
      BY <1>1, <2>1, <3>2, MailFacts DEF RowsTrue, RowBecomes, MailOK
  <2>2. CASE doubt' = doubt \cup {m} /\ UNCHANGED row
    BY <1>1, <2>2, MailFacts DEF RowsTrue
  <2> QED
    BY <2>1, <2>2 DEF HandleError
<1> QED
  BY <1>1, <1>2, <1>3, <1>4, OneMailKeeps DEF Becomes

LEMMA MailsStart ==
    ASSUME TypeOK, MailsOK, NEW d \in Defenses \cup {NoMailing},
           NEW kind \in Kinds \cup {"none"}, NEW last \in Participants, Start(d, kind, last)
    PROVE  MailsOK'
<1>0. PICK n \in Mailings : n = started + 1
  BY StartLemma
<1>1. Becomes(n, MailingOf("read", d, [kind |-> kind, date |-> 0], 1, last))
  BY <1>0, StartLemma
<1>2. /\ started' = n /\ UNCHANGED <<row, delivered, doubt>> /\ started \in Nat
  BY <1>0 DEF Start, TypeOK
<1>3. /\ mailing'[n].pc = "read" /\ mailing'[n].to = 1 /\ mailing'[n].last = last
      /\ \A q \in Mailings : q # n => mailing'[q] = mailing[q]
  BY <1>1 DEF Becomes, MailingOf
<1>4. MailOK(n) /\ At(n, "idle")
  BY <1>0, MailFacts, Sets DEF MailOK
<1>5. MailOK(n)'
  <2>1. 1 <= last /\ 1 \in Participants
    BY DEF Participants
  <2>2. ~(n > started')
    BY <1>2, Sets
  <2>3. \A p \in Participants : p \notin delivered'[n] /\ Unsettled(row'[n][p])
    BY <1>2, <1>4 DEF MailOK
  <2> QED
    BY <1>3, <2>1, <2>2, <2>3 DEF MailOK, At, Over
<1>6. ASSUME NEW q \in Mailings, q # n
      PROVE  MailOK(q)'
  <2>1. MailOK(q) /\ mailing'[q] = mailing[q] /\ q \in Nat
    BY <1>3, <1>6, MailFacts, Sets
  <2>2. q > started' <=> q > started
    BY <1>0, <1>2, <1>6, <2>1
  <2> QED
    BY <1>2, <2>1, <2>2 DEF MailOK, At, Over
<1>7. StatusIsTrue'
  BY <1>2 DEF MailsOK, StatusIsTrue
<1>8. \A q \in Mailings : MailOK(q)'
  BY <1>5, <1>6
<1> QED
  BY <1>7, <1>8 DEF MailsOK

LEMMA MailsKept ==
    ASSUME MailsOK, UNCHANGED <<mails, doubt>>
    PROVE  MailsOK'
BY DEF MailsOK, StatusIsTrue, MailOK, At, Over, mails

LEMMA RestartMailings ==
    ASSUME TypeOK, Restart, NEW m \in Mailings
    PROVE  /\ Over(m) => mailing'[m] = mailing[m]
           /\ ~Over(m) => mailing'[m] = Ended /\ m \in doubt'
           /\ mailing'[m] \in Mailing
<1> DEFINE cut == {q \in Mailings : ~Over(q)}
<1>1. /\ mailing' = [q \in Mailings |-> IF q \in cut THEN Ended ELSE mailing[q]]
      /\ doubt' = doubt \cup cut
  BY UnstartedLemma DEF Restart, Ended
<1>2. mailing[m] \in Mailing
  BY DEF TypeOK
<1> QED
  BY <1>1, <1>2, EndedFields

LEMMA MailsRestart ==
    ASSUME TypeOK, MailsOK, Restart
    PROVE  MailsOK'
<1>1. UNCHANGED <<started, row, delivered>> /\ doubt \subseteq doubt'
  BY DEF Restart
<1>2. ASSUME NEW m \in Mailings
      PROVE  MailOK(m)' /\ RowsTrue(m)'
  <2>1. RowsTrue(m)'
    BY <1>1, MailFacts DEF RowsTrue
  <2>2. CASE Over(m)
    <3>1. mailing'[m] = mailing[m]
      BY <2>2, RestartMailings
    <3> QED
      BY <1>1, <2>1, <3>1, MailFacts DEF MailOK, At, Over
  <2>3. CASE ~Over(m)
    <3>1. mailing'[m] = Ended /\ ~At(m, "idle")
      BY <2>3, RestartMailings DEF Over, At
    <3> QED
      BY <1>1, <2>1, <3>1, MailFacts, EndedMailOK
  <2> QED
    BY <2>2, <2>3
<1>3. StatusIsTrue'
  BY <1>2 DEF StatusIsTrue, RowsTrue
<1> QED
  BY <1>2, <1>3 DEF MailsOK
-----------------------------------------------------------------------------
(* A step of a mailing: it goes on or it ends.                             *)

GoesOn(m) ==
    /\ UNCHANGED <<clock, disturbed>>
    /\ \E x \in Mailing : /\ Becomes(m, x)
                          /\ x.pc \notin {"idle", "over"} /\ x.of = mailing[m].of

LEMMA StepsOn ==
    ASSUME TypeOK, NEW m \in Mailings, UNCHANGED <<clock, disturbed>>,
           NEW p \in Pcs \ {"idle", "over"}, NEW y \in Mail, NEW t \in Participants,
           Becomes(m, MailingOf(p, mailing[m].of, y, t, mailing[m].last))
    PROVE  GoesOn(m)
<1> DEFINE x == MailingOf(p, mailing[m].of, y, t, mailing[m].last)
<1>1. x \in Mailing
  BY MailingFields, MailingType DEF TypeOK
<1>2. x.pc = p /\ x.of = mailing[m].of
  BY DEF MailingOf
<1> HIDE DEF x
<1>3. Becomes(m, x)
  BY DEF x
<1> QED
  BY <1>1, <1>2, <1>3 DEF GoesOn

LEMMA MailStepCases ==
    ASSUME TypeOK, MailsOK, NEW m \in Mailings, MailStep(m)
    PROVE  /\ ~Over(m) /\ UNCHANGED <<defense, due, requests, started>>
           /\ GoesOn(m) \/ \E how \in {"done", "failed"} : Finish(m, how)
           /\ row' \in [Mailings -> [Participants -> RowStatus]]
           /\ delivered' \in [Mailings -> SUBSET Participants]
           /\ inbox' \in [Defenses -> [Participants -> Mail]]
           /\ doubt' \subseteq Mailings
<1>1. /\ row \in [Mailings -> [Participants -> RowStatus]]
      /\ delivered \in [Mailings -> SUBSET Participants]
      /\ inbox \in [Defenses -> [Participants -> Mail]]
      /\ doubt \subseteq Mailings /\ mailing[m].mail \in Mail /\ mailing[m].to \in Participants
  BY MailingFields DEF TypeOK
<1>2. UNCHANGED <<defense, due, requests>>
  BY DEF MailStep
<1>3. CASE Read(m)
  <2>1. GoesOn(m)
    BY <1>1, <1>3, ReadLemma, SaysType, StepsOn DEF Read, Pcs
  <2> QED
    BY <1>1, <1>2, <1>3, <2>1 DEF Read, At, Over
<1>4. CASE CreateRow(m)
  <2>1. ASSUME Goto(m, "smtp"), UNCHANGED <<clock, disturbed>>
        PROVE  GoesOn(m)
    BY <1>1, <2>1, GotoLemma, StepsOn DEF Pcs
  <2>2. row' \in [Mailings -> [Participants -> RowStatus]]
    BY <1>1, <1>4, SetRowLemma DEF CreateRow, RowBecomes, RowStatus
  <2> QED
    BY <1>1, <1>2, <1>4, <2>1, <2>2 DEF CreateRow, At, Over
<1>5. CASE Smtp(m)
  <2>1. UNCHANGED <<clock, disturbed>> /\ (Goto(m, "mark") \/ Goto(m, "retry"))
    BY <1>5 DEF Smtp, AfterSmtp
  <2>2. GoesOn(m)
    BY <1>1, <2>1, GotoLemma, StepsOn DEF Pcs
  <2>3. /\ delivered' \in [Mailings -> SUBSET Participants]
        /\ inbox' \in [Defenses -> [Participants -> Mail]]
    BY <1>1, <1>5, DeliverLemma DEF Smtp, DeliveredBecomes, InboxBecomes
  <2> QED
    BY <1>1, <1>2, <1>5, <2>2, <2>3 DEF Smtp, At, Over
<1>6. CASE MarkSent(m)
  <2>1. ASSUME Goto(m, "retry"), UNCHANGED <<clock, disturbed>>
        PROVE  GoesOn(m)
    BY <1>1, <2>1, GotoLemma, StepsOn DEF Pcs
  <2>2. ASSUME ~AtLast(m), UNCHANGED <<clock, disturbed>>,
               mailing' = [mailing EXCEPT ![m].pc = "create", ![m].to = @ + 1]
        PROVE  GoesOn(m)
    <3>1. mailing[m].to <= mailing[m].last
      BY MailFacts DEF MailOK
    <3>2. mailing[m].to + 1 \in Participants
      BY <2>2, <3>1, MailFacts DEF Participants, AtLast
    <3> QED
      BY <1>1, <2>2, <3>1, <3>2, NextMailLemma, StepsOn DEF Pcs
  <2>3. row' \in [Mailings -> [Participants -> RowStatus]]
    BY <1>1, <1>6, SetRowLemma DEF MarkSent, RowBecomes, RowStatus
  <2> QED
    BY <1>1, <1>2, <1>6, <2>1, <2>2, <2>3 DEF MarkSent, At, Over
<1>7. CASE HandleError(m)
  <2>1. row' \in [Mailings -> [Participants -> RowStatus]]
    BY <1>1, <1>7, SetRowLemma DEF HandleError, RowBecomes, RowStatus, AfterError
  <2> QED
    BY <1>1, <1>2, <1>7, <2>1 DEF HandleError, At, Over
<1> QED
  BY <1>3, <1>4, <1>5, <1>6, <1>7 DEF MailStep

-----------------------------------------------------------------------------
(* The reminder (RemindOK).                                                *)

LEMMA RemindKept ==
    ASSUME RemindOK, UNCHANGED clock,
           waiting # NoMailing =>
              ~Over(waiting)' /\ mailing'[waiting].of = mailing[waiting].of
    PROVE  RemindOK'
BY DEF RemindOK, clock, Over

LEMMA RemindFinish ==
    ASSUME TypeOK, RemindOK, NEW m \in Mailings, NEW how, Finish(m, how)
    PROVE  RemindOK'
<1>1. Becomes(m, Ended)
  BY FinishLemma
<1>2. CASE waiting = m
  <2>1. ReminderEnds(m, how) /\ pass' = pass /\ mailing[m].of \in todo
    BY <1>2, FinishClock
  <2>2. notified \cap todo = {} /\ \A d \in Defenses : reminder[d] = "owed" => d \in todo
    BY DEF RemindOK
  <2>3. pass = "running"
    BY <2>1 DEF RemindOK
  <2>4. notified' \cap todo' = {}
    BY <2>1, <2>2 DEF ReminderEnds
  <2>5. \A d \in Defenses : reminder'[d] = "owed" => d \in todo'
    BY <2>1, <2>2 DEF ReminderEnds
  <2>6. waiting' = NoMailing
    BY <2>1 DEF ReminderEnds
  <2> QED
    BY <2>1, <2>3, <2>4, <2>5, <2>6 DEF RemindOK
<1>3. CASE waiting # m
  <2>1. UNCHANGED clock
    BY <1>3, FinishClock DEF clock
  <2>2. waiting # NoMailing => mailing'[waiting] = mailing[waiting] /\ ~Over(waiting)
    BY <1>1, <1>3 DEF RemindOK, Becomes, TypeOK
  <2>3. waiting' = waiting
    BY <2>1 DEF clock
  <2>4. waiting # NoMailing =>
           ~Over(waiting)' /\ mailing'[waiting].of = mailing[waiting].of
    BY <2>2, <2>3 DEF Over
  <2> QED
    BY <2>1, <2>4, RemindKept
<1> QED
  BY <1>2, <1>3

LEMMA RemindMailStep ==
    ASSUME TypeOK, MailsOK, RemindOK, NEW m \in Mailings, MailStep(m)
    PROVE  RemindOK'
<1>1. CASE GoesOn(m)
  <2>1. PICK x \in Mailing : /\ Becomes(m, x)
                             /\ x.pc \notin {"idle", "over"} /\ x.of = mailing[m].of
    BY <1>1 DEF GoesOn
  <2>2. UNCHANGED clock /\ waiting' = waiting
    BY <1>1 DEF GoesOn, clock
  <2>3. waiting # NoMailing => waiting \in Mailings /\ ~Over(waiting)
    BY DEF RemindOK, TypeOK
  <2>4. waiting # NoMailing =>
           ~Over(waiting)' /\ mailing'[waiting].of = mailing[waiting].of
    BY <2>1, <2>2, <2>3 DEF Becomes, Over
  <2> QED
    BY <2>2, <2>4, RemindKept
<1>2. ASSUME NEW how \in {"done", "failed"}, Finish(m, how)
      PROVE  RemindOK'
  BY <1>2, RemindFinish
<1> QED
  BY <1>1, <1>2, MailStepCases

\* What starting a mailing does: number started + 1 was idle and is not.
LEMMA StartFacts ==
    ASSUME TypeOK, MailsOK, NEW d \in Defenses \cup {NoMailing},
           NEW kind \in Kinds \cup {"none"}, NEW last \in Participants, Start(d, kind, last)
    PROVE  \E n \in Mailings :
              /\ n = started + 1 /\ started' = n /\ Over(n)
              /\ mailing' \in [Mailings -> Mailing]
              /\ mailing'[n] = MailingOf("read", d, [kind |-> kind, date |-> 0], 1, last)
              /\ \A q \in Mailings : q # n => mailing'[q] = mailing[q]
              /\ UNCHANGED <<row, delivered, inbox, defense, requests, doubt, disturbed>>
<1>1. PICK n \in Mailings : n = started + 1
  BY StartLemma
<1>2. Becomes(n, MailingOf("read", d, [kind |-> kind, date |-> 0], 1, last))
  BY <1>1, StartLemma
<1>3. Over(n)
  BY <1>1, MailFacts, Sets DEF MailOK, At, Over
<1> QED
  BY <1>1, <1>2, <1>3 DEF Becomes, Start

LEMMA RemindStart ==
    ASSUME TypeOK, MailsOK, RemindOK, NEW d \in Defenses \cup {NoMailing},
           NEW kind \in Kinds \cup {"none"}, NEW last \in Participants, Start(d, kind, last),
           UNCHANGED clock
    PROVE  RemindOK'
<1>1. PICK n \in Mailings : /\ Over(n)
                            /\ \A q \in Mailings : q # n => mailing'[q] = mailing[q]
  BY StartFacts
<1>2. waiting # NoMailing =>
         waiting \in Mailings /\ ~Over(waiting) /\ mailing'[waiting] = mailing[waiting]
  BY <1>1 DEF RemindOK, TypeOK
<1>3. waiting' = waiting
  BY DEF clock
<1>4. waiting # NoMailing =>
         ~Over(waiting)' /\ mailing'[waiting].of = mailing[waiting].of
  BY <1>2, <1>3 DEF Over
<1> QED
  BY <1>4, RemindKept

LEMMA RemindRemindOne ==
    ASSUME TypeOK, MailsOK, RemindOK, NEW d \in Defenses, RemindOne(d)
    PROVE  RemindOK'
<1>1. /\ d \notin notified /\ d \in todo /\ pass = "running" /\ waiting' = started + 1
      /\ Start(d, "scheduled", LastParticipant)
      /\ UNCHANGED <<todo, today, pass, notified, reminder>>
  BY DEF RemindOK, RemindOne
<1>2. PICK n \in Mailings :
         /\ n = started + 1
         /\ mailing'[n] = MailingOf("read", d, [kind |-> "scheduled", date |-> 0], 1,
                                    LastParticipant)
  BY <1>1, Sets, StartFacts DEF Kinds
<1>3. waiting' = n /\ mailing'[n].pc = "read" /\ mailing'[n].of = d
  BY <1>1, <1>2 DEF MailingOf
<1>4. ~Over(waiting)' /\ mailing'[waiting'].of \in todo'
  BY <1>1, <1>3 DEF Over
<1> QED
  BY <1>1, <1>4 DEF RemindOK
LEMMA RemindClock ==
    ASSUME TypeOK, RemindOK, Remind \/ EndPass \/ Midnight
    PROVE  RemindOK'
<1>1. CASE Remind
  <2>1. /\ pass = "due" /\ pass' = "running" /\ todo' = {d \in Defenses : OfToday(d)}
        /\ UNCHANGED <<mailing, waiting, notified>>
        /\ reminder' = [d \in Defenses |-> IF OfToday(d) THEN "owed" ELSE "none"]
    BY <1>1 DEF Remind, mails
  <2>2. waiting = NoMailing /\ notified = {}
    BY <2>1 DEF RemindOK
  <2>3. \A d \in Defenses : reminder'[d] = "owed" => d \in todo'
    BY <2>1
  <2> QED
    BY <2>1, <2>2, <2>3 DEF RemindOK
<1>2. CASE EndPass
  BY <1>2 DEF EndPass, RemindOK, mails, Over
<1>3. CASE Midnight
  <2>1. /\ pass = "over" /\ pass' = "due" /\ notified' = {} /\ UNCHANGED <<todo, waiting>>
        /\ reminder' = [d \in Defenses |-> "none"]
    BY <1>3 DEF Midnight, Cleared
  <2>2. waiting = NoMailing /\ todo = {}
    BY <2>1 DEF RemindOK
  <2>3. \A d \in Defenses : reminder'[d] # "owed"
    BY <2>1
  <2> QED
    BY <2>1, <2>2, <2>3 DEF RemindOK
<1> QED
  BY <1>1, <1>2, <1>3

LEMMA RemindRestart ==
    ASSUME TypeOK, Restart
    PROVE  RemindOK'
<1>1. /\ todo' = {} /\ waiting' = NoMailing /\ notified' = {}
      /\ reminder' = [d \in Defenses |-> IF reminder[d] = "owed" THEN "failed" ELSE reminder[d]]
  BY DEF Restart
<1>2. \A d \in Defenses : reminder'[d] # "owed"
  BY <1>1
<1> QED
  BY <1>1, <1>2 DEF RemindOK

-----------------------------------------------------------------------------
(* The types (TypeOK).                                                     *)

LEMMA TypeChange ==
    ASSUME TypeOK, NEW d \in Defenses, NEW kinds \in SUBSET Kinds, NEW date \in Days,
           NEW status \in {"none", "SCHEDULED", "CANCELED", "COMPLETED"},
           Change(d, status, date, kinds), NEW when, Disturb(d, when), documents' \subseteq Defenses
    PROVE  TypeOK'
<1> DEFINE z == [status |-> status, date |-> date]
<1>1. /\ UNCHANGED <<mails, clock, doubt>> /\ changes < MaxChanges /\ changes' = changes + 1
      /\ defense' = [defense EXCEPT ![d] = z]
      /\ due' = [due EXCEPT ![d] = @ \cup kinds]
      /\ disturbed' \in {disturbed, disturbed \cup {d}}
  BY DEF Change, Disturb
<1>2. z \in [status : {"none", "SCHEDULED", "CANCELED", "COMPLETED"}, date : Days]
  OBVIOUS
<1> HIDE DEF z
<1>3. defense' \in [Defenses -> [status : {"none", "SCHEDULED", "CANCELED", "COMPLETED"},
                                 date : Days]]
  BY <1>1, <1>2 DEF TypeOK
<1>4. due' \in [Defenses -> SUBSET Kinds]
  BY <1>1 DEF TypeOK
<1>5. changes' \in 0..MaxChanges
  BY <1>1 DEF TypeOK
<1>6. disturbed' \subseteq Defenses
  BY <1>1 DEF TypeOK
<1> QED
  BY <1>1, <1>3, <1>4, <1>5, <1>6 DEF TypeOK, mails, clock

LEMMA TypeStart ==
    ASSUME TypeOK, MailsOK, NEW d \in Defenses \cup {NoMailing},
           NEW kind \in Kinds \cup {"none"}, NEW last \in Participants, Start(d, kind, last),
           due' \in [Defenses -> SUBSET Kinds], waiting' \in Mailings \cup {NoMailing},
           UNCHANGED <<today, pass, todo, notified, reminder>>
    PROVE  TypeOK'
<1>1. /\ mailing' \in [Mailings -> Mailing] /\ started' \in Mailings
      /\ UNCHANGED <<row, delivered, inbox, defense, requests, doubt, disturbed>>
  BY StartFacts
<1>2. started' \in 0..MaxMailings
  BY <1>1 DEF Mailings
<1> QED
  BY <1>1, <1>2 DEF TypeOK, requests

LEMMA TypeMailStep ==
    ASSUME TypeOK, MailsOK, RemindOK, NEW m \in Mailings, MailStep(m)
    PROVE  TypeOK'
<1>1. /\ UNCHANGED <<defense, due, requests, started>>
      /\ row' \in [Mailings -> [Participants -> RowStatus]]
      /\ delivered' \in [Mailings -> SUBSET Participants]
      /\ inbox' \in [Defenses -> [Participants -> Mail]]
      /\ doubt' \subseteq Mailings
  BY MailStepCases
<1>2. CASE GoesOn(m)
  <2>1. mailing' \in [Mailings -> Mailing] /\ UNCHANGED <<clock, disturbed>>
    BY <1>2 DEF GoesOn, Becomes
  <2> QED
    BY <1>1, <2>1 DEF TypeOK, clock, requests
<1>3. ASSUME NEW how \in {"done", "failed"}, Finish(m, how)
      PROVE  TypeOK'
  <2>1. mailing' \in [Mailings -> Mailing]
    BY <1>3, FinishLemma DEF Becomes
  <2>2. /\ pass' = pass /\ today' = today
        /\ waiting' \in Mailings \cup {NoMailing} /\ todo' \subseteq Defenses
        /\ notified' \subseteq Defenses
        /\ reminder' \in [Defenses -> {"none", "owed", "sent", "failed"}]
        /\ disturbed' \subseteq Defenses
    BY <1>3, FinishClock
  <2> QED
    BY <1>1, <2>1, <2>2 DEF TypeOK, requests
<1> QED
  BY <1>2, <1>3, MailStepCases

LEMMA TypeClock ==
    ASSUME TypeOK, Remind \/ EndPass \/ Midnight \/ Restart
    PROVE  TypeOK'
<1>1. CASE Remind
  <2>1. /\ todo' \subseteq Defenses /\ disturbed' \subseteq Defenses /\ pass' = "running"
        /\ reminder' \in [Defenses -> {"none", "owed", "sent", "failed"}]
        /\ UNCHANGED <<defense, due, mails, requests, today, waiting, notified, doubt>>
    BY <1>1 DEF Remind, TypeOK
  <2> QED
    BY <2>1 DEF TypeOK, mails, requests
<1>2. CASE EndPass
  BY <1>2 DEF EndPass, TypeOK, mails, requests
<1>3. CASE Midnight
  <2>1. /\ today' \in Days /\ pass' = "due" /\ notified' = {}
        /\ reminder' \in [Defenses -> {"none", "owed", "sent", "failed"}]
        /\ UNCHANGED <<defense, due, mails, requests, todo, waiting, doubt, disturbed>>
    BY <1>3 DEF Midnight, Cleared, TypeOK, Days
  <2> QED
    BY <2>1 DEF TypeOK, mails, requests
<1>4. CASE Restart
  <2>1. /\ UNCHANGED <<defense, started, row, delivered, inbox, requests, today>>
        /\ todo' = {} /\ waiting' = NoMailing /\ notified' = {}
        /\ due' = [d \in Defenses |-> {}]
        /\ doubt' \subseteq Mailings /\ disturbed' \subseteq Defenses
        /\ pass' \in {"due", "running", "over"}
    BY <1>4 DEF Restart, TypeOK
  <2>2. reminder' = [d \in Defenses |-> IF reminder[d] = "owed" THEN "failed" ELSE reminder[d]]
    BY <1>4 DEF Restart
  <2>3. reminder' \in [Defenses -> {"none", "owed", "sent", "failed"}]
    BY <2>2 DEF TypeOK
  <2>4. mailing' \in [Mailings -> Mailing]
    <3>1. \A m \in Mailings : mailing'[m] \in Mailing
      BY <1>4, RestartMailings
    <3>2. mailing' = [m \in Mailings |-> mailing'[m]]
      BY <1>4 DEF Restart
    <3> QED
      BY <3>1, <3>2
  <2> QED
    BY <2>1, <2>3, <2>4 DEF TypeOK, requests
<1> QED
  BY <1>1, <1>2, <1>3, <1>4
-----------------------------------------------------------------------------
(* What is told of a defense (DefenseOK).                                  *)

\* Mailing m keeps as it is, or was and is none of d's.
Aside(d, m) ==
    \/ mailing'[m] = mailing[m]
    \/ /\ Over(m) \/ mailing[m].of # d
       /\ mailing'[m].pc \in {"idle", "over"} \/ mailing'[m].of # d

LEMMA OtherDefense ==
    ASSUME NEW d \in Defenses, DefenseOK(d), UNCHANGED <<defense[d], due[d], inbox[d]>>,
           \A m \in Mailings : Aside(d, m), d \in todo' <=> d \in todo,
           waiting \in About(d) => waiting' = waiting, disturbed \subseteq disturbed'
    PROVE  DefenseOK(d)'
<1>1. \A m \in Mailings : m \in About(d) => mailing'[m] = mailing[m]
  BY DEF About, Aside
<1>2. About(d)' = About(d)
  BY DEF About, Over, Aside
<1>3. /\ defense'[d] = defense[d] /\ due'[d] = due[d] /\ inbox'[d] = inbox[d]
      /\ d \in todo' <=> d \in todo
  OBVIOUS
<1>4. CASE defense[d].status = "none"
  <2>1. Quiet(d)
    BY <1>4 DEF DefenseOK
  <2>2. Quiet(d)'
    BY <1>2, <1>3, <2>1 DEF Quiet
  <2> QED
    BY <1>3, <1>4, <2>2 DEF DefenseOK
<1>5. CASE defense[d].status # "none" /\ d \in disturbed
  BY <1>3, <1>5 DEF DefenseOK
<1>6. CASE defense[d].status # "none" /\ d \notin disturbed
  <2>1. Track(d)
    BY <1>6 DEF DefenseOK
  <2>2. \A p \in Participants : Told(d, p)' <=> Told(d, p)
    BY <1>3 DEF Told
  <2>3. ASSUME NEW m \in About(d)
        PROVE  Tells(d, m)'
    <3>1. Tells(d, m) /\ m \in Mailings /\ mailing'[m] = mailing[m]
      BY <1>1, <2>1 DEF Track, About
    <3>2. d \in todo => waiting = m /\ waiting' = m
      BY <3>1 DEF Tells
    <3> QED
      BY <1>3, <2>2, <3>1, <3>2 DEF Tells, At
  <2>4. \A m \in About(d)' : Tells(d, m)'
    BY <1>2, <2>3
  <2>5. Track(d)'
    BY <1>2, <1>3, <2>1, <2>2, <2>4 DEF Track
  <2> QED
    BY <1>3, <1>6, <2>5 DEF DefenseOK
<1> QED
  BY <1>4, <1>5, <1>6

\* The mails and the reminder kept, d and what is to be told of it too.
LEMMA DefenseKept ==
    ASSUME NEW d \in Defenses, DefenseOK(d), UNCHANGED <<defense[d], due[d]>>,
           UNCHANGED <<mailing, inbox, waiting>>, d \in todo' <=> d \in todo,
           disturbed \subseteq disturbed'
    PROVE  DefenseOK(d)'
<1>1. \A m \in Mailings : Aside(d, m)
  BY DEF Aside
<1> QED
  BY <1>1, OtherDefense

LEMMA DefensesChange ==
    ASSUME TypeOK, \A e \in Defenses : DefenseOK(e), NEW d \in Defenses,
           NEW status, NEW date, NEW kinds \in SUBSET Kinds, status # "none",
           Change(d, status, date, kinds), disturbed \subseteq disturbed',
           \/ d \in disturbed'
           \/ Quiet(d) /\ \E k \in kinds : kinds = {k} /\ Fits(k, status)
           \/ defense[d] = [status |-> status, date |-> date] /\ kinds = {}
    PROVE  \A e \in Defenses : DefenseOK(e)'
<1> DEFINE z == [status |-> status, date |-> date]
<1>1. /\ UNCHANGED <<mailing, inbox, waiting, todo>>
      /\ defense' = [defense EXCEPT ![d] = z]
      /\ due' = [due EXCEPT ![d] = @ \cup kinds]
  BY DEF Change, mails, clock
<1>2. z.status = status
  OBVIOUS
<1> HIDE DEF z
<1>3. /\ defense'[d] = z /\ due'[d] = due[d] \cup kinds
      /\ \A e \in Defenses : e # d => defense'[e] = defense[e] /\ due'[e] = due[e]
  BY <1>1 DEF TypeOK
<1>4. ASSUME NEW e \in Defenses, e # d
      PROVE  DefenseOK(e)'
  BY <1>1, <1>3, <1>4, DefenseKept
<1>5. DefenseOK(d)'
  <2>1. CASE d \in disturbed'
    BY <1>2, <1>3, <2>1 DEF DefenseOK
  <2>2. CASE Quiet(d) /\ \E k \in kinds : kinds = {k} /\ Fits(k, status)
    <3>1. PICK k \in kinds : kinds = {k} /\ Fits(k, status)
      BY <2>2
    <3>2. due'[d] = {k} /\ defense'[d].status = status /\ d \notin todo'
      BY <1>1, <1>2, <1>3, <2>2, <3>1 DEF Quiet
    <3>3. About(d)' = {}
      BY <1>1, <2>2 DEF Quiet, About, Over
    <3>4. Track(d)'
      BY <3>1, <3>2, <3>3 DEF Track
    <3> QED
      BY <3>2, <3>4 DEF DefenseOK
  <2>3. CASE defense[d] = z /\ kinds = {}
    BY <1>1, <1>3, <2>3, DefenseKept
  <2> QED
    BY <2>1, <2>2, <2>3 DEF z
<1> QED
  BY <1>4, <1>5

LEMMA DefensesStart ==
    ASSUME TypeOK, MailsOK, \A e \in Defenses : DefenseOK(e),
           NEW d \in Defenses \cup {NoMailing}, NEW kind \in Kinds \cup {"none"},
           NEW last \in Participants, Start(d, kind, last),
           UNCHANGED todo, waiting' = waiting \/ waiting = NoMailing,
           \A e \in Defenses : e # d => due'[e] = due[e],
           NEW e \in Defenses, e # d
    PROVE  DefenseOK(e)'
<1>1. PICK n \in Mailings :
         /\ Over(n)
         /\ mailing'[n] = MailingOf("read", d, [kind |-> kind, date |-> 0], 1, last)
         /\ \A q \in Mailings : q # n => mailing'[q] = mailing[q]
         /\ UNCHANGED <<inbox, defense, disturbed>>
  BY StartFacts
<1>2. mailing'[n].of = d
  BY <1>1 DEF MailingOf
<1>3. \A m \in Mailings : Aside(e, m)
  BY <1>1, <1>2 DEF Aside
<1>4. waiting \in About(e) => waiting' = waiting
  BY Sets DEF About
<1> QED
  BY <1>1, <1>3, <1>4, OtherDefense

\* A mailing about d begins when none is to be started and none is under way.
LEMMA TrackStart ==
    ASSUME TypeOK, MailsOK, NEW d \in Defenses, NEW kind \in Kinds,
           Start(d, kind, LastParticipant), due'[d] = {}, About(d) = {},
           Fits(kind, defense[d].status), UNCHANGED todo,
           d \in todo => waiting' = started + 1 /\ defense[d].status = "SCHEDULED"
    PROVE  Track(d)'
<1>1. PICK n \in Mailings :
         /\ n = started + 1
         /\ mailing'[n] = MailingOf("read", d, [kind |-> kind, date |-> 0], 1, LastParticipant)
         /\ \A q \in Mailings : q # n => mailing'[q] = mailing[q]
         /\ UNCHANGED <<inbox, defense, disturbed>>
  <2>1. /\ d \in Defenses \cup {NoMailing} /\ kind \in Kinds \cup {"none"}
        /\ LastParticipant \in Participants
    BY Sets
  <2>2. PICK n \in Mailings :
           /\ n = started + 1
           /\ mailing'[n] = MailingOf("read", d, [kind |-> kind, date |-> 0], 1, LastParticipant)
           /\ \A q \in Mailings : q # n => mailing'[q] = mailing[q]
           /\ UNCHANGED <<row, delivered, inbox, defense, requests, doubt, disturbed>>
    BY <2>1, StartFacts
  <2> QED
    BY <2>2
<1>2. /\ mailing'[n].of = d /\ mailing'[n].pc = "read" /\ mailing'[n].to = 1
      /\ mailing'[n].last = LastParticipant /\ mailing'[n].mail.kind = kind
  BY <1>1 DEF MailingOf
<1>3. About(d)' = {n}
  <2>1. n \in About(d)'
    BY <1>2 DEF About, Over
  <2>2. ASSUME NEW q \in Mailings, q # n
        PROVE  q \notin About(d)'
    <3>1. mailing'[q] = mailing[q] /\ q \notin About(d)
      BY <1>1, <2>2
    <3> QED
      BY <3>1 DEF About, Over
  <2>3. About(d)' \subseteq Mailings
    BY DEF About
  <2> QED
    BY <2>1, <2>2, <2>3
<1>4. \A p \in Participants : ~(p < 1)
  BY DEF Participants
<1>5. Tells(d, n)'
  BY <1>1, <1>2, <1>4 DEF Tells, At
<1> QED
  BY <1>1, <1>3, <1>5 DEF Track

LEMMA DefensesNotify ==
    ASSUME TypeOK, MailsOK, \A e \in Defenses : DefenseOK(e),
           NEW d \in Defenses, NEW kind \in Kinds, Notify(d, kind)
    PROVE  \A e \in Defenses : DefenseOK(e)'
<1>1. /\ kind \in due[d] /\ due' = [due EXCEPT ![d] = @ \ {kind}]
      /\ Start(d, kind, LastParticipant) /\ UNCHANGED <<todo, waiting>>
  BY DEF Notify, clock
<1>2. /\ due'[d] = due[d] \ {kind}
      /\ \A e \in Defenses : e # d => due'[e] = due[e]
  BY <1>1 DEF TypeOK
<1>3. ASSUME NEW e \in Defenses, e # d
      PROVE  DefenseOK(e)'
  BY <1>1, <1>2, <1>3, Sets, DefensesStart
<1>4. defense' = defense /\ disturbed' = disturbed /\ defense[d].status # "none"
  <2>1. defense' = defense /\ disturbed' = disturbed
    BY <1>1 DEF Start
  <2>2. ~Quiet(d)
    BY <1>1 DEF Quiet
  <2>3. DefenseOK(d)
    OBVIOUS
  <2> QED
    BY <2>1, <2>2, <2>3 DEF DefenseOK
<1>5. ASSUME d \in disturbed
      PROVE  DefenseOK(d)'
  BY <1>4, <1>5 DEF DefenseOK
<1>6. ASSUME Track(d)
      PROVE  DefenseOK(d)'
  <2>1. due[d] = {kind} /\ About(d) = {} /\ d \notin todo /\ Fits(kind, defense[d].status)
    BY <1>1, <1>6 DEF Track
  <2>2. due'[d] = {}
    BY <1>2, <2>1
  <2>3. UNCHANGED todo
    BY <1>1
  <2>4. Track(d)'
    BY <1>1, <2>1, <2>2, <2>3, TrackStart
  <2> QED
    BY <1>4, <2>4 DEF DefenseOK
<1>7. DefenseOK(d)
  OBVIOUS
<1>8. d \in disturbed \/ Track(d)
  BY <1>4, <1>7 DEF DefenseOK
<1> QED
  BY <1>3, <1>5, <1>6, <1>8

LEMMA DefensesMailOne ==
    ASSUME TypeOK, MailsOK, \A e \in Defenses : DefenseOK(e), MailOne
    PROVE  \A e \in Defenses : DefenseOK(e)'
<1>1. Start(NoMailing, "none", 1) /\ UNCHANGED <<due, todo, waiting>>
  BY DEF MailOne, clock
<1> QED
  BY <1>1, Sets, DefensesStart

LEMMA DefensesRemindOne ==
    ASSUME TypeOK, MailsOK, RemindOK, \A e \in Defenses : DefenseOK(e),
           NEW d \in Defenses, RemindOne(d)
    PROVE  \A e \in Defenses : DefenseOK(e)'
<1>1. /\ d \in todo /\ waiting = NoMailing /\ waiting' = started + 1
      /\ Start(d, "scheduled", LastParticipant) /\ UNCHANGED <<due, todo>>
  BY DEF RemindOK, RemindOne
<1>2. "scheduled" \in Kinds
  BY DEF Kinds
<1>3. ASSUME NEW e \in Defenses, e # d
      PROVE  DefenseOK(e)'
  BY <1>1, <1>2, <1>3, Sets, DefensesStart
<1>4. defense' = defense /\ disturbed' = disturbed /\ defense[d].status # "none"
  <2>1. defense' = defense /\ disturbed' = disturbed
    BY <1>1 DEF Start
  <2>2. ~Quiet(d)
    BY <1>1 DEF Quiet
  <2>3. DefenseOK(d)
    OBVIOUS
  <2> QED
    BY <2>1, <2>2, <2>3 DEF DefenseOK
<1>5. ASSUME d \in disturbed
      PROVE  DefenseOK(d)'
  BY <1>4, <1>5 DEF DefenseOK
<1>6. ASSUME Track(d)
      PROVE  DefenseOK(d)'
  <2>1. due[d] = {} /\ defense[d].status = "SCHEDULED"
    BY <1>1, <1>6 DEF Track
  <2>2. About(d) = {}
    <3>1. \A m \in About(d) : waiting = m /\ m \in Mailings
      BY <1>1, <1>6 DEF Track, Tells, About
    <3> QED
      BY <1>1, <3>1, Sets
  <2>3. Fits("scheduled", defense[d].status)
    BY <2>1 DEF Fits
  <2>4. due'[d] = {} /\ UNCHANGED todo
    BY <1>1, <2>1
  <2>5. Track(d)'
    BY <1>1, <1>2, <2>1, <2>2, <2>3, <2>4, TrackStart
  <2> QED
    BY <1>4, <2>5 DEF DefenseOK
<1>7. DefenseOK(d)
  OBVIOUS
<1>8. d \in disturbed \/ Track(d)
  BY <1>4, <1>7 DEF DefenseOK
<1> QED
  BY <1>3, <1>5, <1>6, <1>8
\* A defense that mailing m is not of.
LEMMA DefensesOfOthers ==
    ASSUME TypeOK, MailsOK, RemindOK, \A e \in Defenses : DefenseOK(e),
           NEW m \in Mailings, MailStep(m), NEW e \in Defenses, mailing[m].of # e
    PROVE  DefenseOK(e)'
<1>1. /\ UNCHANGED <<defense, due>> /\ DefenseOK(e)
      /\ GoesOn(m) \/ \E how \in {"done", "failed"} : Finish(m, how)
  BY MailStepCases
<1>2. inbox'[e] = inbox[e]
  <2>1. InboxBecomes(m) \/ UNCHANGED inbox
    BY DeliverLemma DEF MailStep, Read, CreateRow, Smtp, MarkSent, HandleError
  <2> QED
    BY <2>1 DEF InboxBecomes
<1>3. CASE GoesOn(m)
  <2>1. PICK x \in Mailing : Becomes(m, x) /\ x.of = mailing[m].of
    BY <1>3 DEF GoesOn
  <2>2. \A q \in Mailings : Aside(e, q)
    BY <2>1 DEF Becomes, Aside
  <2>3. UNCHANGED <<todo, waiting, disturbed>>
    BY <1>3 DEF GoesOn, clock
  <2> QED
    BY <1>1, <1>2, <2>2, <2>3, OtherDefense
<1>4. ASSUME NEW how \in {"done", "failed"}, Finish(m, how)
      PROVE  DefenseOK(e)'
  <2>1. \A q \in Mailings : Aside(e, q)
    BY <1>4, FinishLemma, EndedFields DEF Becomes, Aside
  <2>2. /\ waiting = m => todo' = todo \ {mailing[m].of}
        /\ waiting # m => todo' = todo /\ waiting' = waiting
        /\ disturbed \subseteq disturbed'
    BY <1>4, FinishClock DEF ReminderEnds
  <2>3. waiting \in About(e) => waiting' = waiting
    BY <2>2 DEF About
  <2>4. e \in todo' <=> e \in todo
    BY <2>2
  <2> QED
    BY <1>1, <1>2, <2>1, <2>2, <2>3, <2>4, OtherDefense
<1> QED
  BY <1>1, <1>3, <1>4

LEMMA TrackGoesOn ==
    ASSUME NEW d \in Defenses, Track(d), NEW m \in About(d), NEW x \in Mailing, Becomes(m, x),
           x.of = d, x.pc \notin {"idle", "over"}, Tells(d, m)',
           UNCHANGED <<defense, due, todo>>
    PROVE  Track(d)'
<1>1. m \in Mailings /\ About(d) = {m} /\ due[d] = {}
  BY DEF Track, About
<1>2. About(d)' = {m}
  <2>1. m \in About(d)'
    BY <1>1 DEF About, Over, Becomes
  <2>2. ASSUME NEW q \in Mailings, q # m
        PROVE  q \notin About(d)'
    <3>1. mailing'[q] = mailing[q] /\ q \notin About(d)
      BY <1>1, <2>2 DEF Becomes
    <3> QED
      BY <3>1 DEF About, Over
  <2>3. About(d)' \subseteq Mailings
    BY DEF About
  <2> QED
    BY <2>1, <2>2, <2>3
<1> QED
  BY <1>1, <1>2 DEF Track

\* Mailing m goes on at the same participant; d is as it was told to be.
LEMMA TellsOn ==
    ASSUME TypeOK, NEW d \in Defenses, Track(d), NEW m \in About(d),
           NEW p \in Pcs \ {"idle", "over", "read", "mark"},
           (Goto(m, p) /\ ~At(m, "read")) \/ (Read(m) /\ p = "create"),
           UNCHANGED <<defense, due, inbox, todo, waiting>>
    PROVE  Track(d)'
<1> DEFINE y == IF Goto(m, p) /\ ~At(m, "read") THEN mailing[m].mail ELSE Says(m)
           x == MailingOf(p, d, y, mailing[m].to, mailing[m].last)
<1>1. m \in Mailings /\ mailing[m].of = d /\ Tells(d, m)
  BY DEF About, Track
<1>2. /\ mailing[m].to \in Participants /\ mailing[m].last \in Participants
      /\ mailing[m].mail \in Mail
  BY <1>1, MailingFields DEF TypeOK
<1>3. /\ y \in Mail /\ y.kind = mailing[m].mail.kind
      /\ y.date = defense[d].date
  <2>1. CASE Goto(m, p) /\ ~At(m, "read")
    BY <1>1, <1>2, <2>1 DEF Tells
  <2>2. CASE ~(Goto(m, p) /\ ~At(m, "read"))
    BY <1>1, <2>2, SaysType
  <2> QED
    BY <2>1, <2>2
<1>4. Becomes(m, x)
  BY <1>1, GotoLemma, ReadLemma
<1> HIDE DEF y
<1>5. /\ x \in Mailing /\ x.pc = p /\ x.of = d /\ x.mail = y /\ x.to = mailing[m].to
      /\ x.last = mailing[m].last
  BY <1>2, <1>3, MailingType DEF MailingOf
<1> HIDE DEF x
<1>6. mailing'[m] = x
  BY <1>4 DEF Becomes
<1>7. \A q \in Participants : Told(d, q)' <=> Told(d, q)
  BY DEF Told
<1>8. Tells(d, m)'
  BY <1>1, <1>3, <1>5, <1>6, <1>7 DEF Tells, At
<1> QED
  BY <1>4, <1>5, <1>8, TrackGoesOn
LEMMA TrackSmtp ==
    ASSUME TypeOK, NEW d \in Defenses, Track(d), NEW m \in About(d), Smtp(m),
           UNCHANGED <<defense, due>>
    PROVE  Track(d)'
<1>1. /\ m \in Mailings /\ mailing[m].of = d /\ Tells(d, m) /\ At(m, "smtp")
      /\ UNCHANGED <<todo, waiting>>
  BY DEF About, Track, Smtp, clock
<1>2. /\ mailing[m].to \in Participants /\ mailing[m].last \in Participants
      /\ mailing[m].mail \in Mail
  BY <1>1, MailingFields DEF TypeOK
<1>3. /\ mailing[m].mail.date = defense[d].date
      /\ Fits(mailing[m].mail.kind, defense[d].status)
      /\ \A q \in Participants : q < mailing[m].to => Told(d, q)
  BY <1>1 DEF Tells, At
<1>4. CASE Goto(m, "retry") /\ UNCHANGED inbox
  BY <1>1, <1>4, TellsOn DEF Pcs, At
<1>5. ASSUME NEW p \in {"mark", "retry"}, Goto(m, p), Deliver(m)
      PROVE  Track(d)'
  <2> DEFINE x == MailingOf(p, d, mailing[m].mail, mailing[m].to, mailing[m].last)
  <2>1. p \in Pcs
    BY DEF Pcs
  <2>2. Becomes(m, x)
    BY <1>1, <1>5, <2>1, GotoLemma
  <2>3. /\ x \in Mailing /\ x.pc = p /\ x.of = d /\ x.mail = mailing[m].mail
        /\ x.to = mailing[m].to /\ x.last = mailing[m].last
    BY <1>2, <2>1, MailingType DEF MailingOf
  <2> HIDE DEF x
  <2>4. mailing'[m] = x
    BY <2>2 DEF Becomes
  <2>5. \A q \in Participants :
           inbox'[d][q] = IF q = mailing[m].to THEN mailing[m].mail ELSE inbox[d][q]
    BY <1>1, <1>5, DeliverLemma DEF InboxBecomes
  <2>6. \A q \in Participants : q < mailing[m].to \/ q = mailing[m].to => Told(d, q)'
    <3>1. ASSUME NEW q \in Participants, q = mailing[m].to
          PROVE  Told(d, q)'
      BY <1>3, <2>5, <3>1 DEF Told
    <3>2. ASSUME NEW q \in Participants, q < mailing[m].to
          PROVE  Told(d, q)'
      <4>1. q # mailing[m].to
        BY <1>2, <3>2, Sets
      <4> QED
        BY <1>3, <2>5, <3>2, <4>1 DEF Told
    <3> QED
      BY <3>1, <3>2
  <2>7. Tells(d, m)'
    BY <1>1, <1>3, <2>3, <2>4, <2>6 DEF Tells, At
  <2> QED
    BY <1>1, <2>2, <2>3, <2>7, TrackGoesOn
<1> QED
  BY <1>4, <1>5 DEF Smtp, AfterSmtp

LEMMA TrackMark ==
    ASSUME TypeOK, MailsOK, RemindOK, NEW d \in Defenses, Track(d), NEW m \in About(d),
           MarkSent(m), UNCHANGED <<defense, due>>
    PROVE  Track(d)'
<1>1. /\ m \in Mailings /\ mailing[m].of = d /\ Tells(d, m) /\ At(m, "mark")
      /\ UNCHANGED inbox /\ due[d] = {} /\ About(d) = {m}
  BY DEF About, Track, MarkSent
<1>2. /\ mailing[m].to \in Participants /\ mailing[m].last = LastParticipant
      /\ mailing[m].mail \in Mail /\ mailing[m].to <= LastParticipant
  BY <1>1, MailingFields, MailFacts DEF TypeOK, Tells, MailOK
<1>3. \A q \in Participants : q < mailing[m].to \/ q = mailing[m].to => Told(d, q)
  BY <1>1 DEF Tells
<1>4. \A q \in Participants : Told(d, q)' <=> Told(d, q)
  BY <1>1 DEF Told
<1>5. CASE Goto(m, "retry") /\ UNCHANGED clock
  BY <1>1, <1>5, TellsOn DEF Pcs, At, clock
<1>6. CASE /\ ~AtLast(m) /\ UNCHANGED clock
           /\ mailing' = [mailing EXCEPT ![m].pc = "create", ![m].to = @ + 1]
  <2> DEFINE t == mailing[m].to + 1
             x == MailingOf("create", d, mailing[m].mail, t, mailing[m].last)
  <2>1. Becomes(m, x)
    BY <1>1, <1>2, <1>6, NextMailLemma
  <2>2. t \in Participants
    BY <1>2, <1>6 DEF AtLast, Participants
  <2>3. \A q \in Participants : q < t => Told(d, q)'
    <3>1. \A q \in Participants : q < t => q < mailing[m].to \/ q = mailing[m].to
      BY <1>2 DEF Participants
    <3> QED
      BY <1>3, <1>4, <3>1
  <2> HIDE DEF t
  <2>4. /\ x.pc = "create" /\ x.of = d /\ x.mail = mailing[m].mail
        /\ x.to = t /\ x.last = mailing[m].last
    BY DEF MailingOf
  <2>5. x \in Mailing
    <3>1. "create" \in Pcs /\ mailing[m].last \in Participants
      BY <1>2, Sets DEF Pcs
    <3> QED
      BY <1>2, <2>2, <3>1, MailingType
  <2> HIDE DEF x
  <2>6. mailing'[m] = x
    BY <2>1 DEF Becomes
  <2>7. Tells(d, m)'
    BY <1>1, <1>6, <2>3, <2>4, <2>6 DEF Tells, At, clock
  <2> QED
    BY <1>1, <1>6, <2>1, <2>4, <2>5, <2>7, TrackGoesOn DEF clock
<1>7. CASE AtLast(m) /\ Finish(m, "done")
  <2>1. \A q \in Participants : Told(d, q)'
    <3>1. mailing[m].to = LastParticipant
      BY <1>2, <1>7 DEF AtLast
    <3>2. \A q \in Participants : q < LastParticipant \/ q = LastParticipant
      BY DEF Participants
    <3> QED
      BY <1>3, <1>4, <3>1, <3>2
  <2>2. mailing'[m].pc = "over" /\ \A q \in Mailings : q # m => mailing'[q] = mailing[q]
    BY <1>1, <1>7, FinishLemma, EndedFields DEF Becomes
  <2>3. About(d)' = {}
    <3>1. \A q \in Mailings : q # m => q \notin About(d)
      BY <1>1
    <3> QED
      BY <2>2, <3>1 DEF About, Over
  <2>4. d \notin todo'
    <3>1. /\ waiting = m => todo' = todo \ {d}
          /\ waiting # m => todo' = todo
      BY <1>1, <1>7, FinishClock DEF ReminderEnds
    <3> QED
      BY <1>1, <3>1 DEF Tells
  <2> QED
    BY <1>1, <2>1, <2>3, <2>4 DEF Track
<1> QED
  BY <1>5, <1>6, <1>7 DEF MarkSent
LEMMA DefensesMailStep ==
    ASSUME TypeOK, MailsOK, RemindOK, \A e \in Defenses : DefenseOK(e),
           NEW m \in Mailings, MailStep(m)
    PROVE  \A e \in Defenses : DefenseOK(e)'
<1>1. ASSUME NEW e \in Defenses, mailing[m].of # e
      PROVE  DefenseOK(e)'
  BY <1>1, DefensesOfOthers
<1>2. ASSUME NEW d \in Defenses, mailing[m].of = d
      PROVE  DefenseOK(d)'
  <2>1. UNCHANGED <<defense, due>> /\ m \in About(d)
    BY <1>2, MailStepCases DEF About
  <2>2. disturbed \subseteq disturbed'
    BY MailStepCases, FinishClock DEF GoesOn
  <2>3. defense'[d].status # "none"
    <3>1. ~Quiet(d) /\ DefenseOK(d)
      BY <2>1 DEF Quiet
    <3> QED
      BY <2>1, <3>1 DEF DefenseOK
  <2>4. ASSUME d \in disturbed'
        PROVE  DefenseOK(d)'
    BY <2>3, <2>4 DEF DefenseOK
  <2>5. ASSUME Track(d)'
        PROVE  DefenseOK(d)'
    BY <2>3, <2>5 DEF DefenseOK
  <2>6. CASE d \in disturbed
    BY <2>2, <2>4, <2>6
  <2>7. CASE d \notin disturbed
    <3>1. DefenseOK(d)
      OBVIOUS
    <3>2. Track(d)
      BY <2>1, <2>3, <2>7, <3>1 DEF DefenseOK
    <3>3. CASE Finish(m, "failed")
      BY <1>2, <2>4, <3>3, FinishClock
    <3>4. CASE Read(m)
      <4>1. UNCHANGED <<inbox, todo, waiting>>
        BY <3>4 DEF Read, clock
      <4> QED
        BY <2>1, <2>5, <3>2, <3>4, <4>1, TellsOn DEF Pcs
    <3>5. CASE CreateRow(m)
      <4>1. CASE Goto(m, "smtp") /\ UNCHANGED <<clock, inbox>>
        BY <2>1, <2>5, <3>2, <3>5, <4>1, TellsOn DEF Pcs, CreateRow, At, clock
      <4> QED
        BY <3>3, <3>5, <4>1 DEF CreateRow
    <3>6. CASE Smtp(m)
      BY <2>1, <2>5, <3>2, <3>6, TrackSmtp
    <3>7. CASE MarkSent(m)
      BY <2>1, <2>5, <3>2, <3>7, TrackMark
    <3>8. CASE HandleError(m)
      BY <3>3, <3>8 DEF HandleError
    <3> QED
      BY <3>4, <3>5, <3>6, <3>7, <3>8 DEF MailStep
  <2> QED
    BY <2>6, <2>7
<1> QED
  BY <1>1, <1>2

LEMMA DefensesRemind ==
    ASSUME TypeOK, RemindOK, \A e \in Defenses : DefenseOK(e), Remind
    PROVE  \A e \in Defenses : DefenseOK(e)'
<1>1. /\ UNCHANGED <<defense, due, mailing, inbox, waiting>>
      /\ todo = {} /\ todo' = {d \in Defenses : OfToday(d)}
      /\ disturbed' = disturbed \cup {d \in Defenses : OfToday(d) /\ ~Quiet(d)}
  BY DEF RemindOK, Remind, mails
<1> SUFFICES ASSUME NEW d \in Defenses
             PROVE  DefenseOK(d)'
  OBVIOUS
<1>2. DefenseOK(d)
  OBVIOUS
<1>3. CASE ~OfToday(d)
  <2>1. d \in todo' <=> d \in todo
    BY <1>1, <1>3
  <2>2. disturbed \subseteq disturbed'
    BY <1>1
  <2> QED
    BY <1>1, <1>2, <2>1, <2>2, DefenseKept
<1>4. CASE OfToday(d) /\ d \in disturbed'
  BY <1>1, <1>4 DEF DefenseOK, OfToday
<1>5. CASE OfToday(d) /\ d \notin disturbed'
  <2>1. Quiet(d) /\ d \notin disturbed /\ defense[d].status = "SCHEDULED"
    BY <1>1, <1>5 DEF OfToday
  <2>2. Track(d)
    BY <1>2, <2>1 DEF DefenseOK
  <2>3. About(d)' = {} /\ due'[d] = {}
    BY <1>1, <2>1 DEF Quiet, About, Over
  <2>4. \A p \in Participants : Told(d, p)'
    BY <1>1, <2>1, <2>2 DEF Track, Quiet, Told
  <2>5. Track(d)'
    BY <1>1, <2>1, <2>3, <2>4 DEF Track
  <2> QED
    BY <1>1, <2>1, <2>5 DEF DefenseOK
<1> QED
  BY <1>3, <1>4, <1>5

LEMMA DefensesRestart ==
    ASSUME TypeOK, \A e \in Defenses : DefenseOK(e), Restart
    PROVE  \A e \in Defenses : DefenseOK(e)'
<1>1. /\ UNCHANGED <<defense, inbox>> /\ todo' = {}
      /\ due' = [d \in Defenses |-> {}]
      /\ disturbed' = disturbed \cup {d \in Defenses : ~Quiet(d)}
  BY DEF Restart
<1> SUFFICES ASSUME NEW d \in Defenses
             PROVE  DefenseOK(d)'
  OBVIOUS
<1>2. DefenseOK(d)
  OBVIOUS
<1>3. CASE Quiet(d)
  <2>1. ASSUME NEW m \in Mailings
        PROVE  Aside(d, m)
    <3>1. Over(m) => mailing'[m] = mailing[m]
      BY RestartMailings
    <3>2. ~Over(m) => mailing'[m].pc = "over" /\ mailing[m].of # d
      BY <1>3, RestartMailings, EndedFields DEF Quiet, About
    <3> QED
      BY <3>1, <3>2 DEF Aside
  <2>2. UNCHANGED <<defense[d], due[d], inbox[d]>>
    BY <1>1, <1>3 DEF Quiet
  <2>3. d \in todo' <=> d \in todo
    BY <1>1, <1>3 DEF Quiet
  <2>4. waiting \in About(d) => waiting' = waiting
    BY <1>3 DEF Quiet
  <2>5. disturbed \subseteq disturbed'
    BY <1>1
  <2> QED
    BY <1>2, <2>1, <2>2, <2>3, <2>4, <2>5, OtherDefense
<1>4. CASE ~Quiet(d)
  BY <1>1, <1>2, <1>4 DEF DefenseOK
<1> QED
  BY <1>3, <1>4

-----------------------------------------------------------------------------
(* The theorems.                                                           *)

LEMMA InitHolds == Init => IInv
<1> SUFFICES ASSUME Init PROVE IInv
  OBVIOUS
<1>1. TypeOK
  BY UnstartedLemma, Sets DEF Init, TypeOK, RowStatus, Days, Mail
<1>2. \A m \in Mailings : mailing[m].pc = "idle" /\ mailing[m].to = 1 /\ mailing[m].last = 1
  BY DEF Init, Unstarted
<1>3. MailsOK
  <2>1. \A m \in Mailings : m > started
    BY DEF Init, Mailings
  <2>2. \A m \in Mailings, p \in Participants : row[m][p] = "none" /\ p \notin delivered[m]
    BY DEF Init
  <2> QED
    BY <1>2, <2>1, <2>2 DEF MailsOK, MailOK, StatusIsTrue, At, Over, Unsettled
<1>4. RemindOK
  BY DEF Init, RemindOK
<1>5. \A d \in Defenses : DefenseOK(d)
  <2> SUFFICES ASSUME NEW d \in Defenses PROVE DefenseOK(d)
    OBVIOUS
  <2>1. About(d) = {}
    BY <1>2 DEF About, Over
  <2>2. defense[d].status = "none" /\ due[d] = {} /\ d \notin todo
    BY DEF Init
  <2> QED
    BY <2>1, <2>2 DEF DefenseOK, Quiet
<1> QED
  BY <1>1, <1>3, <1>4, <1>5 DEF IInv
LEMMA ChangeKeeps ==
    ASSUME IInv, NEW d \in Defenses, NEW kinds \in SUBSET Kinds, NEW date \in Days,
           NEW status \in {"SCHEDULED", "CANCELED", "COMPLETED"},
           Change(d, status, date, kinds), NEW when, Disturb(d, when),
           documents' \subseteq Defenses,
           \/ when
           \/ Quiet(d) /\ \E k \in kinds : kinds = {k} /\ Fits(k, status)
           \/ defense[d] = [status |-> status, date |-> date] /\ kinds = {}
    PROVE  IInv'
<1>1. TypeOK'
  BY TypeChange DEF IInv
<1>2. MailsOK'
  BY MailsKept DEF IInv, Change
<1>3. RemindOK'
  <2>1. UNCHANGED <<clock, mailing>>
    BY DEF Change, mails
  <2>2. waiting' = waiting
    BY <2>1 DEF clock
  <2>3. waiting # NoMailing => ~Over(waiting)' /\ mailing'[waiting].of = mailing[waiting].of
    BY <2>1, <2>2 DEF IInv, RemindOK, Over
  <2> QED
    BY <2>1, <2>3, RemindKept DEF IInv
<1>4. disturbed \subseteq disturbed' /\ (when => d \in disturbed')
  BY DEF Disturb
<1>5. \A e \in Defenses : DefenseOK(e)'
  BY <1>4, DefensesChange DEF IInv
<1> QED
  BY <1>1, <1>2, <1>3, <1>5 DEF IInv

LEMMA HandlersKeep ==
    ASSUME IInv, NEW d \in Defenses,
           \/ \E day \in Days : Schedule(d, day) \/ Reschedule(d, day) \/ UpdateDate(d, day)
           \/ Cancel(d) \/ SubmitResult(d) \/ Regrade(d)
    PROVE  IInv'
<1>0. documents' \subseteq Defenses
  BY DEF Schedule, Reschedule, UpdateDate, Cancel, SubmitResult, Regrade, IInv, TypeOK
<1>1. /\ defense[d].status \in {"none", "SCHEDULED", "CANCELED", "COMPLETED"}
      /\ defense[d].date \in Days /\ DefenseOK(d)
      /\ defense[d] = [status |-> defense[d].status, date |-> defense[d].date]
  BY DEF IInv, TypeOK
<1>2. ASSUME NEW day \in Days, Schedule(d, day)
      PROVE  IInv'
  <2>1. Change(d, "SCHEDULED", day, {"scheduled"}) /\ Disturb(d, FALSE) /\ Quiet(d)
    BY <1>1, <1>2 DEF Schedule, DefenseOK
  <2>2. \E k \in {"scheduled"} : {"scheduled"} = {k} /\ Fits(k, "SCHEDULED")
    BY DEF Fits
  <2> QED
    BY <1>0, <2>1, <2>2, ChangeKeeps DEF Kinds
<1>3. ASSUME NEW day \in Days, Reschedule(d, day)
      PROVE  IInv'
  <2> DEFINE s == defense[d].status
             w == ~Quiet(d) \/ s = "CANCELED"
  <2>1. Change(d, s, day, {"rescheduled"}) /\ Disturb(d, w) /\ s \in {"SCHEDULED", "CANCELED"}
    BY <1>3 DEF Reschedule, NotCompleted
  <2>2. {"rescheduled"} \in SUBSET Kinds
    BY DEF Kinds
  <2>3. CASE w
    <3> HIDE DEF s, w
    <3> QED
      BY <1>0, <2>1, <2>2, <2>3, ChangeKeeps
  <2>4. CASE ~w
    <3>1. Quiet(d) /\ s = "SCHEDULED"
      BY <2>1, <2>4
    <3>2. Change(d, "SCHEDULED", day, {"rescheduled"}) /\ Disturb(d, w)
      BY <2>1, <3>1
    <3>3. \E k \in {"rescheduled"} : {"rescheduled"} = {k} /\ Fits(k, "SCHEDULED")
      BY DEF Fits
    <3> HIDE DEF s, w
    <3> QED
      BY <1>0, <2>2, <3>1, <3>2, <3>3, ChangeKeeps
  <2> QED
    BY <2>3, <2>4
<1>4. ASSUME NEW day \in Days, UpdateDate(d, day)
      PROVE  IInv'
  <2> DEFINE s == defense[d].status
             w == day # defense[d].date \/ ~Quiet(d)
  <2>1. /\ Change(d, s, day, {}) /\ Disturb(d, w)
        /\ s \in {"SCHEDULED", "CANCELED", "COMPLETED"}
    BY <1>1, <1>4 DEF UpdateDate
  <2>2. w \/ defense[d] = [status |-> s, date |-> day]
    BY <1>1
  <2> HIDE DEF s, w
  <2> QED
    BY <1>0, <2>1, <2>2, ChangeKeeps
<1>5. CASE Cancel(d)
  <2> DEFINE w == ~Quiet(d)
             t == defense[d].date
  <2>1. Change(d, "CANCELED", t, {"canceled"}) /\ Disturb(d, w)
    BY <1>5 DEF Cancel, CancelMail
  <2>2. \E k \in {"canceled"} : {"canceled"} = {k} /\ Fits(k, "CANCELED")
    BY DEF Fits
  <2>3. {"canceled"} \in SUBSET Kinds /\ (w \/ Quiet(d)) /\ t \in Days
    BY <1>1 DEF Kinds
  <2> HIDE DEF w, t
  <2> QED
    BY <1>0, <2>1, <2>2, <2>3, ChangeKeeps
<1>6. CASE SubmitResult(d)
  <2> DEFINE w == ~Quiet(d)
             t == defense[d].date
  <2>1. Change(d, "COMPLETED", t, {"result"}) /\ Disturb(d, w)
    BY <1>6 DEF SubmitResult, MaySubmit
  <2>2. \E k \in {"result"} : {"result"} = {k} /\ Fits(k, "COMPLETED")
    BY DEF Fits
  <2>3. {"result"} \in SUBSET Kinds /\ (w \/ Quiet(d)) /\ t \in Days
    BY <1>1 DEF Kinds
  <2> HIDE DEF w, t
  <2> QED
    BY <1>0, <2>1, <2>2, <2>3, ChangeKeeps
<1>7. CASE Regrade(d)
  <2> DEFINE w == defense[d].status # "COMPLETED" \/ ~Quiet(d)
             t == defense[d].date
  <2>1. Change(d, "COMPLETED", t, {}) /\ Disturb(d, w)
    BY <1>7 DEF Regrade
  <2>2. w \/ defense[d] = [status |-> "COMPLETED", date |-> t]
    BY <1>1
  <2>3. t \in Days
    BY <1>1
  <2> HIDE DEF w, t
  <2> QED
    BY <1>0, <2>1, <2>2, <2>3, ChangeKeeps
<1> QED
  BY <1>2, <1>3, <1>4, <1>5, <1>6, <1>7

LEMMA StartsKeep ==
    ASSUME IInv,
           \/ \E d \in Defenses : RemindOne(d) \/ \E kind \in Kinds : Notify(d, kind)
           \/ MailOne
    PROVE  IInv'
<1>1. TypeOK /\ MailsOK /\ RemindOK /\ \A d \in Defenses : DefenseOK(d)
  BY DEF IInv
<1>2. /\ due \in [Defenses -> SUBSET Kinds] /\ waiting \in Mailings \cup {NoMailing}
  BY <1>1 DEF TypeOK
<1>3. ASSUME NEW d \in Defenses, NEW kind \in Kinds, Notify(d, kind)
      PROVE  IInv'
  <2>1. /\ Start(d, kind, LastParticipant) /\ UNCHANGED clock
        /\ due' \in [Defenses -> SUBSET Kinds]
    BY <1>2, <1>3 DEF Notify
  <2>2. UNCHANGED <<today, pass, todo, waiting, notified, reminder>>
    BY <2>1 DEF clock
  <2>3. TypeOK'
    BY <1>1, <1>2, <2>1, <2>2, Sets, TypeStart
  <2>4. MailsOK' /\ RemindOK'
    BY <1>1, <2>1, Sets, MailsStart, RemindStart
  <2>5. \A e \in Defenses : DefenseOK(e)'
    BY <1>1, <1>3, DefensesNotify
  <2> QED
    BY <2>3, <2>4, <2>5 DEF IInv
<1>4. ASSUME NEW d \in Defenses, RemindOne(d)
      PROVE  IInv'
  <2>1. /\ Start(d, "scheduled", LastParticipant) /\ waiting' = started + 1
        /\ UNCHANGED <<due, today, pass, todo, notified, reminder>>
    BY <1>1, <1>4 DEF RemindOne, RemindOK
  <2>2. "scheduled" \in Kinds
    BY DEF Kinds
  <2>3. waiting' \in Mailings
    BY <1>1, <2>1, <2>2, Sets, StartLemma
  <2>4. TypeOK'
    BY <1>1, <1>2, <2>1, <2>2, <2>3, Sets, TypeStart
  <2>5. MailsOK' /\ RemindOK'
    BY <1>1, <1>4, <2>1, <2>2, Sets, MailsStart, RemindRemindOne
  <2>6. \A e \in Defenses : DefenseOK(e)'
    BY <1>1, <1>4, DefensesRemindOne
  <2> QED
    BY <2>4, <2>5, <2>6 DEF IInv
<1>5. CASE MailOne
  <2>1. Start(NoMailing, "none", 1) /\ UNCHANGED <<due, clock>>
    BY <1>5 DEF MailOne
  <2>2. UNCHANGED <<today, pass, todo, waiting, notified, reminder>>
    BY <2>1 DEF clock
  <2>3. TypeOK'
    BY <1>1, <1>2, <2>1, <2>2, Sets, TypeStart
  <2>4. MailsOK' /\ RemindOK'
    BY <1>1, <2>1, Sets, MailsStart, RemindStart
  <2>5. \A e \in Defenses : DefenseOK(e)'
    BY <1>1, <1>5, DefensesMailOne
  <2> QED
    BY <2>3, <2>4, <2>5 DEF IInv
<1> QED
  BY <1>3, <1>4, <1>5

LEMMA MailStepKeeps ==
    ASSUME IInv, NEW m \in Mailings, MailStep(m)
    PROVE  IInv'
<1>1. TypeOK /\ MailsOK /\ RemindOK /\ \A d \in Defenses : DefenseOK(d)
  BY DEF IInv
<1>2. TypeOK' /\ RemindOK'
  BY <1>1, TypeMailStep, RemindMailStep
<1>3. MailsOK'
  BY <1>1, MailsRead, MailsCreate, MailsSmtp, MailsMark, MailsRetry DEF MailStep
<1>4. \A d \in Defenses : DefenseOK(d)'
  BY <1>1, DefensesMailStep
<1> QED
  BY <1>2, <1>3, <1>4 DEF IInv

LEMMA ClockKeeps ==
    ASSUME IInv, Remind \/ EndPass \/ Midnight \/ Restart
    PROVE  IInv'
<1>1. TypeOK /\ MailsOK /\ RemindOK /\ \A d \in Defenses : DefenseOK(d)
  BY DEF IInv
<1>2. TypeOK' /\ RemindOK'
  BY <1>1, TypeClock, RemindClock, RemindRestart
<1>3. MailsOK'
  BY <1>1, MailsKept, MailsRestart DEF Remind, EndPass, Midnight
<1>4. ASSUME EndPass \/ Midnight, NEW d \in Defenses
      PROVE  DefenseOK(d)'
  <2>1. UNCHANGED <<defense, due, mailing, inbox, waiting, todo, disturbed>>
    BY <1>4 DEF EndPass, Midnight, mails
  <2> QED
    BY <1>1, <2>1, DefenseKept
<1>5. \A d \in Defenses : DefenseOK(d)'
  BY <1>1, <1>4, DefensesRemind, DefensesRestart
<1> QED
  BY <1>2, <1>3, <1>5 DEF IInv

\* A submission that stops leaves its document and nothing else.
LEMMA StutterKeeps ==
    ASSUME IInv, UNCHANGED vars \/ \E d \in Defenses : SubmitStops(d)
    PROVE  IInv'
<1>1. UNCHANGED <<defense, due, mailing, started, row, delivered, inbox, changes, today, pass,
                  todo, waiting, notified, reminder, doubt, disturbed>>
  BY DEF vars, mails, clock, requests, SubmitStops
<1>2. TypeOK'
  <2>1. documents' \subseteq Defenses
    BY DEF vars, requests, SubmitStops, IInv, TypeOK
  <2> QED
    BY <1>1, <2>1 DEF IInv, TypeOK
<1>3. MailsOK'
  BY <1>1, MailsKept DEF IInv, mails
<1>4. RemindOK'
  BY <1>1 DEF IInv, RemindOK, Over
<1>5. \A d \in Defenses : DefenseOK(d)'
  BY <1>1, DefenseKept DEF IInv
<1> QED
  BY <1>2, <1>3, <1>4, <1>5 DEF IInv

\* The inductive invariant, of every reachable state.
THEOREM Inductive == Spec => []IInv
<1>1. Init => IInv
  BY InitHolds
<1>2. IInv /\ [Next]_vars => IInv'
  <2> SUFFICES ASSUME IInv, [Next]_vars PROVE IInv'
    OBVIOUS
  <2>1. CASE UNCHANGED vars \/ \E d \in Defenses : SubmitStops(d)
    BY <2>1, StutterKeeps
  <2>2. CASE \E d \in Defenses :
               \/ \E day \in Days :
                     Schedule(d, day) \/ Reschedule(d, day) \/ UpdateDate(d, day)
               \/ Cancel(d) \/ SubmitResult(d) \/ Regrade(d)
    BY <2>2, HandlersKeep
  <2>3. CASE \/ \E d \in Defenses : RemindOne(d) \/ \E kind \in Kinds : Notify(d, kind)
             \/ MailOne
    BY <2>3, StartsKeep
  <2>4. CASE \E m \in Mailings : MailStep(m)
    BY <2>4, MailStepKeeps
  <2>5. CASE Remind \/ EndPass \/ Midnight \/ Restart
    BY <2>5, ClockKeeps
  <2> QED
    BY <2>1, <2>2, <2>3, <2>4, <2>5
    DEF Next, AskApprover, RemindApprover, TellOverridden, TellCompleted, WelcomeStudent,
        WelcomeAdvisor, WelcomeCoordinator
<1> QED
  BY <1>1, <1>2, PTL DEF Spec

\* Every variable keeps its type.
THEOREM TypeCorrect == Spec => []TypeOK
<1>1. IInv => TypeOK
  BY DEF IInv
<1> QED
  BY <1>1, Inductive, PTL

\* A row SENT was delivered; a row RETRY was not, unless an answer or an update
\* was lost (SendEmailUseCase and its handleError).
THEOREM StatusTrue == Spec => []StatusIsTrue
<1>1. IInv => StatusIsTrue
  BY DEF IInv, MailsOK
<1> QED
  BY <1>1, Inductive, PTL

\* Everybody was last told the date and the status a defense has, once all is
\* quiet, unless a mailing about it failed or crossed another, or its date was
\* updated or its result written by a new version without one (the NotifyDefense
\* use cases, CreateDocumentVersionUseCase).
THEOREM LastMailTrue == Spec => []LastMailIsTrue
<1>1. IInv => LastMailIsTrue
  <2> SUFFICES ASSUME IInv, NEW d \in Defenses, defense[d].status # "none",
                      d \notin disturbed, Quiet(d)
               PROVE  \A p \in Participants : Told(d, p)
    BY DEF LastMailIsTrue, Told, Fits
  <2>1. Track(d)
    BY DEF IInv, DefenseOK
  <2> QED
    BY <2>1 DEF Track, Quiet
<1> QED
  BY <1>1, Inductive, PTL

\* A reminder that has run left no defense of the day neither mailed nor failed
\* (DefenseNotificationScheduler).
THEOREM NoneForgotten == Spec => []NobodyForgotten
<1>1. IInv => NobodyForgotten
  BY DEF IInv, RemindOK, NobodyForgotten
<1> QED
  BY <1>1, Inductive, PTL

===============================================================================
