----------------------- MODULE DocumentApprovalProofs -----------------------
(***************************************************************************)
(* Theorems about DocumentApproval that hold for any number of handlers in *)
(* flight, any set of students, files and grades, and whatever fails.      *)
(*                                                                         *)
(* The argument: a handler writes back what it read, so the invariant says *)
(* of every handler in flight what it says of the tables.  HandlerOK is    *)
(* kept by the steps of other handlers because a document, once created,   *)
(* is never deleted and the ledger only grows (lemma HandlerKept); one     *)
(* lemma (StepKeeps) then reduces each action to what it writes itself.    *)
(***************************************************************************)
EXTENDS DocumentApproval, SequenceTheorems, TLAPS

\* A row that holds a document, and not the absence of one.
Full(row) == row.status # "none" /\ row.content # NoContent

\* What a document row, in the table or in a handler, says of the ledger l.
TxOK(v, row, l) ==
    /\ row.tx # 0 => row.tx \in 1..Len(l) /\ l[row.tx].doc = v
    /\ row.status = "APPROVED" => row.tx # 0

DocOK(v, row, l) == (row = NoDoc \/ Full(row)) /\ TxOK(v, row, l)

\* An approval row is a row of a document, and is signed when APPROVED.
RowOK(row, doc) ==
    /\ row.status = "APPROVED" => row.sig # NoContent
    /\ row.status # "none" => Full(doc)

Signed(rows) ==
    \A a \in Approvers : Exists(rows, a) => rows[a].sig # NoContent

Complete(record) == \A a \in Approvers : record.sigs[a] # NoContent

\* What a handler h knows of the documents table d and of the ledger l.
HandlerOK(h, d, l) ==
    /\ TxOK(h.doc, h.read, l)
    /\ h.pc \notin {"idle", "submit.create"} => Full(d[h.doc])
    /\ h.pc \in {"submit.create", "approve.approvals", "approve.sign",
                 "approve.advisor", "version.approvals", "version.replace",
                 "version.inactivate", "version.create"} => h.content # NoContent
    /\ h.pc \in {"submit.create", "submit.grade", "register.submit"} =>
          h.grade # NoGrade
    /\ h.pc \in {"register.defense", "register.submit", "register.save",
                 "version.approvals", "version.replace", "version.inactivate",
                 "version.create"} => Full(h.read)
    /\ h.pc \in {"register.document", "register.defense", "register.submit"} =>
          Signed(h.rows)
    /\ h.pc \in {"register.defense", "register.submit"} => HasAllRows(h.rows)
    /\ h.pc \in {"version.inactivate", "version.create"} => h.doc + 1 \in Versions
    /\ h.pc \in {"submit.create", "submit.grade"} => h.doc = 1

IInv ==
    /\ StateOK
    /\ \A v \in Versions : DocOK(v, docs[v], ledger)
    /\ \A v \in Versions, a \in Approvers : RowOK(appr[v][a], docs[v])
    /\ \A i \in 1..Len(ledger) : Complete(ledger[i])
    /\ \A r \in Requests : HandlerOK(req[r], docs, ledger)

-----------------------------------------------------------------------------
(* Documents are not deleted, and the ledger only grows by complete records. *)

Kept(d, d2) == \A v \in Versions : Full(d[v]) => Full(d2[v])

Grows(l, l2) ==
    l2 = l \/ \E e \in Record : Complete(e) /\ l2 = Append(l, e)

Docs == [Versions -> DocRow]
Appr == [Versions -> [Approvers -> ApprovalRow]]

\* Whatever was appended to the ledger, its old entries keep their places.
LEMMA LedgerGrows ==
    ASSUME NEW l \in Seq(Record), NEW l2, Grows(l, l2)
    PROVE  /\ l2 \in Seq(Record)
           /\ Len(l) <= Len(l2)
           /\ \A i \in 1..Len(l) : l2[i] = l[i]
           /\ \A i \in 1..Len(l2) : i \in 1..Len(l) \/ Complete(l2[i])
<1>1. CASE l2 = l
  BY <1>1
<1>2. ASSUME NEW e \in Record, Complete(e), l2 = Append(l, e)
      PROVE  /\ l2 \in Seq(Record)
             /\ Len(l2) = Len(l) + 1
             /\ \A i \in 1..Len(l) : l2[i] = l[i]
             /\ l2[Len(l) + 1] = e
  BY <1>2
<1>3. CASE \E e \in Record : Complete(e) /\ l2 = Append(l, e)
  <2>1. PICK e \in Record : Complete(e) /\ l2 = Append(l, e)
    BY <1>3
  <2> QED
    BY <1>2, <2>1
<1> QED
  BY <1>1, <1>3 DEF Grows

\* So what a row says of the ledger stays true.
LEMMA TxKept ==
    ASSUME NEW l \in Seq(Record), NEW l2, Grows(l, l2),
           NEW v \in Versions, NEW row \in DocRow, TxOK(v, row, l)
    PROVE  TxOK(v, row, l2)
BY LedgerGrows DEF TxOK, DocRow

\* And a handler's knowledge outlives the steps of the others.
LEMMA HandlerKept ==
    ASSUME NEW h \in Handler, NEW d \in Docs, NEW d2 \in Docs,
           NEW l \in Seq(Record), NEW l2, Grows(l, l2), Kept(d, d2),
           HandlerOK(h, d, l)
    PROVE  HandlerOK(h, d2, l2)
<1>1. h.doc \in Versions /\ h.read \in DocRow
  BY DEF Handler
<1>2. TxOK(h.doc, h.read, l2)
  BY <1>1, TxKept DEF HandlerOK
<1> QED
  BY <1>1, <1>2 DEF HandlerOK, Kept

-----------------------------------------------------------------------------
(* A step of the handler in slot r keeps the invariant when what it writes  *)
(* and what it becomes do.                                                  *)

LEMMA StepKeeps ==
    ASSUME IInv, NEW r \in Requests, NEW h \in Handler, Become(r, h),
           docs' \in Docs, appr' \in Appr, grade' \in Grades \cup {NoGrade},
           edits' \in 0..MaxEdits,
           Kept(docs, docs'), Grows(ledger, ledger'),
           \A v \in Versions : DocOK(v, docs'[v], ledger'),
           \A v \in Versions, a \in Approvers : RowOK(appr'[v][a], docs'[v]),
           HandlerOK(h, docs', ledger')
    PROVE  IInv'
<1>1. /\ req \in [Requests -> Handler] /\ docs \in Docs /\ ledger \in Seq(Record)
      /\ \A q \in Requests : HandlerOK(req[q], docs, ledger)
      /\ \A i \in 1..Len(ledger) : Complete(ledger[i])
  BY DEF IInv, StateOK, Docs
<1>2. req' = [req EXCEPT ![r] = h]
  BY DEF Become
<1>3. req' \in [Requests -> Handler]
  BY <1>1, <1>2
<1>4. ledger' \in Seq(Record)
  BY <1>1, LedgerGrows
<1>5. StateOK'
  BY <1>3, <1>4 DEF StateOK, Docs, Appr
<1>6. \A i \in 1..Len(ledger') : Complete(ledger'[i])
  <2>1. ASSUME NEW i \in 1..Len(ledger') PROVE Complete(ledger'[i])
    <3>1. i \in 1..Len(ledger) \/ Complete(ledger'[i])
      BY <1>1, <2>1, LedgerGrows
    <3>2. i \in 1..Len(ledger) => ledger'[i] = ledger[i]
      BY <1>1, LedgerGrows
    <3> QED
      BY <1>1, <3>1, <3>2
  <2> QED
    BY <2>1
<1>7. \A q \in Requests : HandlerOK(req'[q], docs', ledger')
  <2>1. SUFFICES ASSUME NEW q \in Requests
                 PROVE  HandlerOK(req'[q], docs', ledger')
    OBVIOUS
  <2>2. CASE q = r
    BY <1>1, <1>2, <2>2
  <2>3. CASE q # r
    <3>1. req'[q] = req[q] /\ req[q] \in Handler /\ HandlerOK(req[q], docs, ledger)
      BY <1>1, <1>2, <2>3
    <3>2. HandlerOK(req[q], docs', ledger')
      BY <1>1, <3>1, HandlerKept
    <3> QED
      BY <3>1, <3>2
  <2> QED
    BY <2>2, <2>3
<1> QED
  BY <1>5, <1>6, <1>7 DEF IInv

\* The handler moves on and writes at most the grade.
LEMMA HandlerMoves ==
    ASSUME IInv, NEW r \in Requests, NEW h \in Handler, Become(r, h),
           UNCHANGED <<docs, appr, ledger>>,
           grade' \in Grades \cup {NoGrade}, edits' \in 0..MaxEdits,
           HandlerOK(h, docs, ledger)
    PROVE  IInv'
<1>1. docs' = docs /\ appr' = appr /\ ledger' = ledger
  OBVIOUS
<1>2. docs \in Docs /\ appr \in Appr
  BY DEF IInv, StateOK, Docs, Appr
<1>3. Kept(docs, docs') /\ Grows(ledger, ledger')
  BY <1>1 DEF Kept, Grows
<1>4. \A v \in Versions : DocOK(v, docs'[v], ledger')
  BY <1>1 DEF IInv
<1>5. \A v \in Versions, a \in Approvers : RowOK(appr'[v][a], docs'[v])
  BY <1>1 DEF IInv
<1> QED
  BY <1>1, <1>2, <1>3, <1>4, <1>5, StepKeeps

\* The handler writes an approval row.
LEMMA RowWritten ==
    ASSUME IInv, NEW r \in Requests, NEW h \in Handler, Become(r, h),
           UNCHANGED <<docs, grade, ledger, edits>>,
           NEW v \in Versions, NEW a \in Approvers, NEW row \in ApprovalRow,
           appr' = [appr EXCEPT ![v][a] = row], RowOK(row, docs[v]),
           HandlerOK(h, docs, ledger)
    PROVE  IInv'
<1>1. docs' = docs /\ grade' = grade /\ ledger' = ledger /\ edits' = edits
  OBVIOUS
<1>2. docs \in Docs /\ appr \in Appr /\ grade \in Grades \cup {NoGrade} /\ edits \in 0..MaxEdits
  BY DEF IInv, StateOK, Docs, Appr
<1>3. appr' \in Appr
  BY <1>2 DEF Appr
<1>4. Kept(docs, docs') /\ Grows(ledger, ledger')
  BY <1>1 DEF Kept, Grows
<1>5. \A w \in Versions : DocOK(w, docs'[w], ledger')
  BY <1>1 DEF IInv
<1>6. \A w \in Versions, b \in Approvers : RowOK(appr'[w][b], docs'[w])
  <2>1. SUFFICES ASSUME NEW w \in Versions, NEW b \in Approvers
                 PROVE  RowOK(appr'[w][b], docs[w])
    BY <1>1
  <2>2. CASE w = v /\ b = a
    BY <1>2, <2>2 DEF Appr
  <2>3. CASE ~(w = v /\ b = a)
    <3>1. appr'[w][b] = appr[w][b]
      BY <1>2, <2>3 DEF Appr
    <3> QED
      BY <3>1 DEF IInv
  <2> QED
    BY <2>2, <2>3
<1> QED
  BY <1>1, <1>2, <1>3, <1>4, <1>5, <1>6, StepKeeps

\* The handler writes a document row.
LEMMA DocWritten ==
    ASSUME IInv, NEW r \in Requests, NEW h \in Handler, Become(r, h),
           UNCHANGED <<appr, grade, ledger, edits>>,
           NEW v \in Versions, NEW row \in DocRow,
           docs' = [docs EXCEPT ![v] = row], Full(row), TxOK(v, row, ledger),
           HandlerOK(h, docs', ledger)
    PROVE  IInv'
<1>1. appr' = appr /\ grade' = grade /\ ledger' = ledger /\ edits' = edits
  OBVIOUS
<1>2. docs \in Docs /\ appr \in Appr /\ grade \in Grades \cup {NoGrade} /\ edits \in 0..MaxEdits
  BY DEF IInv, StateOK, Docs, Appr
<1>3. docs' \in Docs
  BY <1>2 DEF Docs
<1>4. docs'[v] = row /\ \A w \in Versions : w # v => docs'[w] = docs[w]
  BY <1>2 DEF Docs
<1>5. Kept(docs, docs') /\ Grows(ledger, ledger')
  BY <1>1, <1>4 DEF Kept, Grows
<1>6. \A w \in Versions : DocOK(w, docs'[w], ledger')
  BY <1>1, <1>4 DEF IInv, DocOK
<1>7. \A w \in Versions, b \in Approvers : RowOK(appr'[w][b], docs'[w])
  BY <1>1, <1>4 DEF IInv, RowOK
<1> QED
  BY <1>1, <1>2, <1>3, <1>5, <1>6, <1>7, StepKeeps

\* The handler has a record committed.
LEMMA RecordAppended ==
    ASSUME IInv, NEW r \in Requests, NEW h \in Handler, Become(r, h),
           UNCHANGED <<docs, appr, grade, edits>>,
           NEW e \in Record, Complete(e), ledger' = Append(ledger, e),
           HandlerOK(h, docs, ledger')
    PROVE  IInv'
<1>1. docs' = docs /\ appr' = appr /\ grade' = grade /\ edits' = edits
  OBVIOUS
<1>2. docs \in Docs /\ appr \in Appr /\ grade \in Grades \cup {NoGrade} /\ edits \in 0..MaxEdits
  BY DEF IInv, StateOK, Docs, Appr
<1>3. Kept(docs, docs') /\ Grows(ledger, ledger')
  BY <1>1 DEF Kept, Grows
<1>4. ledger \in Seq(Record)
  BY DEF IInv, StateOK
<1>5. \A w \in Versions : DocOK(w, docs'[w], ledger')
  <2>1. \A w \in Versions : docs[w] \in DocRow /\ DocOK(w, docs[w], ledger)
    BY <1>2 DEF IInv, Docs
  <2> QED
    BY <1>1, <1>3, <1>4, <2>1, TxKept DEF DocOK
<1>6. \A w \in Versions, b \in Approvers : RowOK(appr'[w][b], docs'[w])
  BY <1>1 DEF IInv
<1> QED
  BY <1>1, <1>2, <1>3, <1>5, <1>6, StepKeeps

-----------------------------------------------------------------------------
(* What the updates of a handler's record amount to, field by field.        *)

HandlerOf(p, d, w, x, y, c, g, t) ==
    [pc |-> p, doc |-> d, who |-> w, read |-> x, rows |-> y,
     content |-> c, grade |-> g, todo |-> t]

LEMMA HandlerFields ==
    \A h \in Handler :
        h = HandlerOf(h.pc, h.doc, h.who, h.read, h.rows, h.content, h.grade, h.todo)
BY DEF Handler, HandlerOf

LEMMA FieldSet ==
    \A p, d, w, x, y, c, g, t, z :
        /\ [HandlerOf(p, d, w, x, y, c, g, t) EXCEPT !.pc = z] =
              HandlerOf(z, d, w, x, y, c, g, t)
        /\ [HandlerOf(p, d, w, x, y, c, g, t) EXCEPT !.doc = z] =
              HandlerOf(p, z, w, x, y, c, g, t)
        /\ [HandlerOf(p, d, w, x, y, c, g, t) EXCEPT !.who = z] =
              HandlerOf(p, d, z, x, y, c, g, t)
        /\ [HandlerOf(p, d, w, x, y, c, g, t) EXCEPT !.read = z] =
              HandlerOf(p, d, w, z, y, c, g, t)
        /\ [HandlerOf(p, d, w, x, y, c, g, t) EXCEPT !.rows = z] =
              HandlerOf(p, d, w, x, z, c, g, t)
        /\ [HandlerOf(p, d, w, x, y, c, g, t) EXCEPT !.content = z] =
              HandlerOf(p, d, w, x, y, z, g, t)
        /\ [HandlerOf(p, d, w, x, y, c, g, t) EXCEPT !.grade = z] =
              HandlerOf(p, d, w, x, y, c, z, t)
        /\ [HandlerOf(p, d, w, x, y, c, g, t) EXCEPT !.todo = z] =
              HandlerOf(p, d, w, x, y, c, g, z)
BY DEF HandlerOf

LEMMA SetPc ==
    ASSUME NEW h \in Handler, NEW p
    PROVE  [h EXCEPT !.pc = p] =
             HandlerOf(p, h.doc, h.who, h.read, h.rows, h.content, h.grade, h.todo)
<1> DEFINE h1 == [h EXCEPT !.pc = p]
<1>1. h1 = HandlerOf(p, h.doc, h.who, h.read, h.rows, h.content, h.grade, h.todo)
  BY HandlerFields, FieldSet
<1> QED
  BY <1>1 DEF h1

LEMMA SetGrade ==
    ASSUME NEW h \in Handler, NEW g
    PROVE  [h EXCEPT !.grade = g] =
             HandlerOf(h.pc, h.doc, h.who, h.read, h.rows, h.content, g, h.todo)
<1> DEFINE h1 == [h EXCEPT !.grade = g]
<1>1. h1 = HandlerOf(h.pc, h.doc, h.who, h.read, h.rows, h.content, g, h.todo)
  BY HandlerFields, FieldSet
<1> QED
  BY <1>1 DEF h1

LEMMA SetTodo ==
    ASSUME NEW h \in Handler, NEW t
    PROVE  [h EXCEPT !.todo = t] =
             HandlerOf(h.pc, h.doc, h.who, h.read, h.rows, h.content, h.grade, t)
<1> DEFINE h1 == [h EXCEPT !.todo = t]
<1>1. h1 = HandlerOf(h.pc, h.doc, h.who, h.read, h.rows, h.content, h.grade, t)
  BY HandlerFields, FieldSet
<1> QED
  BY <1>1 DEF h1

LEMMA SetPcContent ==
    ASSUME NEW h \in Handler, NEW p, NEW c
    PROVE  [h EXCEPT !.pc = p, !.content = c] =
             HandlerOf(p, h.doc, h.who, h.read, h.rows, c, h.grade, h.todo)
<1> DEFINE h1 == [h EXCEPT !.pc = p]
           h2 == [h1 EXCEPT !.content = c]
<1>1. h1 = HandlerOf(p, h.doc, h.who, h.read, h.rows, h.content, h.grade, h.todo)
  BY HandlerFields, FieldSet
<1> HIDE DEF h1
<1>2. h2 = HandlerOf(p, h.doc, h.who, h.read, h.rows, c, h.grade, h.todo)
  BY <1>1, FieldSet
<1> QED
  BY <1>2 DEF h1, h2

LEMMA SetPcTodo ==
    ASSUME NEW h \in Handler, NEW p, NEW t
    PROVE  [h EXCEPT !.pc = p, !.todo = t] =
             HandlerOf(p, h.doc, h.who, h.read, h.rows, h.content, h.grade, t)
<1> DEFINE h1 == [h EXCEPT !.pc = p]
           h2 == [h1 EXCEPT !.todo = t]
<1>1. h1 = HandlerOf(p, h.doc, h.who, h.read, h.rows, h.content, h.grade, h.todo)
  BY HandlerFields, FieldSet
<1> HIDE DEF h1
<1>2. h2 = HandlerOf(p, h.doc, h.who, h.read, h.rows, h.content, h.grade, t)
  BY <1>1, FieldSet
<1> QED
  BY <1>2 DEF h1, h2

LEMMA SetPcRows ==
    ASSUME NEW h \in Handler, NEW p, NEW y
    PROVE  [h EXCEPT !.pc = p, !.rows = y] =
             HandlerOf(p, h.doc, h.who, h.read, y, h.content, h.grade, h.todo)
<1> DEFINE h1 == [h EXCEPT !.pc = p]
           h2 == [h1 EXCEPT !.rows = y]
<1>1. h1 = HandlerOf(p, h.doc, h.who, h.read, h.rows, h.content, h.grade, h.todo)
  BY HandlerFields, FieldSet
<1> HIDE DEF h1
<1>2. h2 = HandlerOf(p, h.doc, h.who, h.read, y, h.content, h.grade, h.todo)
  BY <1>1, FieldSet
<1> QED
  BY <1>2 DEF h1, h2

LEMMA SetPcRead ==
    ASSUME NEW h \in Handler, NEW p, NEW x
    PROVE  [h EXCEPT !.pc = p, !.read = x] =
             HandlerOf(p, h.doc, h.who, x, h.rows, h.content, h.grade, h.todo)
<1> DEFINE h1 == [h EXCEPT !.pc = p]
           h2 == [h1 EXCEPT !.read = x]
<1>1. h1 = HandlerOf(p, h.doc, h.who, h.read, h.rows, h.content, h.grade, h.todo)
  BY HandlerFields, FieldSet
<1> HIDE DEF h1
<1>2. h2 = HandlerOf(p, h.doc, h.who, x, h.rows, h.content, h.grade, h.todo)
  BY <1>1, FieldSet
<1> QED
  BY <1>2 DEF h1, h2

LEMMA SetPcGrade ==
    ASSUME NEW h \in Handler, NEW p, NEW g
    PROVE  [h EXCEPT !.pc = p, !.grade = g] =
             HandlerOf(p, h.doc, h.who, h.read, h.rows, h.content, g, h.todo)
<1> DEFINE h1 == [h EXCEPT !.pc = p]
           h2 == [h1 EXCEPT !.grade = g]
<1>1. h1 = HandlerOf(p, h.doc, h.who, h.read, h.rows, h.content, h.grade, h.todo)
  BY HandlerFields, FieldSet
<1> HIDE DEF h1
<1>2. h2 = HandlerOf(p, h.doc, h.who, h.read, h.rows, h.content, g, h.todo)
  BY <1>1, FieldSet
<1> QED
  BY <1>2 DEF h1, h2

LEMMA SetPcDoc ==
    ASSUME NEW h \in Handler, NEW p, NEW d
    PROVE  [h EXCEPT !.pc = p, !.doc = d] =
             HandlerOf(p, d, h.who, h.read, h.rows, h.content, h.grade, h.todo)
<1> DEFINE h1 == [h EXCEPT !.pc = p]
           h2 == [h1 EXCEPT !.doc = d]
<1>1. h1 = HandlerOf(p, h.doc, h.who, h.read, h.rows, h.content, h.grade, h.todo)
  BY HandlerFields, FieldSet
<1> HIDE DEF h1
<1>2. h2 = HandlerOf(p, d, h.who, h.read, h.rows, h.content, h.grade, h.todo)
  BY <1>1, FieldSet
<1> QED
  BY <1>2 DEF h1, h2

LEMMA SetPcDocWho ==
    ASSUME NEW h \in Handler, NEW p, NEW d, NEW w
    PROVE  [h EXCEPT !.pc = p, !.doc = d, !.who = w] =
             HandlerOf(p, d, w, h.read, h.rows, h.content, h.grade, h.todo)
<1> DEFINE h1 == [h EXCEPT !.pc = p]
           h2 == [h1 EXCEPT !.doc = d]
           h3 == [h2 EXCEPT !.who = w]
<1>1. h1 = HandlerOf(p, h.doc, h.who, h.read, h.rows, h.content, h.grade, h.todo)
  BY HandlerFields, FieldSet
<1> HIDE DEF h1
<1>2. h2 = HandlerOf(p, d, h.who, h.read, h.rows, h.content, h.grade, h.todo)
  BY <1>1, FieldSet
<1> HIDE DEF h2
<1>3. h3 = HandlerOf(p, d, w, h.read, h.rows, h.content, h.grade, h.todo)
  BY <1>2, FieldSet
<1> QED
  BY <1>3 DEF h1, h2, h3

LEMMA SetPcDocGrade ==
    ASSUME NEW h \in Handler, NEW p, NEW d, NEW g
    PROVE  [h EXCEPT !.pc = p, !.doc = d, !.grade = g] =
             HandlerOf(p, d, h.who, h.read, h.rows, h.content, g, h.todo)
<1> DEFINE h1 == [h EXCEPT !.pc = p]
           h2 == [h1 EXCEPT !.doc = d]
           h3 == [h2 EXCEPT !.grade = g]
<1>1. h1 = HandlerOf(p, h.doc, h.who, h.read, h.rows, h.content, h.grade, h.todo)
  BY HandlerFields, FieldSet
<1> HIDE DEF h1
<1>2. h2 = HandlerOf(p, d, h.who, h.read, h.rows, h.content, h.grade, h.todo)
  BY <1>1, FieldSet
<1> HIDE DEF h2
<1>3. h3 = HandlerOf(p, d, h.who, h.read, h.rows, h.content, g, h.todo)
  BY <1>2, FieldSet
<1> QED
  BY <1>3 DEF h1, h2, h3

LEMMA SetPcContentGrade ==
    ASSUME NEW h \in Handler, NEW p, NEW c, NEW g
    PROVE  [h EXCEPT !.pc = p, !.content = c, !.grade = g] =
             HandlerOf(p, h.doc, h.who, h.read, h.rows, c, g, h.todo)
<1> DEFINE h1 == [h EXCEPT !.pc = p]
           h2 == [h1 EXCEPT !.content = c]
           h3 == [h2 EXCEPT !.grade = g]
<1>1. h1 = HandlerOf(p, h.doc, h.who, h.read, h.rows, h.content, h.grade, h.todo)
  BY HandlerFields, FieldSet
<1> HIDE DEF h1
<1>2. h2 = HandlerOf(p, h.doc, h.who, h.read, h.rows, c, h.grade, h.todo)
  BY <1>1, FieldSet
<1> HIDE DEF h2
<1>3. h3 = HandlerOf(p, h.doc, h.who, h.read, h.rows, c, g, h.todo)
  BY <1>2, FieldSet
<1> QED
  BY <1>3 DEF h1, h2, h3

LEMMA SetPcDocGradeTodo ==
    ASSUME NEW h \in Handler, NEW p, NEW d, NEW g, NEW t
    PROVE  [h EXCEPT !.pc = p, !.doc = d, !.grade = g, !.todo = t] =
             HandlerOf(p, d, h.who, h.read, h.rows, h.content, g, t)
<1> DEFINE h1 == [h EXCEPT !.pc = p]
           h2 == [h1 EXCEPT !.doc = d]
           h3 == [h2 EXCEPT !.grade = g]
           h4 == [h3 EXCEPT !.todo = t]
<1>1. h1 = HandlerOf(p, h.doc, h.who, h.read, h.rows, h.content, h.grade, h.todo)
  BY HandlerFields, FieldSet
<1> HIDE DEF h1
<1>2. h2 = HandlerOf(p, d, h.who, h.read, h.rows, h.content, h.grade, h.todo)
  BY <1>1, FieldSet
<1> HIDE DEF h2
<1>3. h3 = HandlerOf(p, d, h.who, h.read, h.rows, h.content, g, h.todo)
  BY <1>2, FieldSet
<1> HIDE DEF h3
<1>4. h4 = HandlerOf(p, d, h.who, h.read, h.rows, h.content, g, t)
  BY <1>3, FieldSet
<1> QED
  BY <1>4 DEF h1, h2, h3, h4

LEMMA SetPcRowsGradeRead ==
    ASSUME NEW h \in Handler, NEW p, NEW y, NEW g, NEW x
    PROVE  [h EXCEPT !.pc = p, !.rows = y, !.grade = g, !.read = x] =
             HandlerOf(p, h.doc, h.who, x, y, h.content, g, h.todo)
<1> DEFINE h1 == [h EXCEPT !.pc = p]
           h2 == [h1 EXCEPT !.rows = y]
           h3 == [h2 EXCEPT !.grade = g]
           h4 == [h3 EXCEPT !.read = x]
<1>1. h1 = HandlerOf(p, h.doc, h.who, h.read, h.rows, h.content, h.grade, h.todo)
  BY HandlerFields, FieldSet
<1> HIDE DEF h1
<1>2. h2 = HandlerOf(p, h.doc, h.who, h.read, y, h.content, h.grade, h.todo)
  BY <1>1, FieldSet
<1> HIDE DEF h2
<1>3. h3 = HandlerOf(p, h.doc, h.who, h.read, y, h.content, g, h.todo)
  BY <1>2, FieldSet
<1> HIDE DEF h3
<1>4. h4 = HandlerOf(p, h.doc, h.who, x, y, h.content, g, h.todo)
  BY <1>3, FieldSet
<1> QED
  BY <1>4 DEF h1, h2, h3, h4

LEMMA SetPcDocReadContentGrade ==
    ASSUME NEW h \in Handler, NEW p, NEW d, NEW x, NEW c, NEW g
    PROVE  [h EXCEPT !.pc = p, !.doc = d, !.read = x, !.content = c, !.grade = g] =
             HandlerOf(p, d, h.who, x, h.rows, c, g, h.todo)
<1> DEFINE h1 == [h EXCEPT !.pc = p]
           h2 == [h1 EXCEPT !.doc = d]
           h3 == [h2 EXCEPT !.read = x]
           h4 == [h3 EXCEPT !.content = c]
           h5 == [h4 EXCEPT !.grade = g]
<1>1. h1 = HandlerOf(p, h.doc, h.who, h.read, h.rows, h.content, h.grade, h.todo)
  BY HandlerFields, FieldSet
<1> HIDE DEF h1
<1>2. h2 = HandlerOf(p, d, h.who, h.read, h.rows, h.content, h.grade, h.todo)
  BY <1>1, FieldSet
<1> HIDE DEF h2
<1>3. h3 = HandlerOf(p, d, h.who, x, h.rows, h.content, h.grade, h.todo)
  BY <1>2, FieldSet
<1> HIDE DEF h3
<1>4. h4 = HandlerOf(p, d, h.who, x, h.rows, c, h.grade, h.todo)
  BY <1>3, FieldSet
<1> HIDE DEF h4
<1>5. h5 = HandlerOf(p, d, h.who, x, h.rows, c, g, h.todo)
  BY <1>4, FieldSet
<1> QED
  BY <1>5 DEF h1, h2, h3, h4, h5

-----------------------------------------------------------------------------
(* What the invariant says of the handler in slot r and of an idle one.     *)

LEMMA Known ==
    ASSUME IInv, NEW r \in Requests
    PROVE  /\ req[r] \in Handler /\ HandlerOK(req[r], docs, ledger)
           /\ docs \in Docs /\ appr \in Appr /\ ledger \in Seq(Record)
           /\ grade \in Grades \cup {NoGrade} /\ edits \in 0..MaxEdits
           /\ \A v \in Versions :
                 docs[v] \in DocRow /\ DocOK(v, docs[v], ledger)
           /\ \A v \in Versions, a \in Approvers :
                 appr[v][a] \in ApprovalRow /\ RowOK(appr[v][a], docs[v])
BY DEF IInv, StateOK, Docs, Appr

LEMMA Nothing == NoDoc \in DocRow /\ NoRow \in ApprovalRow
                 /\ NoRows \in [Approvers -> ApprovalRow]
                 /\ Pending \in ApprovalRow /\ Rejected \in ApprovalRow
BY DEF NoDoc, DocRow, NoRow, NoRows, ApprovalRow, Pending, Rejected

LEMMA IdleHandler ==
    /\ Idle \in Handler
    /\ Idle = HandlerOf("idle", 1, Coordinator, NoDoc, NoRows, NoContent, NoGrade, {})
    /\ \A d, l : HandlerOK(Idle, d, l)
<1>1. 1 \in Versions /\ Coordinator \in Approvers
  BY BoundsAssumption DEF Versions, Approvers
<1>2. Idle \in Handler
  BY <1>1, Nothing DEF Idle, Handler
<1>3. \A d, l : HandlerOK(Idle, d, l)
  BY DEF HandlerOK, Idle, TxOK, NoDoc
<1> QED
  BY <1>2, <1>3 DEF Idle, HandlerOf

LEMMA IdleType == Idle \in Handler
BY IdleHandler

LEMMA IdleFields ==
    /\ Idle.pc = "idle" /\ Idle.doc = 1 /\ Idle.who = Coordinator
    /\ Idle.read = NoDoc /\ Idle.rows = NoRows
    /\ Idle.content = NoContent /\ Idle.grade = NoGrade /\ Idle.todo = {}
BY DEF Idle

\* A handler that ends keeps the invariant if it writes nothing.
LEMMA Ends ==
    ASSUME IInv, NEW r \in Requests, Become(r, Idle),
           UNCHANGED <<docs, appr, grade, ledger, edits>>
    PROVE  IInv'
<1>1. grade' \in Grades \cup {NoGrade} /\ edits' \in 0..MaxEdits
  BY Known
<1> QED
  BY <1>1, IdleHandler, HandlerMoves

-----------------------------------------------------------------------------
(* One lemma per action.                                                    *)

LEMMA SubmitBeginKeeps ==
    ASSUME IInv, NEW r \in Requests, NEW c \in Contents, NEW g \in Grades,
           SubmitBegin(r, c, g)
    PROVE  IInv'
<1> DEFINE h == [Idle EXCEPT !.pc = "submit.create", !.content = c, !.grade = g]
<1>1. h = HandlerOf("submit.create", 1, Coordinator, NoDoc, NoRows, c, g, {})
  <2>1. h = HandlerOf("submit.create", Idle.doc, Idle.who, Idle.read, Idle.rows, c, g,
                      Idle.todo)
    BY IdleType, SetPcContentGrade, Zenon
  <2> HIDE DEF h
  <2> QED
    BY <2>1, IdleFields
<1>2. Become(r, h) /\ UNCHANGED <<docs, appr, grade, ledger, edits>>
  BY DEF SubmitBegin, Begin
<1> HIDE DEF h
<1>3. h \in Handler
  BY <1>1, IdleHandler DEF HandlerOf, Handler
<1>4. HandlerOK(h, docs, ledger)
  BY <1>1, DataAssumption DEF HandlerOf, HandlerOK, TxOK, NoDoc
<1>5. grade' \in Grades \cup {NoGrade} /\ edits' \in 0..MaxEdits
  BY <1>2, Known
<1> QED
  BY <1>2, <1>3, <1>4, <1>5, HandlerMoves

LEMMA SubmitCreateKeeps ==
    ASSUME IInv, NEW r \in Requests, SubmitCreate(r)
    PROVE  IInv'
<1> DEFINE h == [req[r] EXCEPT !.pc = "submit.grade", !.content = NoContent]
           row == NewDocument(req[r].content)
<1>1. CASE docs[1] # NoDoc
  BY <1>1, Ends DEF SubmitCreate
<1>2. CASE docs[1] = NoDoc
  <2>1. /\ Become(r, h) /\ docs' = [docs EXCEPT ![1] = row]
        /\ UNCHANGED <<appr, grade, ledger, edits>>
    BY <1>2 DEF SubmitCreate
  <2>2. h = HandlerOf("submit.grade", req[r].doc, req[r].who, req[r].read,
                      req[r].rows, NoContent, req[r].grade, req[r].todo)
    BY Known, SetPcContent, Zenon
  <2> HIDE DEF h
  <2>3. /\ req[r] \in Handler /\ HandlerOK(req[r], docs, ledger)
        /\ req[r].pc = "submit.create" /\ docs \in Docs
    BY Known DEF SubmitCreate
  <2>4. /\ 1 \in Versions /\ req[r].doc = 1
        /\ req[r].content \in Contents /\ req[r].grade # NoGrade
    BY <2>3, BoundsAssumption DEF Versions, HandlerOK, Handler
  <2>5. row \in DocRow /\ Full(row) /\ TxOK(1, row, ledger)
    BY <2>4, DataAssumption DEF NewDocument, DocRow, Full, TxOK
  <2> HIDE DEF row
  <2>6. docs'[1] = row
    BY <2>1, <2>3, <2>4 DEF Docs
  <2>7. h \in Handler
    BY <2>2, <2>3 DEF Handler, HandlerOf
  <2>8. HandlerOK(h, docs', ledger)
    BY <2>2, <2>3, <2>4, <2>5, <2>6 DEF HandlerOK, HandlerOf
  <2> QED
    BY <2>1, <2>4, <2>5, <2>7, <2>8, DocWritten
<1> QED
  BY <1>1, <1>2

LEMMA SubmitGradeKeeps ==
    ASSUME IInv, NEW r \in Requests, SubmitGrade(r)
    PROVE  IInv'
<1> DEFINE h == [Idle EXCEPT !.pc = "create.rows", !.todo = Approvers]
<1>1. h = HandlerOf("create.rows", Idle.doc, Idle.who, Idle.read, Idle.rows,
                    Idle.content, Idle.grade, Approvers)
  BY IdleType, SetPcTodo, Zenon
<1>2. /\ Become(r, h) /\ grade' = req[r].grade
      /\ UNCHANGED <<docs, appr, ledger, edits>>
  BY DEF SubmitGrade
<1> HIDE DEF h
<1>3. /\ req[r] \in Handler /\ HandlerOK(req[r], docs, ledger)
      /\ req[r].pc = "submit.grade" /\ edits \in 0..MaxEdits
  BY Known DEF SubmitGrade
<1>4. h \in Handler
  BY <1>1, IdleHandler, IdleFields DEF Handler, HandlerOf
<1>5. HandlerOK(h, docs, ledger)
  BY <1>1, <1>3, IdleFields DEF HandlerOK, HandlerOf, TxOK, NoDoc
<1>6. grade' \in Grades \cup {NoGrade} /\ edits' \in 0..MaxEdits
  BY <1>2, <1>3 DEF Handler
<1> QED
  BY <1>2, <1>4, <1>5, <1>6, HandlerMoves

\* While it settles what is left, a handler only needs its document.
LEMMA Settles ==
    ASSUME IInv, NEW r \in Requests, NEW h \in Handler, Settle(r, h),
           h.pc \in {"create.rows", "reset.write"}, h.doc = req[r].doc,
           h.read = req[r].read, req[r].pc \notin {"idle", "submit.create"}
    PROVE  \E k \in Handler : Become(r, k) /\ HandlerOK(k, docs, ledger)
<1>1. HandlerOK(h, docs, ledger)
  BY Known DEF HandlerOK
<1>2. Become(r, Idle) \/ Become(r, h)
  BY DEF Settle
<1> QED
  BY <1>1, <1>2, IdleHandler

LEMMA PendingRowKeeps ==
    ASSUME IInv, NEW r \in Requests, CreateRow(r) \/ ResetWrite(r)
    PROVE  IInv'
<1>1. PICK a \in First(req[r].todo) :
         /\ appr' = [appr EXCEPT ![req[r].doc][a] = Pending]
         /\ Settle(r, [req[r] EXCEPT !.todo = @ \ {a}])
  BY DEF CreateRow, ResetWrite
<1> DEFINE h == [req[r] EXCEPT !.todo = @ \ {a}]
<1>2. /\ req[r] \in Handler /\ HandlerOK(req[r], docs, ledger)
      /\ req[r].pc \in {"create.rows", "reset.write"}
      /\ UNCHANGED <<docs, grade, ledger, edits>>
  BY Known DEF CreateRow, ResetWrite
<1>3. h = HandlerOf(req[r].pc, req[r].doc, req[r].who, req[r].read, req[r].rows,
                    req[r].content, req[r].grade, req[r].todo \ {a})
  BY <1>2, SetTodo, Zenon
<1>4. Settle(r, h)
  BY <1>1
<1> HIDE DEF h
<1>5. h \in Handler
  BY <1>2, <1>3 DEF Handler, HandlerOf
<1>6. PICK k \in Handler : Become(r, k) /\ HandlerOK(k, docs, ledger)
  <2>1. h.pc = req[r].pc /\ h.doc = req[r].doc /\ h.read = req[r].read
    BY <1>3 DEF HandlerOf
  <2> QED
    BY <1>2, <1>4, <1>5, <2>1, Settles
<1>7. a \in Approvers /\ req[r].doc \in Versions
  BY <1>2 DEF First, Handler
<1>8. RowOK(Pending, docs[req[r].doc])
  BY <1>2 DEF HandlerOK, RowOK, Pending
<1> QED
  BY <1>1, <1>2, <1>6, <1>7, <1>8, Nothing, RowWritten

LEMMA CreateRowsFailsKeeps ==
    ASSUME IInv, NEW r \in Requests, CreateRowsFails(r)
    PROVE  IInv'
<1> DEFINE h == [req[r] EXCEPT !.todo = {}]
<1>1. /\ req[r] \in Handler /\ req[r].pc = "create.rows"
      /\ UNCHANGED <<docs, appr, grade, ledger, edits>>
      /\ grade \in Grades \cup {NoGrade} /\ edits \in 0..MaxEdits
      /\ Settle(r, h)
  BY Known DEF CreateRowsFails
<1>2. h = HandlerOf(req[r].pc, req[r].doc, req[r].who, req[r].read, req[r].rows,
                    req[r].content, req[r].grade, {})
  BY <1>1, SetTodo, Zenon
<1> HIDE DEF h
<1>3. h \in Handler
  BY <1>1, <1>2 DEF Handler, HandlerOf
<1>4. h.pc = req[r].pc /\ h.doc = req[r].doc /\ h.read = req[r].read
  BY <1>2 DEF HandlerOf
<1>5. PICK k \in Handler : Become(r, k) /\ HandlerOK(k, docs, ledger)
  BY <1>1, <1>3, <1>4, Settles
<1> QED
  BY <1>1, <1>5, HandlerMoves

LEMMA UpdateGradeKeeps ==
    ASSUME IInv, NEW r \in Requests, UpdateGrade(r)
    PROVE  IInv'
<1> DEFINE h == [req[r] EXCEPT !.grade = NoGrade]
<1>1. /\ req[r] \in Handler /\ req[r].pc \in {"create.rows", "reset.write"}
      /\ UNCHANGED <<docs, appr, ledger, edits>> /\ grade' = req[r].grade
      /\ edits \in 0..MaxEdits /\ Settle(r, h)
  BY Known DEF UpdateGrade
<1>2. h = HandlerOf(req[r].pc, req[r].doc, req[r].who, req[r].read, req[r].rows,
                    req[r].content, NoGrade, req[r].todo)
  BY <1>1, SetGrade, Zenon
<1> HIDE DEF h
<1>3. h \in Handler
  BY <1>1, <1>2 DEF Handler, HandlerOf
<1>4. h.pc = req[r].pc /\ h.doc = req[r].doc /\ h.read = req[r].read
  BY <1>2 DEF HandlerOf
<1>5. PICK k \in Handler : Become(r, k) /\ HandlerOK(k, docs, ledger)
  BY <1>1, <1>3, <1>4, Settles
<1>6. grade' \in Grades \cup {NoGrade}
  BY <1>1 DEF Handler
<1> QED
  BY <1>1, <1>5, <1>6, HandlerMoves

\* approve, reject and override all begin with a row of an existing document.
LEMMA RowRequestKeeps ==
    ASSUME IInv, NEW r \in Requests, NEW v \in Versions, NEW a \in Approvers,
           ApproveBegin(r, v, a) \/ RejectBegin(r, v, a) \/ OverrideBegin(r, v, a)
    PROVE  IInv'
<1>1. PICK p \in {"approve.document", "reject.save", "override.save"} :
         Become(r, [Idle EXCEPT !.pc = p, !.doc = v, !.who = a])
  BY DEF ApproveBegin, RejectBegin, OverrideBegin, Begin
<1> DEFINE h == [Idle EXCEPT !.pc = p, !.doc = v, !.who = a]
<1>2. h = HandlerOf(p, v, a, Idle.read, Idle.rows, Idle.content, Idle.grade, Idle.todo)
  BY IdleType, SetPcDocWho, Zenon
<1>3. Become(r, h)
  BY <1>1
<1> HIDE DEF h
<1>4. UNCHANGED <<docs, appr, grade, ledger, edits>> /\ appr[v][a].status # "none"
  BY DEF ApproveBegin, RejectBegin, OverrideBegin, IsOpen
<1>5. Full(docs[v])
  BY <1>4, Known DEF RowOK
<1>6. h \in Handler
  BY <1>2, IdleHandler, IdleFields DEF Handler, HandlerOf
<1>7. HandlerOK(h, docs, ledger)
  BY <1>2, <1>5, IdleFields DEF HandlerOK, HandlerOf, TxOK, NoDoc
<1>8. grade' \in Grades \cup {NoGrade} /\ edits' \in 0..MaxEdits
  BY <1>4, Known
<1> QED
  BY <1>3, <1>4, <1>6, <1>7, <1>8, HandlerMoves


\* The step of a handler that only reads: what it becomes is all there is to show.
LEMMA ReadStep ==
    ASSUME IInv, NEW r \in Requests, NEW h \in Handler, Become(r, h),
           UNCHANGED <<docs, appr, grade, ledger, edits>>,
           HandlerOK(h, docs, ledger)
    PROVE  IInv'
<1>1. grade' \in Grades \cup {NoGrade} /\ edits' \in 0..MaxEdits
  BY Known
<1> QED
  BY <1>1, HandlerMoves

LEMMA ApproveLoadDocumentKeeps ==
    ASSUME IInv, NEW r \in Requests, ApproveLoadDocument(r)
    PROVE  IInv'
<1> DEFINE p == IF req[r].who = Coordinator THEN "approve.approvals" ELSE "approve.sign"
           h == [req[r] EXCEPT !.pc = p, !.content = docs[req[r].doc].content]
<1>1. /\ req[r] \in Handler /\ HandlerOK(req[r], docs, ledger)
      /\ req[r].pc = "approve.document"
      /\ \A v \in Versions : docs[v] \in DocRow
      /\ Become(r, h) /\ UNCHANGED <<docs, appr, grade, ledger, edits>>
  BY Known DEF ApproveLoadDocument
<1>2. p \in {"approve.approvals", "approve.sign"}
  OBVIOUS
<1> HIDE DEF p
<1>3. h = HandlerOf(p, req[r].doc, req[r].who, req[r].read, req[r].rows,
                    docs[req[r].doc].content, req[r].grade, req[r].todo)
  BY <1>1, SetPcContent, Zenon
<1> HIDE DEF h
<1>4. req[r].doc \in Versions /\ Full(docs[req[r].doc]) /\ docs[req[r].doc] \in DocRow
  BY <1>1 DEF HandlerOK, Handler
<1>5. h \in Handler
  BY <1>1, <1>2, <1>3, <1>4 DEF Handler, HandlerOf, DocRow
<1>6. HandlerOK(h, docs, ledger)
  BY <1>1, <1>2, <1>3, <1>4 DEF HandlerOK, HandlerOf, Full
<1> QED
  BY <1>1, <1>5, <1>6, ReadStep

LEMMA ApproveLoadApprovalsKeeps ==
    ASSUME IInv, NEW r \in Requests, ApproveLoadApprovals(r)
    PROVE  IInv'
<1> DEFINE t == AutoApproved(appr[req[r].doc])
           h == [req[r] EXCEPT !.pc = "approve.sign", !.todo = t]
<1>1. /\ req[r] \in Handler /\ HandlerOK(req[r], docs, ledger)
      /\ req[r].pc = "approve.approvals"
      /\ UNCHANGED <<docs, appr, grade, ledger, edits>>
      /\ Become(r, h) \/ Become(r, Idle)
  BY Known DEF ApproveLoadApprovals
<1>2. t \in SUBSET Approvers
  BY DEF AutoApproved, Approvers
<1> HIDE DEF t
<1>3. h = HandlerOf("approve.sign", req[r].doc, req[r].who, req[r].read, req[r].rows,
                    req[r].content, req[r].grade, t)
  BY <1>1, SetPcTodo, Zenon
<1> HIDE DEF h
<1>4. h \in Handler
  BY <1>1, <1>2, <1>3 DEF Handler, HandlerOf
<1>5. HandlerOK(h, docs, ledger)
  BY <1>1, <1>3 DEF HandlerOK, HandlerOf
<1> QED
  BY <1>1, <1>4, <1>5, ReadStep, Ends

\* Every approval hands its document over to the registration.
LEMMA Registering ==
    ASSUME NEW h \in Handler, Full(docs[h.doc])
    PROVE  ThenRegister(h) \in Handler /\ HandlerOK(ThenRegister(h), docs, ledger)
<1> DEFINE k == [Idle EXCEPT !.pc = "register.approvals", !.doc = h.doc]
<1>1. k = HandlerOf("register.approvals", h.doc, Idle.who, Idle.read, Idle.rows,
                    Idle.content, Idle.grade, Idle.todo)
  BY IdleType, SetPcDoc, Zenon
<1>2. ThenRegister(h) = k
  BY DEF ThenRegister
<1> HIDE DEF k
<1>3. k \in Handler
  BY <1>1, IdleType DEF Handler, HandlerOf
<1>4. HandlerOK(k, docs, ledger)
  BY <1>1, IdleFields DEF HandlerOK, HandlerOf, TxOK, NoDoc
<1> QED
  BY <1>2, <1>3, <1>4

LEMMA ApproveSignKeeps ==
    ASSUME IInv, NEW r \in Requests, ApproveSign(r) \/ ApproveAdvisor(r)
    PROVE  IInv'
<1> DEFINE h == [req[r] EXCEPT !.pc = "approve.advisor"]
           row == Approved(req[r].content)
<1>1. /\ req[r] \in Handler /\ HandlerOK(req[r], docs, ledger)
      /\ req[r].pc \in {"approve.sign", "approve.advisor"}
      /\ UNCHANGED <<docs, grade, ledger, edits>>
  BY Known DEF ApproveSign, ApproveAdvisor
<1>2. PICK a \in Approvers : appr' = [appr EXCEPT ![req[r].doc][a] = row]
  <2>1. req[r].who \in Approvers /\ Advisor \in Approvers
    BY <1>1 DEF Handler, Approvers
  <2> QED
    BY <2>1 DEF ApproveSign, ApproveAdvisor
<1>3. Become(r, h) \/ Become(r, ThenRegister(req[r]))
  BY DEF ApproveSign, ApproveAdvisor
<1>4. h = HandlerOf("approve.advisor", req[r].doc, req[r].who, req[r].read,
                    req[r].rows, req[r].content, req[r].grade, req[r].todo)
  BY <1>1, SetPc, Zenon
<1> HIDE DEF h
<1>5. /\ req[r].doc \in Versions /\ Full(docs[req[r].doc])
      /\ req[r].content \in Contents
  BY <1>1 DEF HandlerOK, Handler
<1>6. h \in Handler /\ HandlerOK(h, docs, ledger)
  <2>1. h \in Handler
    BY <1>1, <1>4 DEF Handler, HandlerOf
  <2>2. HandlerOK(h, docs, ledger)
    BY <1>1, <1>4, <1>5, DataAssumption DEF HandlerOK, HandlerOf
  <2> QED
    BY <2>1, <2>2
<1>7. row \in ApprovalRow /\ RowOK(row, docs[req[r].doc])
  BY <1>5, DataAssumption DEF Approved, ApprovalRow, RowOK
<1> HIDE DEF row
<1> QED
  BY <1>1, <1>2, <1>3, <1>5, <1>6, <1>7, Registering, RowWritten

LEMMA SignFailsKeeps ==
    ASSUME IInv, NEW r \in Requests,
           SignFails(r) \/ FabricRefuses(r) \/ Abort(r)
    PROVE  IInv'
BY Ends DEF SignFails, FabricRefuses, Abort

\* Rows that are all APPROVED are all signed.
LEMMA RegisterReadApprovalsKeeps ==
    ASSUME IInv, NEW r \in Requests, RegisterReadApprovals(r)
    PROVE  IInv'
<1> DEFINE rows == appr[req[r].doc]
           h == [req[r] EXCEPT !.pc = "register.document", !.rows = rows]
<1>1. /\ req[r] \in Handler /\ HandlerOK(req[r], docs, ledger)
      /\ req[r].pc = "register.approvals" /\ appr \in Appr
      /\ UNCHANGED <<docs, appr, grade, ledger, edits>>
      /\ Become(r, Idle) \/ (AllApproved(rows) /\ Become(r, h))
  BY Known DEF RegisterReadApprovals, RegistrationComplete
<1>2. CASE Become(r, Idle)
  BY <1>1, <1>2, Ends
<1>3. CASE AllApproved(rows) /\ Become(r, h)
  <2>1. req[r].doc \in Versions /\ rows \in [Approvers -> ApprovalRow]
    BY <1>1 DEF Handler, Appr
  <2>2. \A a \in Approvers : RowOK(rows[a], docs[req[r].doc])
    BY <2>1, Known
  <2>3. Signed(rows)
    BY <1>3, <2>2 DEF Signed, AllApproved, RowOK
  <2>4. Become(r, h)
    BY <1>3
  <2> HIDE DEF rows
  <2>5. h = HandlerOf("register.document", req[r].doc, req[r].who, req[r].read, rows,
                      req[r].content, req[r].grade, req[r].todo)
    BY <1>1, SetPcRows, Zenon
  <2> HIDE DEF h
  <2>6. h \in Handler
    BY <1>1, <2>1, <2>5 DEF Handler, HandlerOf
  <2>7. HandlerOK(h, docs, ledger)
    BY <1>1, <2>3, <2>5 DEF HandlerOK, HandlerOf
  <2> QED
    BY <1>1, <2>4, <2>6, <2>7, ReadStep
<1> QED
  BY <1>1, <1>2, <1>3

LEMMA RegisterReadDocumentKeeps ==
    ASSUME IInv, NEW r \in Requests, RegisterReadDocument(r)
    PROVE  IInv'
<1> DEFINE row == docs[req[r].doc]
           h == [req[r] EXCEPT !.pc = "register.defense", !.read = row]
<1>1. /\ req[r] \in Handler /\ HandlerOK(req[r], docs, ledger)
      /\ req[r].pc = "register.document"
      /\ UNCHANGED <<docs, appr, grade, ledger, edits>>
      /\ Become(r, Idle) \/ (HasAllRows(req[r].rows) /\ Become(r, h))
  BY Known DEF RegisterReadDocument, ValidApprovalsCount
<1>2. CASE Become(r, Idle)
  BY <1>1, <1>2, Ends
<1>3. CASE HasAllRows(req[r].rows) /\ Become(r, h)
  <2>1. req[r].doc \in Versions
    BY <1>1 DEF Handler
  <2>2. row \in DocRow /\ TxOK(req[r].doc, row, ledger)
    BY <2>1, Known DEF DocOK
  <2>3. Full(row)
    BY <1>1 DEF HandlerOK
  <2>4. Become(r, h)
    BY <1>3
  <2> HIDE DEF row
  <2>5. h = HandlerOf("register.defense", req[r].doc, req[r].who, row, req[r].rows,
                      req[r].content, req[r].grade, req[r].todo)
    BY <1>1, SetPcRead, Zenon
  <2> HIDE DEF h
  <2>6. h \in Handler
    BY <1>1, <2>2, <2>5 DEF Handler, HandlerOf
  <2>7. HandlerOK(h, docs, ledger)
    BY <1>1, <1>3, <2>2, <2>3, <2>5 DEF HandlerOK, HandlerOf
  <2> QED
    BY <1>1, <2>4, <2>6, <2>7, ReadStep
<1> QED
  BY <1>1, <1>2, <1>3

LEMMA RegisterReadDefenseKeeps ==
    ASSUME IInv, NEW r \in Requests, RegisterReadDefense(r)
    PROVE  IInv'
<1> DEFINE h == [req[r] EXCEPT !.pc = "register.submit", !.grade = grade]
<1>1. /\ req[r] \in Handler /\ HandlerOK(req[r], docs, ledger)
      /\ req[r].pc = "register.defense" /\ grade \in Grades \cup {NoGrade}
      /\ UNCHANGED <<docs, appr, grade, ledger, edits>>
      /\ Become(r, Idle) \/ (grade # NoGrade /\ Become(r, h))
  BY Known DEF RegisterReadDefense
<1>2. h = HandlerOf("register.submit", req[r].doc, req[r].who, req[r].read,
                    req[r].rows, req[r].content, grade, req[r].todo)
  BY <1>1, SetPcGrade, Zenon
<1> HIDE DEF h
<1>3. h \in Handler
  BY <1>1, <1>2 DEF Handler, HandlerOf
<1>4. grade # NoGrade => HandlerOK(h, docs, ledger)
  BY <1>1, <1>2 DEF HandlerOK, HandlerOf
<1> QED
  BY <1>1, <1>3, <1>4, ReadStep, Ends

\* What reaches the ledger is a complete record over the document that was read.
LEMMA RecordIsComplete ==
    ASSUME NEW h \in Handler, HandlerOK(h, docs, ledger), h.pc = "register.submit"
    PROVE  RecordOf(h) \in Record /\ Complete(RecordOf(h)) /\ RecordOf(h).doc = h.doc
<1> DEFINE sigs == Signatures(h.rows)
<1>1. /\ h.doc \in Versions /\ h.read.content \in Contents /\ h.grade \in Grades
      /\ h.rows \in [Approvers -> ApprovalRow]
      /\ HasAllRows(h.rows) /\ Signed(h.rows)
  BY DEF HandlerOK, Handler, Full, DocRow
<1>2. \A a \in Approvers : h.rows[a].sig \in Contents \cup {NoContent} /\ h.rows[a].sig # NoContent
  BY <1>1 DEF HasAllRows, Signed, ApprovalRow
<1>3. sigs \in [Approvers -> Contents \cup {NoContent}]
      /\ \A a \in Approvers : sigs[a] # NoContent
  BY <1>2 DEF Signatures
<1> HIDE DEF sigs
<1>4. RecordOf(h) = [doc |-> h.doc, content |-> h.read.content, grade |-> h.grade,
                     sigs |-> sigs]
  BY DEF RecordOf, sigs
<1> QED
  BY <1>1, <1>3, <1>4 DEF Record, Complete

LEMMA RegisteredRow ==
    ASSUME NEW row \in DocRow, NEW t \in Nat
    PROVE  Registered(row, t) = [status |-> "APPROVED", content |-> row.content, tx |-> t]
<1> DEFINE k == [row EXCEPT !.status = "APPROVED"]
           k2 == [k EXCEPT !.tx = t]
<1>1. k = [status |-> "APPROVED", content |-> row.content, tx |-> row.tx]
  BY DEF DocRow
<1> HIDE DEF k
<1>2. k2 = [status |-> "APPROVED", content |-> row.content, tx |-> t]
  BY <1>1
<1> QED
  BY <1>2 DEF Registered, k

LEMMA FabricCommitsKeeps ==
    ASSUME IInv, NEW r \in Requests, FabricCommits(r)
    PROVE  IInv'
<1> DEFINE e == RecordOf(req[r])
           row == Registered(req[r].read, Len(ledger) + 1)
           h == [req[r] EXCEPT !.pc = "register.save", !.rows = NoRows,
                               !.grade = NoGrade, !.read = row]
<1>1. /\ req[r] \in Handler /\ HandlerOK(req[r], docs, ledger)
      /\ req[r].pc = "register.submit" /\ ledger \in Seq(Record)
      /\ UNCHANGED <<docs, appr, grade, edits>>
      /\ ledger' = Append(ledger, e) /\ Become(r, h)
  BY Known DEF FabricCommits
<1>2. e \in Record /\ Complete(e) /\ e.doc = req[r].doc
  BY <1>1, RecordIsComplete
<1> HIDE DEF e
<1>3. /\ req[r].read \in DocRow /\ req[r].doc \in Versions
      /\ Full(req[r].read) /\ Full(docs[req[r].doc])
  BY <1>1 DEF HandlerOK, Handler
<1>4. row \in DocRow /\ Full(row) /\ row.tx = Len(ledger) + 1
  <2>1. Len(ledger) + 1 \in Nat
    BY <1>1
  <2>2. row = [status |-> "APPROVED", content |-> req[r].read.content,
               tx |-> Len(ledger) + 1]
    BY <1>3, <2>1, RegisteredRow, Zenon
  <2> HIDE DEF row
  <2> QED
    BY <1>3, <2>1, <2>2 DEF DocRow, Full
<1>5. TxOK(req[r].doc, row, ledger')
  BY <1>1, <1>2, <1>4 DEF TxOK
<1> HIDE DEF row
<1>6. h = HandlerOf("register.save", req[r].doc, req[r].who, row, NoRows,
                    req[r].content, NoGrade, req[r].todo)
  <2>1. \A p, y, g, x :
           [req[r] EXCEPT !.pc = p, !.rows = y, !.grade = g, !.read = x] =
             HandlerOf(p, req[r].doc, req[r].who, x, y, req[r].content, g, req[r].todo)
    BY <1>1, SetPcRowsGradeRead, Zenon
  <2>2. \A g, x :
           [req[r] EXCEPT !.pc = "register.save", !.rows = NoRows, !.grade = g,
                          !.read = x] =
             HandlerOf("register.save", req[r].doc, req[r].who, x, NoRows,
                       req[r].content, g, req[r].todo)
    BY <2>1, Zenon
  <2> QED
    BY <2>2, Zenon
<1> HIDE DEF h
<1>7. h \in Handler
  BY <1>1, <1>4, <1>6, Nothing DEF Handler, HandlerOf
<1>8. HandlerOK(h, docs, ledger')
  BY <1>3, <1>4, <1>5, <1>6 DEF HandlerOK, HandlerOf
<1> QED
  BY <1>1, <1>2, <1>7, <1>8, RecordAppended

LEMMA FabricReplyLostKeeps ==
    ASSUME IInv, NEW r \in Requests, FabricReplyLost(r)
    PROVE  IInv'
<1>1. /\ req[r] \in Handler /\ HandlerOK(req[r], docs, ledger)
      /\ req[r].pc = "register.submit"
      /\ UNCHANGED <<docs, appr, grade, edits>>
      /\ ledger' = Append(ledger, RecordOf(req[r])) /\ Become(r, Idle)
  BY Known DEF FabricReplyLost
<1>2. RecordOf(req[r]) \in Record /\ Complete(RecordOf(req[r]))
  BY <1>1, RecordIsComplete
<1> QED
  BY <1>1, <1>2, IdleHandler, RecordAppended

LEMMA RegisterSaveKeeps ==
    ASSUME IInv, NEW r \in Requests, RegisterSave(r)
    PROVE  IInv'
<1>1. /\ req[r] \in Handler /\ HandlerOK(req[r], docs, ledger)
      /\ req[r].pc = "register.save"
      /\ UNCHANGED <<appr, grade, ledger, edits>>
      /\ docs' = [docs EXCEPT ![req[r].doc] = req[r].read] /\ Become(r, Idle)
  BY Known DEF RegisterSave
<1>2. /\ req[r].doc \in Versions /\ req[r].read \in DocRow
      /\ Full(req[r].read) /\ TxOK(req[r].doc, req[r].read, ledger)
  BY <1>1 DEF HandlerOK, Handler
<1> QED
  BY <1>1, <1>2, IdleHandler, DocWritten

LEMMA ReviewKeeps ==
    ASSUME IInv, NEW r \in Requests, Review(r)
    PROVE  IInv'
<1>1. /\ req[r] \in Handler /\ HandlerOK(req[r], docs, ledger)
      /\ req[r].pc \in {"reject.save", "override.save"}
      /\ UNCHANGED <<docs, grade, ledger, edits>> /\ Become(r, Idle)
  BY Known DEF Review, RejectSave, OverrideSave
<1>2. PICK row \in {Rejected, Pending} :
         appr' = [appr EXCEPT ![req[r].doc][req[r].who] = row]
  BY DEF Review, RejectSave, OverrideSave
<1>3. /\ req[r].doc \in Versions /\ req[r].who \in Approvers
      /\ Full(docs[req[r].doc])
  BY <1>1 DEF HandlerOK, Handler
<1>4. row \in ApprovalRow /\ RowOK(row, docs[req[r].doc])
  BY <1>3, Nothing DEF RowOK, Rejected, Pending
<1> QED
  BY <1>1, <1>2, <1>3, <1>4, IdleHandler, RowWritten

LEMMA VersionBeginKeeps ==
    ASSUME IInv, NEW r \in Requests, NEW v \in Versions, NEW c \in Contents,
           NEW g \in Grades \cup {NoGrade}, VersionBegin(r, v, c, g)
    PROVE  IInv'
<1> DEFINE row == docs[v]
           h == [Idle EXCEPT !.pc = "version.approvals", !.doc = v, !.read = row,
                             !.content = c, !.grade = g]
<1>1. /\ Become(r, h) /\ UNCHANGED <<docs, appr, grade, ledger>>
      /\ edits' = edits + 1 /\ edits < MaxEdits /\ docs[v] # NoDoc
  BY DEF VersionBegin, Begin
<1>2. row \in DocRow /\ Full(row) /\ TxOK(v, row, ledger)
  BY <1>1, Known DEF DocOK
<1> HIDE DEF row
<1>3. h = HandlerOf("version.approvals", v, Idle.who, row, Idle.rows, c, g, Idle.todo)
  BY IdleType, SetPcDocReadContentGrade, Zenon
<1> HIDE DEF h
<1>4. h \in Handler
  BY <1>2, <1>3, IdleType DEF Handler, HandlerOf
<1>5. HandlerOK(h, docs, ledger)
  <2>1. Full(docs[v])
    BY <1>1, Known DEF DocOK
  <2> QED
    BY <1>2, <1>3, <2>1, DataAssumption DEF HandlerOK, HandlerOf
<1>6. grade' \in Grades \cup {NoGrade} /\ edits' \in 0..MaxEdits
  BY <1>1, Known, BoundsAssumption
<1> QED
  BY <1>1, <1>4, <1>5, <1>6, HandlerMoves

LEMMA VersionDecideKeeps ==
    ASSUME IInv, NEW r \in Requests, VersionDecide(r)
    PROVE  IInv'
<1>1. /\ req[r] \in Handler /\ HandlerOK(req[r], docs, ledger)
      /\ req[r].pc = "version.approvals"
      /\ UNCHANGED <<docs, appr, grade, ledger, edits>>
  BY Known DEF VersionDecide
<1>2. CASE Become(r, Idle)
  BY <1>1, <1>2, Ends
<1>3. CASE \E p \in {"version.replace", "version.inactivate"} :
              /\ p = "version.inactivate" => req[r].doc < MaxVersions
              /\ Become(r, [req[r] EXCEPT !.pc = p])
  <2>1. PICK p \in {"version.replace", "version.inactivate"} :
              /\ p = "version.inactivate" => req[r].doc < MaxVersions
              /\ Become(r, [req[r] EXCEPT !.pc = p])
    BY <1>3
  <2> DEFINE h == [req[r] EXCEPT !.pc = p]
  <2>2. h = HandlerOf(p, req[r].doc, req[r].who, req[r].read, req[r].rows,
                      req[r].content, req[r].grade, req[r].todo)
    BY <1>1, SetPc, Zenon
  <2>3. Become(r, h)
    BY <2>1
  <2> HIDE DEF h
  <2>4. h \in Handler
    BY <1>1, <2>2 DEF Handler, HandlerOf
  <2>5. req[r].doc \in Versions /\ (p = "version.inactivate" => req[r].doc + 1 \in Versions)
    BY <1>1, <2>1, BoundsAssumption DEF Handler, Versions
  <2>6. HandlerOK(h, docs, ledger)
    BY <1>1, <2>2, <2>5 DEF HandlerOK, HandlerOf
  <2> QED
    BY <1>1, <2>3, <2>4, <2>6, ReadStep
<1> QED
  BY <1>2, <1>3 DEF VersionDecide

LEMMA VersionInactivateKeeps ==
    ASSUME IInv, NEW r \in Requests, VersionInactivate(r)
    PROVE  IInv'
<1> DEFINE row == Inactivated(req[r].read)
           h == [req[r] EXCEPT !.pc = "version.create"]
<1>1. /\ req[r] \in Handler /\ HandlerOK(req[r], docs, ledger) /\ docs \in Docs
      /\ req[r].pc = "version.inactivate"
      /\ UNCHANGED <<appr, grade, ledger, edits>>
      /\ docs' = [docs EXCEPT ![req[r].doc] = row] /\ Become(r, h)
  BY Known DEF VersionInactivate
<1>2. /\ req[r].doc \in Versions /\ req[r].read \in DocRow
      /\ Full(req[r].read) /\ TxOK(req[r].doc, req[r].read, ledger)
  BY <1>1 DEF HandlerOK, Handler
<1>3. row \in DocRow /\ Full(row) /\ TxOK(req[r].doc, row, ledger)
  BY <1>2 DEF Inactivated, DocRow, Full, TxOK
<1> HIDE DEF row
<1>4. docs'[req[r].doc] = row
  BY <1>1, <1>2 DEF Docs
<1>5. h = HandlerOf("version.create", req[r].doc, req[r].who, req[r].read,
                    req[r].rows, req[r].content, req[r].grade, req[r].todo)
  BY <1>1, SetPc, Zenon
<1> HIDE DEF h
<1>6. h \in Handler
  BY <1>1, <1>5 DEF Handler, HandlerOf
<1>7. HandlerOK(h, docs', ledger)
  BY <1>1, <1>3, <1>4, <1>5 DEF HandlerOK, HandlerOf
<1> QED
  BY <1>1, <1>2, <1>3, <1>6, <1>7, DocWritten

LEMMA VersionCreateKeeps ==
    ASSUME IInv, NEW r \in Requests, VersionCreate(r)
    PROVE  IInv'
<1> DEFINE next == req[r].doc + 1
           row == NextVersion(req[r].read, req[r].content)
           g == req[r].grade
           h == [Idle EXCEPT !.pc = "create.rows", !.doc = next, !.grade = g,
                             !.todo = Approvers]
<1>1. CASE docs[next] # NoDoc
  BY <1>1, Ends DEF VersionCreate
<1>2. CASE docs[next] = NoDoc
  <2>1. /\ req[r] \in Handler /\ HandlerOK(req[r], docs, ledger) /\ docs \in Docs
        /\ req[r].pc = "version.create"
        /\ UNCHANGED <<appr, grade, ledger, edits>>
        /\ docs' = [docs EXCEPT ![next] = row] /\ Become(r, h)
    BY <1>2, Known DEF VersionCreate
  <2>2. next \in Versions /\ req[r].content \in Contents /\ g \in Grades \cup {NoGrade}
    BY <2>1 DEF HandlerOK, Handler
  <2>3. row \in DocRow /\ Full(row) /\ TxOK(next, row, ledger)
    BY <2>2, DataAssumption DEF NextVersion, NewDocument, DocRow, Full, TxOK
  <2> HIDE DEF next, row, g
  <2>4. docs'[next] = row
    BY <2>1, <2>2 DEF Docs
  <2>5. h = HandlerOf("create.rows", next, Idle.who, Idle.read, Idle.rows,
                      Idle.content, g, Approvers)
    <3>1. \A z, t :
             [Idle EXCEPT !.pc = "create.rows", !.doc = next, !.grade = z, !.todo = t] =
               HandlerOf("create.rows", next, Idle.who, Idle.read, Idle.rows,
                         Idle.content, z, t)
      BY IdleType, SetPcDocGradeTodo, Zenon
    <3> QED
      BY <3>1, Zenon
  <2> HIDE DEF h
  <2>6. h \in Handler
    BY <2>2, <2>5, IdleType DEF Handler, HandlerOf
  <2>7. HandlerOK(h, docs', ledger)
    BY <2>3, <2>4, <2>5, IdleFields DEF HandlerOK, HandlerOf, TxOK, NoDoc
  <2> QED
    BY <2>1, <2>2, <2>3, <2>6, <2>7, DocWritten
<1> QED
  BY <1>1, <1>2

LEMMA VersionReplaceKeeps ==
    ASSUME IInv, NEW r \in Requests, VersionReplace(r)
    PROVE  IInv'
<1> DEFINE v == req[r].doc
           row == Replaced(req[r].read, req[r].content)
           g == req[r].grade
           h == [Idle EXCEPT !.pc = "reset.approvals", !.doc = v, !.grade = g]
<1>1. /\ req[r] \in Handler /\ HandlerOK(req[r], docs, ledger) /\ docs \in Docs
      /\ req[r].pc = "version.replace"
      /\ UNCHANGED <<appr, grade, ledger, edits>>
      /\ docs' = [docs EXCEPT ![v] = row] /\ Become(r, h)
  BY Known DEF VersionReplace
<1>2. /\ v \in Versions /\ g \in Grades \cup {NoGrade} /\ req[r].content \in Contents
      /\ req[r].read \in DocRow /\ Full(req[r].read) /\ TxOK(v, req[r].read, ledger)
  BY <1>1 DEF HandlerOK, Handler
<1>3. row \in DocRow /\ Full(row) /\ TxOK(v, row, ledger)
  BY <1>2, DataAssumption DEF Replaced, DocRow, Full, TxOK
<1> HIDE DEF v, row, g
<1>4. docs'[v] = row
  BY <1>1, <1>2 DEF Docs
<1>5. h = HandlerOf("reset.approvals", v, Idle.who, Idle.read, Idle.rows,
                    Idle.content, g, Idle.todo)
  BY IdleType, SetPcDocGrade, Zenon
<1> HIDE DEF h
<1>6. h \in Handler
  BY <1>2, <1>5, IdleType DEF Handler, HandlerOf
<1>7. HandlerOK(h, docs', ledger)
  BY <1>3, <1>4, <1>5, IdleFields DEF HandlerOK, HandlerOf, TxOK, NoDoc
<1> QED
  BY <1>1, <1>2, <1>3, <1>6, <1>7, DocWritten

LEMMA ResetReadApprovalsKeeps ==
    ASSUME IInv, NEW r \in Requests, ResetReadApprovals(r)
    PROVE  IInv'
<1> DEFINE t == ToReset(appr[req[r].doc])
           h == [req[r] EXCEPT !.pc = "reset.write", !.todo = t]
<1>1. /\ req[r] \in Handler /\ req[r].pc = "reset.approvals"
      /\ UNCHANGED <<docs, appr, grade, ledger, edits>> /\ Settle(r, h)
  BY Known DEF ResetReadApprovals
<1>2. t \in SUBSET Approvers
  BY DEF ToReset
<1> HIDE DEF t
<1>3. h = HandlerOf("reset.write", req[r].doc, req[r].who, req[r].read, req[r].rows,
                    req[r].content, req[r].grade, t)
  BY <1>1, SetPcTodo, Zenon
<1> HIDE DEF h
<1>4. h \in Handler
  BY <1>1, <1>2, <1>3 DEF Handler, HandlerOf
<1>5. h.pc = "reset.write" /\ h.doc = req[r].doc /\ h.read = req[r].read
  BY <1>3 DEF HandlerOf
<1>6. PICK k \in Handler : Become(r, k) /\ HandlerOK(k, docs, ledger)
  BY <1>1, <1>4, <1>5, Settles
<1> QED
  BY <1>1, <1>6, ReadStep

-----------------------------------------------------------------------------
LEMMA InitHolds == Init => IInv
<1> SUFFICES ASSUME Init PROVE IInv
  OBVIOUS
<1>1. StateOK
  <2>1. docs \in [Versions -> DocRow] /\ appr \in [Versions -> [Approvers -> ApprovalRow]]
    BY Nothing DEF Init
  <2>2. ledger \in Seq(Record) /\ edits \in 0..MaxEdits /\ grade \in Grades \cup {NoGrade}
    BY BoundsAssumption DEF Init
  <2>3. req \in [Requests -> Handler]
    BY IdleType DEF Init
  <2> QED
    BY <2>1, <2>2, <2>3 DEF StateOK
<1>2. \A v \in Versions : DocOK(v, docs[v], ledger)
  BY DEF Init, DocOK, TxOK, NoDoc
<1>3. \A v \in Versions, a \in Approvers : RowOK(appr[v][a], docs[v])
  BY DEF Init, RowOK, NoRows, NoRow
<1>4. \A i \in 1..Len(ledger) : Complete(ledger[i])
  BY DEF Init
<1>5. \A r \in Requests : HandlerOK(req[r], docs, ledger)
  BY IdleHandler DEF Init
<1> QED
  BY <1>1, <1>2, <1>3, <1>4, <1>5 DEF IInv

LEMMA StutterHolds == IInv /\ UNCHANGED vars => IInv'
<1> SUFFICES ASSUME IInv, UNCHANGED vars PROVE IInv'
  OBVIOUS
<1>1. /\ docs' = docs /\ appr' = appr /\ grade' = grade /\ ledger' = ledger
      /\ edits' = edits /\ req' = req
  BY DEF vars
<1>2. StateOK'
  BY <1>1 DEF IInv, StateOK
<1>3. \A v \in Versions : DocOK(v, docs'[v], ledger')
  BY <1>1 DEF IInv
<1>4. \A v \in Versions, a \in Approvers : RowOK(appr'[v][a], docs'[v])
  BY <1>1 DEF IInv
<1>5. \A i \in 1..Len(ledger') : Complete(ledger'[i])
  BY <1>1 DEF IInv
<1>6. \A r \in Requests : HandlerOK(req'[r], docs', ledger')
  BY <1>1 DEF IInv
<1> QED
  BY <1>2, <1>3, <1>4, <1>5, <1>6 DEF IInv

LEMMA NextHolds == IInv /\ [Next]_vars => IInv'
<1> SUFFICES ASSUME IInv, Next PROVE IInv'
  BY StutterHolds
<1>1. PICK r \in Requests : Arrive(r) \/ Continue(r) \/ Abort(r)
  BY DEF Next
<1>2. CASE Arrive(r)
  BY <1>2, SubmitBeginKeeps, RowRequestKeeps, VersionBeginKeeps DEF Arrive
<1>3. CASE Submit(r)
  BY <1>3, SubmitCreateKeeps, SubmitGradeKeeps DEF Submit
<1>4. CASE Finish(r)
  BY <1>4, PendingRowKeeps, CreateRowsFailsKeeps, UpdateGradeKeeps DEF Finish
<1>5. CASE Approve(r)
  BY <1>5, ApproveLoadDocumentKeeps, ApproveLoadApprovalsKeeps, ApproveSignKeeps,
     SignFailsKeeps DEF Approve
<1>6. CASE Register(r)
  BY <1>6, RegisterReadApprovalsKeeps, RegisterReadDocumentKeeps,
     RegisterReadDefenseKeeps, FabricCommitsKeeps, SignFailsKeeps,
     FabricReplyLostKeeps, RegisterSaveKeeps DEF Register
<1>7. CASE Review(r)
  BY <1>7, ReviewKeeps
<1>8. CASE Version(r)
  BY <1>8, VersionDecideKeeps, VersionInactivateKeeps, VersionCreateKeeps,
     VersionReplaceKeeps, ResetReadApprovalsKeeps, PendingRowKeeps DEF Version
<1>9. CASE Abort(r)
  BY <1>9, SignFailsKeeps
<1> QED
  BY <1>1, <1>2, <1>3, <1>4, <1>5, <1>6, <1>7, <1>8, <1>9 DEF Continue

\* IInv holds in every reachable state, whatever the handlers do.
THEOREM Inductive == Spec => []IInv
BY InitHolds, NextHolds, PTL DEF Spec

-----------------------------------------------------------------------------
(* The theorems.                                                            *)

\* The two auxiliary variables: every step is one of Become, and only a handler
\* that stops adds to unreset.
HistoryOK == crossed \in BOOLEAN /\ unreset \subseteq Versions

LEMMA ArriveUnreset ==
    ASSUME NEW r \in Requests, Arrive(r)
    PROVE  (\E h : Become(r, h)) /\ unreset' = unreset
BY DEF Arrive, SubmitBegin, ApproveBegin, RejectBegin, OverrideBegin, VersionBegin, Begin

LEMMA ContinueUnreset ==
    ASSUME NEW r \in Requests, Continue(r)
    PROVE  (\E h : Become(r, h)) /\ unreset' = unreset
<1>1. CASE Submit(r)
  BY <1>1 DEF Submit, SubmitCreate, SubmitGrade
<1>2. CASE Finish(r)
  BY <1>2 DEF Finish, CreateRow, CreateRowsFails, UpdateGrade, Settle
<1>3. CASE Approve(r)
  BY <1>3 DEF Approve, ApproveLoadDocument, ApproveLoadApprovals, ApproveSign,
              ApproveAdvisor, SignFails
<1>4. CASE Register(r)
  BY <1>4 DEF Register, RegisterReadApprovals, RegisterReadDocument, RegisterReadDefense,
              FabricCommits, FabricRefuses, FabricReplyLost, RegisterSave
<1>5. CASE Review(r)
  BY <1>5 DEF Review, RejectSave, OverrideSave
<1>6. CASE Version(r)
  BY <1>6 DEF Version, VersionDecide, VersionInactivate, VersionCreate, VersionReplace,
              ResetReadApprovals, ResetWrite, Settle
<1> QED
  BY <1>1, <1>2, <1>3, <1>4, <1>5, <1>6 DEF Continue

LEMMA HistoryHolds == IInv /\ HistoryOK /\ [Next]_vars => HistoryOK'
<1> SUFFICES ASSUME IInv, HistoryOK, [Next]_vars PROVE HistoryOK'
  OBVIOUS
<1>1. CASE UNCHANGED vars
  BY <1>1 DEF HistoryOK, vars
<1>2. CASE Next
  <2>1. PICK r \in Requests : Arrive(r) \/ Continue(r) \/ Abort(r)
    BY <1>2 DEF Next
  <2>2. /\ \E h : Become(r, h)
        /\ unreset' = unreset \/ unreset' = unreset \cup {req[r].doc}
    BY <2>1, ArriveUnreset, ContinueUnreset DEF Abort
  <2>3. crossed' \in BOOLEAN
    BY <2>2 DEF Become
  <2>4. req[r].doc \in Versions
    BY Known DEF Handler
  <2> QED
    BY <2>2, <2>3, <2>4 DEF HistoryOK
<1> QED
  BY <1>1, <1>2

\* Every table, every ledger record and every handler in flight keeps its type;
\* in particular a record is never built from a missing file or grade.
THEOREM TypeCorrect == Spec => []TypeOK
<1>1. Init => HistoryOK
  BY DEF Init, HistoryOK
<1>2. IInv /\ HistoryOK => TypeOK
  BY DEF IInv, HistoryOK, TypeOK
<1> QED
  BY <1>1, <1>2, HistoryHolds, Inductive, PTL DEF Spec

\* A blockchainTxId always names a ledger record of the version that carries it.
THEOREM TxIsOwn == Spec => []TxNamesOwnRecord
<1>1. IInv => TxNamesOwnRecord
  BY DEF IInv, DocOK, TxOK, TxNamesOwnRecord
<1> QED
  BY <1>1, Inductive, PTL

\* An APPROVED document has its record on the ledger.
THEOREM ApprovedIsRegistered == Spec => []ApprovedIsOnLedger
<1>1. IInv => ApprovedIsOnLedger
  BY DEF IInv, DocOK, TxOK, ApprovedIsOnLedger
<1> QED
  BY <1>1, Inductive, PTL

\* Every ledger record carries the signature of every approver.
THEOREM LedgerIsComplete == Spec => []RecordsAreComplete
<1>1. IInv => RecordsAreComplete
  BY DEF IInv, Complete, RecordsAreComplete
<1> QED
  BY <1>1, Inductive, PTL
=============================================================================
