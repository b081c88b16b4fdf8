---------------------------- MODULE BookingProofs ----------------------------
(***************************************************************************)
(* Proofs about Booking, for any number of sessions, rooms, reservations,  *)
(* payment intents, references and connections: the state keeps its types, *)
(* and no interleaving of the handlers books a room twice.                 *)
(***************************************************************************)
EXTENDS Booking, TLAPS

-----------------------------------------------------------------------------
(* Rows and handlers as values *)

\* An absent row is a row, nobody's, and not live.
LEMMA NoRowFacts ==
  NoRow \in Row /\ NoRow.status = "ABSENT" /\ ~Live(NoRow) /\ NoRow.ref = NONE
BY DEF NoRow, Row, Live

\* What an inserted row is like.
LEMMA RowFacts ==
  ASSUME NEW row \in Row, row # NoRow
  PROVE  /\ row.status \in {"HOLD", "CONFIRMED", "EXPIRED"}
         /\ row.session \in Sessions
         /\ row.room \in Rooms
         /\ row.intent \in Opt(Intents)
         /\ row.ref \in Opt(Refs)
BY DEF Row

\* A row whose status is known is an inserted one.
LEMMA StatusMeansInserted ==
  ASSUME NEW row \in Row, row.status # "ABSENT"
  PROVE  row # NoRow
BY DEF NoRow

\* A new hold is an inserted row.
LEMMA NewHoldIsRow ==
  ASSUME NEW s \in Sessions, NEW rm \in Rooms
  PROVE  NewHold(s, rm) \in Row /\ NewHold(s, rm) # NoRow
BY DEF NewHold, Row, NoRow, Opt

\* The updates the handlers make turn inserted rows into inserted rows.
LEMMA UpdatesAreRows ==
  ASSUME NEW row \in Row, row # NoRow
  PROVE  /\ [row EXCEPT !.deleted = TRUE] \in Row \ {NoRow}
         /\ [row EXCEPT !.status = "EXPIRED"] \in Row \ {NoRow}
         /\ \A f \in Refs : [row EXCEPT !.ref = f] \in Row \ {NoRow}
         /\ \A i \in Intents : [row EXCEPT !.intent = i] \in Row \ {NoRow}
         /\ \A i \in Intents :
              [row EXCEPT !.status = "CONFIRMED", !.intent = i] \in Row \ {NoRow}
<1> USE RowFacts
<1>1. row \in [status  : {"HOLD", "CONFIRMED", "EXPIRED"},
               session : Sessions,
               room    : Rooms,
               deleted : BOOLEAN,
               intent  : Opt(Intents),
               ref     : Opt(Refs)]
  BY DEF Row
<1>2. [row EXCEPT !.deleted = TRUE] \in Row \ {NoRow}
  BY <1>1 DEF Row, NoRow
<1>3. [row EXCEPT !.status = "EXPIRED"] \in Row \ {NoRow}
  BY <1>1 DEF Row, NoRow
<1>4. \A f \in Refs : [row EXCEPT !.ref = f] \in Row \ {NoRow}
  BY <1>1 DEF Row, NoRow, Opt
<1>5. \A i \in Intents : [row EXCEPT !.intent = i] \in Row \ {NoRow}
  BY <1>1 DEF Row, NoRow, Opt
<1>6. \A i \in Intents :
        [row EXCEPT !.status = "CONFIRMED", !.intent = i] \in Row \ {NoRow}
  BY <1>1 DEF Row, NoRow, Opt
<1> QED BY <1>2, <1>3, <1>4, <1>5, <1>6

\* The version a transaction sees is a row, and an inserted one if committed.
LEMMA ViewIsRow ==
  ASSUME RowsOK, LocksOK, NEW t \in Txs, NEW r \in Reservations
  PROVE  View(t, r) \in Row /\ (resv[r] # NoRow => View(t, r) # NoRow)
BY NoneAssumption DEF RowsOK, LocksOK, View

-----------------------------------------------------------------------------
(* What one step may do to the handlers and their locks *)

Data == <<sess, resv, sdraft, draft>>

\* A handler moves on while the database stays as it is.  It may go to a step
\* before its first write only if it comes from one, and so holds no lock.
LEMMA MoveOK ==
  ASSUME TypeOK, NEW t \in Txs, NEW h \in Tx, HandlerOK(h),
         tx' = [tx EXCEPT ![t] = h], UNCHANGED Data,
         h.pc \in BeforeWriting => tx[t].pc \in BeforeWriting
  PROVE  RowsOK' /\ LocksOK' /\ HandlersOK'
<1> USE NoneAssumption
<1>1. RowsOK'
  BY DEF TypeOK, RowsOK, Data
<1>2. HandlersOK'
  BY DEF TypeOK, HandlersOK, HandlerOK, Data
<1>3. LocksOK'
  <2>1. ASSUME NEW u \in Txs, tx[u].pc \notin BeforeWriting
        PROVE  tx'[u].pc \notin BeforeWriting
    BY <2>1 DEF TypeOK, HandlersOK
  <2> QED BY <2>1 DEF TypeOK, LocksOK, RowsOK, Data, Opt
<1> QED BY <1>1, <1>2, <1>3

\* Goto to a later step keeps the handler's rows.
LEMMA GotoIsMove ==
  ASSUME TypeOK, NEW t \in Txs, NEW pc \in Steps \ (BeforeWriting \cup {"drop"}),
         Goto(t, pc)
  PROVE  \E h \in Tx : /\ tx' = [tx EXCEPT ![t] = h] /\ HandlerOK(h)
                       /\ h.pc \notin BeforeWriting
<1> DEFINE h == [tx[t] EXCEPT !.pc = pc]
<1>1. tx[t] \in Tx /\ HandlerOK(tx[t])
  BY DEF TypeOK, HandlersOK
<1>2. h \in Tx /\ h.pc = pc
  BY <1>1 DEF Tx
<1>3. HandlerOK(h)
  BY <1>1 DEF Tx, HandlerOK
<1>4. tx' = [tx EXCEPT ![t] = h]
  BY DEF Goto
<1> QED BY <1>2, <1>3, <1>4

LEMMA IdleIsHandler == Idle \in Tx /\ HandlerOK(Idle) /\ Idle.pc \in BeforeWriting
BY NoneAssumption DEF Idle, Tx, Opt, Ops, HandlerOK, BeforeWriting

\* A handler locks rows, gives them inserted versions and moves on.
LEMMA WriteOK ==
  ASSUME TypeOK, NEW t \in Txs, NEW pc \in Steps \ (BeforeWriting \cup {"drop"}),
         Goto(t, pc), UNCHANGED <<sess, resv, sdraft>>,
         draft' \in [Reservations -> [by : Opt(Txs), row : Row]],
         \A r \in Reservations :
           draft'[r] = draft[r] \/ (draft'[r].by = t /\ draft'[r].row # NoRow)
  PROVE  RowsOK' /\ LocksOK' /\ HandlersOK'
<1>1. PICK h \in Tx : /\ tx' = [tx EXCEPT ![t] = h] /\ HandlerOK(h)
                     /\ h.pc \notin BeforeWriting
  BY GotoIsMove
<1>2. HandlersOK'
  BY <1>1 DEF TypeOK, HandlersOK, HandlerOK
<1>3. ASSUME NEW u \in Txs, tx[u].pc \notin BeforeWriting
      PROVE  tx'[u].pc \notin BeforeWriting
  BY <1>1, <1>3 DEF TypeOK, HandlersOK
<1>4. tx'[t].pc \notin BeforeWriting
  BY <1>1 DEF TypeOK, HandlersOK
<1>5. LocksOK'
  BY <1>3, <1>4, NoneAssumption DEF TypeOK, LocksOK, RowsOK, Opt
<1> QED BY <1>2, <1>5 DEF TypeOK, RowsOK

\* A handler locks a session, gives it a status and moves on.
LEMMA SWriteOK ==
  ASSUME TypeOK, NEW t \in Txs, NEW s \in Sessions, NEW st \in SessionStatus,
         NEW h \in Tx, HandlerOK(h), h.pc \notin BeforeWriting,
         tx' = [tx EXCEPT ![t] = h], SWrite(t, s, st),
         UNCHANGED <<sess, resv, draft>>
  PROVE  RowsOK' /\ LocksOK' /\ HandlersOK'
<1>1. HandlersOK'
  BY DEF TypeOK, HandlersOK, HandlerOK
<1>2. ASSUME NEW u \in Txs, tx[u].pc \notin BeforeWriting
      PROVE  tx'[u].pc \notin BeforeWriting
  BY <1>2 DEF TypeOK, HandlersOK
<1>3. tx'[t].pc \notin BeforeWriting
  BY DEF TypeOK, HandlersOK
<1>4. RowsOK'
  BY DEF TypeOK, RowsOK, SWrite, Opt
<1>5. LocksOK'
  BY <1>2, <1>3, NoneAssumption DEF TypeOK, LocksOK, RowsOK, SWrite, Opt
<1> QED BY <1>1, <1>4, <1>5

\* A transaction ends; inserted rows stay inserted.
LEMMA CloseOK ==
  ASSUME TypeOK, NEW t \in Txs, Close(t),
         sess' \in [Sessions -> SessionStatus],
         resv' \in [Reservations -> Row],
         \A r \in Reservations : resv[r] # NoRow => resv'[r] # NoRow
  PROVE  RowsOK' /\ LocksOK' /\ HandlersOK'
<1> USE NoneAssumption
<1>1. RowsOK'
  BY NoRowFacts DEF TypeOK, RowsOK, Close, NoDraft, NoSDraft, SessionStatus, Opt
<1>2. HandlersOK'
  <2>1. HandlerOK(Idle)'
    BY DEF HandlerOK, Idle, Ops
  <2>2. ASSUME NEW u \in Txs, u # t
        PROVE  HandlerOK(tx[u])'
    BY <2>2 DEF TypeOK, HandlersOK, HandlerOK, Close
  <2> QED BY <2>1, <2>2, IdleIsHandler DEF TypeOK, HandlersOK, Close, HandlerOK
<1>3. LocksOK'
  <2>1. ASSUME NEW u \in Txs, u # t
        PROVE  tx'[u] = tx[u]
    BY <2>1 DEF Close, TypeOK, HandlersOK
  <2>2. ASSUME NEW r \in Reservations
        PROVE  IF draft'[r].by = NONE
                 THEN draft'[r] = NoDraft
                 ELSE /\ draft'[r].row # NoRow
                      /\ tx'[draft'[r].by].pc \notin BeforeWriting
    <3>1. CASE draft[r].by = t
      BY <3>1 DEF Close, NoDraft
    <3>2. CASE draft[r].by # t
      BY <3>2, <2>1 DEF Close, TypeOK, LocksOK, RowsOK, Opt
    <3> QED BY <3>1, <3>2
  <2>3. ASSUME NEW s \in Sessions, sdraft'[s].by # NONE
        PROVE  tx'[sdraft'[s].by].pc \notin BeforeWriting
    BY <2>1, <2>3 DEF Close, TypeOK, LocksOK, RowsOK, Opt, NoSDraft
  <2> QED BY <2>2, <2>3 DEF LocksOK
<1> QED BY <1>1, <1>2, <1>3
-----------------------------------------------------------------------------
(* Type correctness, one lemma per handler *)

LEMMA TypeInit == Init => TypeOK
<1> SUFFICES ASSUME Init PROVE TypeOK
  OBVIOUS
<1> USE DEF Init
<1>1. RowsOK
  BY NoRowFacts DEF RowsOK, NoDraft, NoSDraft, SessionStatus, Opt
<1>2. LocksOK
  BY DEF LocksOK, NoDraft, NoSDraft
<1>3. HandlersOK
  BY IdleIsHandler DEF HandlersOK
<1>4. MessagesOK
  BY BoundAssumption DEF MessagesOK, Opt
<1> QED BY <1>1, <1>2, <1>3, <1>4 DEF TypeOK

LEMMA TypeGenerateLink ==
  ASSUME TypeOK, NEW t \in Txs, GenerateLink(t)
  PROVE  TypeOK'
<1> USE NoneAssumption
<1>1. CASE \E s \in Sessions : LinkSave(t, s)
  <2>1. PICK s \in Sessions : LinkSave(t, s)
    BY <1>1
  <2> DEFINE h == [Idle EXCEPT !.op = "GenerateLink", !.pc = "enqueue",
                               !.session = s]
  <2>2. h \in Tx /\ HandlerOK(h) /\ h.pc \notin BeforeWriting
    BY DEF Idle, Tx, Opt, Ops, Steps, HandlerOK, BeforeWriting
  <2>3. RowsOK' /\ LocksOK' /\ HandlersOK'
    BY <2>1, <2>2, SWriteOK DEF LinkSave, SessionStatus
  <2>4. MessagesOK'
    BY <2>1 DEF LinkSave, TypeOK, MessagesOK
  <2> QED BY <2>3, <2>4 DEF TypeOK
<1>2. CASE LinkEnqueue(t)
  <2>1. RowsOK' /\ LocksOK' /\ HandlersOK'
    BY <1>2, GotoIsMove, MoveOK DEF LinkEnqueue, Data, Steps, BeforeWriting
  <2>2. tx[t].session \in Sessions
    BY <1>2 DEF LinkEnqueue, At, TypeOK, HandlersOK, HandlerOK, Ops
  <2>3. MessagesOK'
    BY <1>2, <2>2 DEF LinkEnqueue, TypeOK, MessagesOK
  <2> QED BY <2>1, <2>3 DEF TypeOK
<1>3. CASE LinkPublish(t)
  <2>1. RowsOK' /\ LocksOK' /\ HandlersOK'
    BY <1>3, GotoIsMove, MoveOK DEF LinkPublish, Data, Steps, BeforeWriting
  <2>2. tx[t].session \in Sessions
    BY <1>3 DEF LinkPublish, At, TypeOK, HandlersOK, HandlerOK, Ops
  <2>3. Event("session_link", tx[t].session, NONE, NONE) \in Events
    BY <2>2 DEF Event, Events, Opt
  <2>4. MessagesOK'
    BY <1>3, <2>3 DEF LinkPublish, TypeOK, MessagesOK
  <2> QED BY <2>1, <2>4 DEF TypeOK
<1> QED BY <1>1, <1>2, <1>3 DEF GenerateLink

LEMMA TypeSelectRoom ==
  ASSUME TypeOK, NEW t \in Txs, SelectRoom(t)
  PROVE  TypeOK'
<1> USE NoneAssumption
<1>0. tx[t] \in Tx /\ HandlerOK(tx[t])
  BY DEF TypeOK, HandlersOK
<1>1. CASE \E s \in Sessions, rm \in Rooms : SelectRead(t, s, rm)
  <2>1. PICK s \in Sessions, rm \in Rooms : SelectRead(t, s, rm)
    BY <1>1
  <2> DEFINE h == [Idle EXCEPT !.op = "SelectRoom", !.pc = "find",
                               !.session = s, !.room = rm]
  <2>2. h \in Tx /\ HandlerOK(h)
    BY DEF Idle, Tx, Opt, Ops, Steps, HandlerOK
  <2>3. RowsOK' /\ LocksOK' /\ HandlersOK'
    BY <2>1, <2>2, MoveOK, IdleIsHandler DEF SelectRead, Data
  <2>4. MessagesOK'
    BY <2>1 DEF SelectRead, TypeOK, MessagesOK
  <2> QED BY <2>3, <2>4 DEF TypeOK
<1>2. CASE SelectFind(t)
  <2>1. tx[t].pc \in BeforeWriting
    BY <1>2 DEF SelectFind, At, BeforeWriting
  <2>2. CASE Goto(t, "insert")
    BY <1>2, <2>2, GotoIsMove, MoveOK
       DEF SelectFind, Data, Steps, BeforeWriting, TypeOK, MessagesOK
  <2>3. ASSUME NEW r \in ActiveHolds(t, tx[t].session),
               tx' = [tx EXCEPT ![t] =
                       IF resv[r].room = tx[t].room
                         THEN Idle
                         ELSE [@ EXCEPT !.pc = "drop", !.res = r]]
        PROVE  TypeOK'
    <3> DEFINE h == [tx[t] EXCEPT !.pc = "drop", !.res = r]
    <3>1. View(t, r) = resv[r]
      BY <2>1 DEF View, ActiveHolds, TypeOK, LocksOK
    <3>2. r \in Reservations /\ resv[r] # NoRow
      BY <3>1, NoRowFacts DEF ActiveHolds
    <3>3. h \in Tx /\ HandlerOK(h)
      BY <1>0, <1>2, <3>2
         DEF Tx, HandlerOK, Opt, Ops, Steps, SelectFind, At
    <3>4. CASE tx' = [tx EXCEPT ![t] = Idle]
      BY <1>2, <2>1, <3>4, IdleIsHandler, MoveOK
         DEF SelectFind, Data, TypeOK, MessagesOK
    <3>5. CASE tx' = [tx EXCEPT ![t] = h]
      BY <1>2, <2>1, <3>3, <3>5, MoveOK
         DEF SelectFind, Data, TypeOK, MessagesOK
    <3> QED BY <2>3, <3>4, <3>5
  <2> QED BY <1>2, <2>2, <2>3 DEF SelectFind
<1>3. CASE SelectDrop(t)
  <2> DEFINE r == tx[t].res
             row == [View(t, r) EXCEPT !.deleted = TRUE]
  <2>1. r \in Reservations /\ resv[r] # NoRow
    BY <1>0, <1>3 DEF SelectDrop, At, HandlerOK
  <2>2. row \in Row \ {NoRow}
    BY <2>1, ViewIsRow, UpdatesAreRows DEF TypeOK
  <2>3. /\ draft' \in [Reservations -> [by : Opt(Txs), row : Row]]
        /\ \A q \in Reservations :
             draft'[q] = draft[q] \/ (draft'[q].by = t /\ draft'[q].row # NoRow)
    BY <1>3, <2>1, <2>2 DEF SelectDrop, Write, TypeOK, RowsOK, Opt
  <2>4. RowsOK' /\ LocksOK' /\ HandlersOK'
    BY <1>3, <2>3, WriteOK DEF SelectDrop, Steps, BeforeWriting
  <2> QED BY <1>3, <2>4 DEF SelectDrop, TypeOK, MessagesOK
<1>4. CASE \E r \in Reservations : SelectInsert(t, r)
  <2>1. PICK r \in Reservations : SelectInsert(t, r)
    BY <1>4
  <2> DEFINE hold == NewHold(tx[t].session, tx[t].room)
  <2>2. hold \in Row /\ hold # NoRow
    BY <1>0, <2>1, NewHoldIsRow DEF SelectInsert, At, HandlerOK, Ops
  <2>3. MessagesOK'
    BY <2>1 DEF SelectInsert, TypeOK, MessagesOK
  <2>4. CASE Rollback(t)
    BY <2>3, <2>4, CloseOK DEF Rollback, TypeOK, RowsOK
  <2>5. CASE Write(t, r, hold) /\ Goto(t, "commit") /\ UNCHANGED <<sess, resv, sdraft>>
    <3>1. /\ draft' \in [Reservations -> [by : Opt(Txs), row : Row]]
          /\ \A q \in Reservations :
               draft'[q] = draft[q] \/ (draft'[q].by = t /\ draft'[q].row # NoRow)
      BY <2>2, <2>5 DEF Write, TypeOK, RowsOK, Opt
    <3> QED BY <2>3, <2>5, <3>1, WriteOK DEF Steps, BeforeWriting, TypeOK
  <2> QED BY <2>1, <2>4, <2>5 DEF SelectInsert
<1> QED BY <1>1, <1>2, <1>3, <1>4 DEF SelectRoom
LEMMA TypeExpireSession ==
  ASSUME TypeOK, NEW t \in Txs, ExpireSession(t)
  PROVE  TypeOK'
<1> USE NoneAssumption
<1>0. tx[t] \in Tx /\ HandlerOK(tx[t])
  BY DEF TypeOK, HandlersOK
<1>1. CASE \E s \in Sessions : ExpireRead(t, s)
  <2>1. PICK s \in Sessions : ExpireRead(t, s)
    BY <1>1
  <2> DEFINE h == [Idle EXCEPT !.op = "ExpireSession", !.pc = "mark",
                               !.session = s]
  <2>2. h \in Tx /\ HandlerOK(h)
    BY DEF Idle, Tx, Opt, Ops, Steps, HandlerOK
  <2> QED BY <2>1, <2>2, MoveOK, IdleIsHandler
          DEF ExpireRead, Data, TypeOK, MessagesOK
<1>2. CASE ExpireMark(t)
  <2>1. tx[t].session \in Sessions /\ tx[t].pc \in BeforeWriting
    BY <1>0, <1>2 DEF ExpireMark, At, HandlerOK, Ops, BeforeWriting
  <2>2. CASE SWrite(t, tx[t].session, "EXPIRED") /\ Goto(t, "scan")
    <3>1. PICK h \in Tx : /\ tx' = [tx EXCEPT ![t] = h] /\ HandlerOK(h)
                         /\ h.pc \notin BeforeWriting
      BY <2>2, GotoIsMove DEF Steps, BeforeWriting
    <3> QED BY <1>2, <2>1, <2>2, <3>1, SWriteOK
            DEF ExpireMark, SessionStatus, TypeOK, MessagesOK
  <2>3. CASE tx' = [tx EXCEPT ![t] = Idle] /\ UNCHANGED sdraft
    BY <1>2, <2>1, <2>3, MoveOK, IdleIsHandler
       DEF ExpireMark, Data, TypeOK, MessagesOK
  <2> QED BY <1>2, <2>2, <2>3 DEF ExpireMark
<1>3. CASE ExpireScan(t)
  <2> DEFINE h == [tx[t] EXCEPT !.pc = "release",
                                !.scan = ActiveHolds(t, tx[t].session)]
  <2>1. h \in Tx /\ HandlerOK(h) /\ h.pc \notin BeforeWriting
    BY ZenonT(60), <1>0 DEF Tx, HandlerOK, Steps, ActiveHolds, BeforeWriting
  <2>2. tx' = [tx EXCEPT ![t] = h]
    BY <1>3 DEF ExpireScan
  <2> QED BY <1>3, <2>1, <2>2, MoveOK DEF ExpireScan, Data, TypeOK, MessagesOK
<1>4. CASE ExpireRelease(t)
  <2>1. ASSUME NEW r \in Reservations, r \in ActiveHolds(t, tx[t].session)
        PROVE  [View(t, r) EXCEPT !.status = "EXPIRED"] \in Row \ {NoRow}
    <3>1. View(t, r) # NoRow
      BY <2>1, NoRowFacts DEF ActiveHolds
    <3> QED BY <3>1, ViewIsRow, UpdatesAreRows DEF TypeOK
  <2>2. /\ draft' \in [Reservations -> [by : Opt(Txs), row : Row]]
        /\ \A q \in Reservations :
             draft'[q] = draft[q] \/ (draft'[q].by = t /\ draft'[q].row # NoRow)
    BY <1>4, <2>1 DEF ExpireRelease, TypeOK, RowsOK, Opt
  <2>3. RowsOK' /\ LocksOK' /\ HandlersOK'
    BY <1>4, <2>2, WriteOK DEF ExpireRelease, Steps, BeforeWriting
  <2> QED BY <1>4, <2>3 DEF ExpireRelease, TypeOK, MessagesOK
<1>5. CASE ExpirePublish(t)
  <2>1. RowsOK' /\ LocksOK' /\ HandlersOK'
    BY <1>5, GotoIsMove, MoveOK DEF ExpirePublish, Data, Steps, BeforeWriting
  <2>2. tx[t].session \in Sessions
    BY <1>0, <1>5 DEF ExpirePublish, At, HandlerOK, Ops
  <2>3. Event("session_expired", tx[t].session, NONE, NONE) \in Events
    BY <2>2 DEF Event, Events, Opt
  <2> QED BY <1>5, <2>1, <2>3 DEF ExpirePublish, TypeOK, MessagesOK
<1> QED BY <1>1, <1>2, <1>3, <1>4, <1>5 DEF ExpireSession

LEMMA TypeConfirmPayment ==
  ASSUME TypeOK, NEW t \in Txs, ConfirmPayment(t)
  PROVE  TypeOK'
<1> USE NoneAssumption
<1> DEFINE r == tx[t].res
<1>0. tx[t] \in Tx /\ HandlerOK(tx[t])
  BY DEF TypeOK, HandlersOK
<1>r. ASSUME tx[t].op = "ConfirmPayment"
      PROVE  /\ tx[t].session \in Sessions /\ tx[t].intent \in Intents
             /\ r \in Reservations
             /\ View(t, r) \in Row /\ View(t, r) # NoRow
  BY <1>0, <1>r, ViewIsRow DEF HandlerOK, Ops, TypeOK
<1>w. ASSUME NEW row \in Row \ {NoRow}, tx[t].op = "ConfirmPayment",
             Write(t, r, row)
      PROVE  /\ draft' \in [Reservations -> [by : Opt(Txs), row : Row]]
             /\ \A q \in Reservations :
                  \/ draft'[q] = draft[q]
                  \/ draft'[q].by = t /\ draft'[q].row # NoRow
  BY <1>r, <1>w DEF Write, TypeOK, RowsOK, Opt
<1>1. CASE \E i \in Intents : ConfirmFind(t, i)
  <2>1. PICK i \in Intents : ConfirmFind(t, i)
    BY <1>1
  <2>2. MessagesOK'
    BY <2>1 DEF ConfirmFind, TypeOK, MessagesOK
  <2>3. CASE UNCHANGED tx
    BY <2>1, <2>2, <2>3
       DEF ConfirmFind, TypeOK, RowsOK, LocksOK, HandlersOK, HandlerOK
  <2>4. ASSUME NEW q \in Found(i),
               tx' = [tx EXCEPT ![t] =
                        [Idle EXCEPT !.op = "ConfirmPayment", !.pc = "session",
                           !.session = resv[q].session, !.res = q, !.intent = i]]
        PROVE  TypeOK'
    <3> DEFINE h == [Idle EXCEPT !.op = "ConfirmPayment", !.pc = "session",
                       !.session = resv[q].session, !.res = q, !.intent = i]
    <3>1. q \in Reservations /\ resv[q] # NoRow /\ resv[q].session \in Sessions
      <4>1. q \in Reservations /\ resv[q] \in Row /\ resv[q] # NoRow
        BY DEF Found, NoRow, TypeOK, RowsOK
      <4> QED BY <4>1, RowFacts
    <3>2. h \in Tx /\ HandlerOK(h)
      BY <3>1 DEF Idle, Tx, Opt, Ops, Steps, HandlerOK
    <3> QED BY <2>1, <2>2, <2>4, <3>2, MoveOK, IdleIsHandler
            DEF ConfirmFind, Data, TypeOK
  <2> QED BY <2>1, <2>3, <2>4 DEF ConfirmFind
<1>2. CASE ConfirmReadSession(t)
  <2>1. tx[t].op = "ConfirmPayment" /\ tx[t].pc \in BeforeWriting
    BY <1>2 DEF ConfirmReadSession, At, BeforeWriting
  <2>2. MessagesOK'
    BY <1>2, <1>r, <2>1 DEF ConfirmReadSession, TypeOK, MessagesOK
  <2>3. CASE Goto(t, "assign")
    BY <1>2, <2>2, <2>3, GotoIsMove, MoveOK
       DEF ConfirmReadSession, Data, Steps, BeforeWriting, TypeOK
  <2>4. CASE tx' = [tx EXCEPT ![t] = Idle]
    BY <1>2, <2>1, <2>2, <2>4, MoveOK, IdleIsHandler
       DEF ConfirmReadSession, Data, TypeOK
  <2> QED BY <1>2, <2>3, <2>4 DEF ConfirmReadSession
<1>3. CASE \E ref \in Refs : ConfirmAssign(t, ref)
  <2>1. PICK ref \in Refs : ConfirmAssign(t, ref)
    BY <1>3
  <2> DEFINE row == [View(t, r) EXCEPT !.ref = ref]
  <2>2. MessagesOK' /\ tx[t].op = "ConfirmPayment"
    BY <2>1 DEF ConfirmAssign, At, TypeOK, MessagesOK
  <2>3. row \in Row \ {NoRow}
    BY <1>r, <2>2, UpdatesAreRows
  <2>4. CASE Rollback(t)
    BY <2>2, <2>4, CloseOK DEF Rollback, TypeOK, RowsOK
  <2>5. CASE Write(t, r, row) /\ Goto(t, "confirm") /\ UNCHANGED <<sess, resv, sdraft>>
    BY <1>w, <2>2, <2>3, <2>5, WriteOK DEF Steps, BeforeWriting, TypeOK
  <2> QED BY <2>1, <2>4, <2>5 DEF ConfirmAssign
<1>4. CASE ConfirmReservation(t)
  <2>1. MessagesOK' /\ tx[t].op = "ConfirmPayment"
    BY <1>4 DEF ConfirmReservation, At, TypeOK, MessagesOK
  <2>2. Confirmed(t) \in Row \ {NoRow}
    BY <1>r, <2>1, UpdatesAreRows DEF Confirmed
  <2>3. CASE Rollback(t)
    BY <2>1, <2>3, CloseOK DEF Rollback, TypeOK, RowsOK
  <2>4. CASE /\ Write(t, r, Confirmed(t)) /\ Goto(t, "complete")
             /\ UNCHANGED <<sess, resv, sdraft>>
    BY <1>w, <2>1, <2>2, <2>4, WriteOK DEF Steps, BeforeWriting, TypeOK
  <2> QED BY <1>4, <2>3, <2>4 DEF ConfirmReservation
<1>5. CASE ConfirmComplete(t)
  <2>1. tx[t].session \in Sessions
    BY <1>5, <1>r DEF ConfirmComplete, At
  <2>2. PICK h \in Tx : /\ tx' = [tx EXCEPT ![t] = h] /\ HandlerOK(h)
                       /\ h.pc \notin BeforeWriting
    BY <1>5, GotoIsMove DEF ConfirmComplete, Steps, BeforeWriting
  <2> QED BY <1>5, <2>1, <2>2, SWriteOK
          DEF ConfirmComplete, SessionStatus, TypeOK, MessagesOK
<1>6. CASE ConfirmPublish(t)
  <2>1. RowsOK' /\ LocksOK' /\ HandlersOK'
    BY <1>6, GotoIsMove, MoveOK DEF ConfirmPublish, Data, Steps, BeforeWriting
  <2>2. tx[t].session \in Sessions /\ r \in Reservations
    BY <1>6, <1>r DEF ConfirmPublish, At
  <2>3. draft[r].row.ref \in Opt(Refs)
    BY <2>2, RowFacts, NoRowFacts DEF TypeOK, RowsOK, Opt
  <2>4. Event("reservation_confirmed", tx[t].session, r, draft[r].row.ref) \in Events
    BY <2>2, <2>3 DEF Event, Events, Opt
  <2> QED BY <1>6, <2>1, <2>4 DEF ConfirmPublish, TypeOK, MessagesOK
<1> QED BY <1>1, <1>2, <1>3, <1>4, <1>5, <1>6 DEF ConfirmPayment

LEMMA TypeTransactionEnd ==
  ASSUME TypeOK, NEW t \in Txs, Commit(t) \/ Crash(t) \/ DeadlockVictim(t)
  PROVE  TypeOK'
<1> USE NoneAssumption
<1>1. CASE Commit(t)
  <2>1. /\ resv' \in [Reservations -> Row]
        /\ \A r \in Reservations : resv[r] # NoRow => resv'[r] # NoRow
    BY <1>1, ViewIsRow DEF Commit, TypeOK
  <2>2. sess' \in [Sessions -> SessionStatus]
    BY <1>1 DEF Commit, SView, TypeOK, RowsOK
  <2>3. MessagesOK'
    BY <1>1 DEF Commit, TypeOK, MessagesOK, HandlersOK, HandlerOK
  <2> QED BY <1>1, <2>1, <2>2, <2>3, CloseOK DEF Commit, TypeOK
<1>2. CASE Crash(t)
  BY <1>2, CloseOK, BoundAssumption DEF Crash, Rollback, TypeOK, RowsOK, MessagesOK
<1>3. CASE DeadlockVictim(t)
  BY <1>3, CloseOK DEF DeadlockVictim, Rollback, TypeOK, RowsOK, MessagesOK
<1> QED BY <1>1, <1>2, <1>3

LEMMA TypeEnvironment ==
  ASSUME TypeOK,
         \/ \E s \in Sessions : Lapse(s) \/ ExpireSkip(s)
         \/ \E s \in Sessions, i \in Intents, r \in Reservations :
              InitiateBookingPayment(s, i, r)
         \/ \E i \in Intents : LinkIntent(i)
  PROVE  TypeOK'
<1> USE DEF TypeOK
<1>1. ASSUME NEW s \in Sessions, Lapse(s) \/ ExpireSkip(s)
      PROVE  TypeOK'
  BY <1>1 DEF Lapse, ExpireSkip, RowsOK, LocksOK, HandlersOK, HandlerOK, MessagesOK
<1>2. ASSUME NEW s \in Sessions, NEW i \in Intents, NEW r \in Reservations,
             InitiateBookingPayment(s, i, r)
      PROVE  TypeOK'
  BY <1>2 DEF InitiateBookingPayment, RowsOK, LocksOK, HandlersOK, HandlerOK,
              MessagesOK, Opt
<1>3. ASSUME NEW i \in Intents, LinkIntent(i)
      PROVE  TypeOK'
  <2> DEFINE r == intentOf[i]
  <2>1. r \in Reservations /\ resv[r] \in Row /\ resv[r] # NoRow
    BY <1>3, NoRowFacts DEF LinkIntent, MessagesOK, RowsOK, Opt
  <2>2. [resv[r] EXCEPT !.intent = i] \in Row \ {NoRow}
    BY <2>1, UpdatesAreRows
  <2>3. resv' = [resv EXCEPT ![r] = [resv[r] EXCEPT !.intent = i]]
    BY <1>3 DEF LinkIntent
  <2>4. RowsOK' /\ \A q \in Reservations : resv[q] # NoRow => resv'[q] # NoRow
    BY ZenonT(60), <1>3, <2>2, <2>3 DEF LinkIntent, RowsOK
  <2>5. LocksOK' /\ HandlersOK' /\ MessagesOK'
    BY <1>3, <2>4 DEF LinkIntent, LocksOK, HandlersOK, HandlerOK, MessagesOK
  <2> QED BY <2>4, <2>5
<1> QED BY <1>1, <1>2, <1>3

LEMMA TypeNext == TypeOK /\ [Next]_vars => TypeOK'
<1> SUFFICES ASSUME TypeOK, [Next]_vars PROVE TypeOK'
  OBVIOUS
<1>1. CASE UNCHANGED vars
  BY <1>1 DEF vars, TypeOK, RowsOK, LocksOK, HandlersOK, HandlerOK, MessagesOK
<1>2. CASE Next
  BY <1>2, TypeGenerateLink, TypeSelectRoom, TypeExpireSession,
     TypeConfirmPayment, TypeTransactionEnd, TypeEnvironment DEF Next
<1> QED BY <1>1, <1>2

\* The state keeps its types, handlers carry existing rows, and locks belong to
\* open transactions, for every value of the constants.
THEOREM TypeCorrect == Spec => []TypeOK
BY TypeInit, TypeNext, PTL DEF Spec
-----------------------------------------------------------------------------
(* The exclusion constraint *)

\* Overlapping is symmetric, and so is conflicting.
LEMMA ConflictSymmetric ==
  ASSUME NEW a, NEW b, Conflict(a, b)
  PROVE  Conflict(b, a)
BY DEF Conflict, Overlap

\* Whether a row conflicts depends on its liveness, room and session only.
LEMMA ConflictFields ==
  ASSUME NEW a, NEW b, NEW c, Live(b) => Live(a),
         a.room = b.room, a.session = b.session, Conflict(b, c)
  PROVE  Conflict(a, c)
BY DEF Conflict

LEMMA DeadRows ==
  ASSUME NEW a, NEW b, ~Live(a)
  PROVE  ~Conflict(a, b) /\ ~Conflict(b, a)
BY DEF Conflict

\* An unlocked row has no version to conflict with.
LEMMA NoDraftNoConflict ==
  ASSUME TypeOK, NEW r \in Reservations, draft[r].by = NONE, NEW a
  PROVE  ~Conflict(draft[r].row, a) /\ ~Conflict(a, draft[r].row)
BY NoRowFacts, DeadRows DEF TypeOK, LocksOK, NoDraft

\* A transaction gives rows it may lock new versions, none in conflict with a
\* committed row it has not rewritten or with another uncommitted version.
LEMMA DraftStep ==
  ASSUME TypeOK, ExclusionInv, NEW t \in Txs, UNCHANGED resv,
         \A r \in Reservations :
           \/ draft'[r] = draft[r]
           \/ /\ CanLock(t, r) /\ draft'[r].by = t
              /\ \A q \in Reservations \ {r} :
                   /\ draft'[q].by # t => ~Conflict(draft'[r].row, resv[q])
                   /\ ~Conflict(draft'[r].row, draft'[q].row)
  PROVE  ExclusionInv'
<1> USE NoneAssumption
<1> SUFFICES ASSUME NEW r \in Reservations, NEW q \in Reservations, r # q
             PROVE  /\ ~Conflict(resv[r], resv[q])
                    /\ draft'[r].by # draft'[q].by =>
                         ~Conflict(draft'[r].row, resv[q])
                    /\ ~Conflict(draft'[r].row, draft'[q].row)
  BY DEF ExclusionInv
<1>1. ~Conflict(resv[r], resv[q])
  BY DEF ExclusionInv
<1>2. draft'[r].by # draft'[q].by => ~Conflict(draft'[r].row, resv[q])
  <2>1. CASE draft'[r] # draft[r]
    BY <2>1
  <2>2. CASE draft'[r] = draft[r] /\ draft[r].by = NONE
    BY <2>2, NoDraftNoConflict
  <2>3. CASE draft'[r] = draft[r] /\ draft[r].by # NONE
    BY <2>3 DEF ExclusionInv, CanLock
  <2> QED BY <2>1, <2>2, <2>3
<1>3. ~Conflict(draft'[r].row, draft'[q].row)
  <2>1. CASE draft'[r] = draft[r] /\ draft'[q] = draft[q]
    BY <2>1 DEF ExclusionInv
  <2>2. CASE draft'[r] # draft[r]
    BY <2>2
  <2>3. CASE draft'[q] # draft[q]
    BY <2>3, ConflictSymmetric
  <2> QED BY <2>1, <2>2, <2>3
<1> QED BY <1>1, <1>2, <1>3

\* One row, of which the writer saw that it conflicts with nothing: it waited
\* for every transaction that might still change the answer.
LEMMA CheckedWrite ==
  ASSUME TypeOK, ExclusionInv, NEW t \in Txs, NEW r \in Reservations, NEW row,
         CanLock(t, r), Blockers(t, r, row) = {}, ~Excluded(t, r, row),
         Write(t, r, row), UNCHANGED resv
  PROVE  ExclusionInv'
<1> USE NoneAssumption
<1>1. draft'[r] = [by |-> t, row |-> row]
  BY DEF Write, TypeOK, RowsOK
<1>2. \A q \in Reservations \ {r} : draft'[q] = draft[q]
  BY DEF Write, TypeOK, RowsOK
<1>3. ASSUME NEW q \in Reservations \ {r}
      PROVE  /\ draft[q].by # t => ~Conflict(row, resv[q])
             /\ ~Conflict(row, draft[q].row)
  <2>1. CASE draft[q].by = t
    BY <2>1 DEF Excluded, View
  <2>2. CASE draft[q].by = NONE
    BY <2>2, NoDraftNoConflict DEF Excluded, View
  <2>3. CASE ~CanLock(t, q)
    BY <2>3 DEF Blockers, CanLock
  <2> QED BY <2>1, <2>2, <2>3 DEF CanLock
<1> QED BY <1>1, <1>2, <1>3, DraftStep

\* A transaction that goes takes its versions with it.
LEMMA RollbackStep ==
  ASSUME TypeOK, ExclusionInv, NEW t \in Txs, Rollback(t)
  PROVE  ExclusionInv'
<1> USE NoneAssumption
<1> SUFFICES ASSUME NEW r \in Reservations, NEW q \in Reservations, r # q
             PROVE  /\ ~Conflict(resv[r], resv[q])
                    /\ draft'[r].by # draft'[q].by =>
                         ~Conflict(draft'[r].row, resv[q])
                    /\ ~Conflict(draft'[r].row, draft'[q].row)
  BY DEF ExclusionInv, Rollback
<1>1. \A p \in Reservations :
        draft'[p] = IF draft[p].by = t THEN NoDraft ELSE draft[p]
  BY DEF Rollback, Close
<1>2. CASE draft[r].by \in {t, NONE}
  BY <1>1, <1>2, NoRowFacts, DeadRows, NoDraftNoConflict DEF NoDraft, ExclusionInv
<1>3. CASE draft[r].by \notin {t, NONE} /\ draft[q].by = t
  BY <1>1, <1>3, NoRowFacts, DeadRows DEF NoDraft, ExclusionInv
<1>4. CASE draft[r].by \notin {t, NONE} /\ draft[q].by # t
  BY <1>1, <1>4 DEF ExclusionInv
<1> QED BY <1>2, <1>3, <1>4

\* A transaction that commits makes its versions the committed ones.
LEMMA CommitStep ==
  ASSUME TypeOK, ExclusionInv, NEW t \in Txs, Commit(t)
  PROVE  ExclusionInv'
<1> USE NoneAssumption
<1> SUFFICES ASSUME NEW r \in Reservations, NEW q \in Reservations, r # q
             PROVE  /\ ~Conflict(resv'[r], resv'[q])
                    /\ draft'[r].by # draft'[q].by =>
                         ~Conflict(draft'[r].row, resv'[q])
                    /\ ~Conflict(draft'[r].row, draft'[q].row)
  BY DEF ExclusionInv
<1>1. \A p \in Reservations :
        /\ resv'[p] = IF draft[p].by = t THEN draft[p].row ELSE resv[p]
        /\ draft'[p] = IF draft[p].by = t THEN NoDraft ELSE draft[p]
  BY DEF Commit, Close, View
<1>2. ~Conflict(resv'[r], resv'[q])
  <2>1. CASE draft[r].by = t /\ draft[q].by = t
    BY <1>1, <2>1 DEF ExclusionInv
  <2>2. CASE draft[r].by = t /\ draft[q].by # t
    BY <1>1, <2>2 DEF ExclusionInv
  <2>3. CASE draft[r].by # t /\ draft[q].by = t
    BY <1>1, <2>3, ConflictSymmetric DEF ExclusionInv
  <2>4. CASE draft[r].by # t /\ draft[q].by # t
    BY <1>1, <2>4 DEF ExclusionInv
  <2> QED BY <2>1, <2>2, <2>3, <2>4
<1>3. CASE draft[r].by \in {t, NONE}
  BY <1>1, <1>2, <1>3, NoRowFacts, DeadRows, NoDraftNoConflict DEF NoDraft
<1>4. CASE draft[r].by \notin {t, NONE} /\ draft[q].by = t
  BY <1>1, <1>2, <1>4, NoRowFacts, DeadRows DEF NoDraft, ExclusionInv
<1>5. CASE draft[r].by \notin {t, NONE} /\ draft[q].by # t
  BY <1>1, <1>2, <1>5 DEF ExclusionInv
<1> QED BY <1>3, <1>4, <1>5

LEMMA ExclusionInit == Init => ExclusionInv
BY NoRowFacts, DeadRows DEF Init, ExclusionInv, NoDraft

LEMMA ExclusionSelectRoom ==
  ASSUME TypeOK, ExclusionInv, NEW t \in Txs, SelectRoom(t)
  PROVE  ExclusionInv'
<1>1. CASE \E s \in Sessions, rm \in Rooms : SelectRead(t, s, rm)
  BY <1>1 DEF SelectRead, ExclusionInv
<1>2. CASE SelectFind(t)
  BY <1>2 DEF SelectFind, ExclusionInv
<1>3. CASE SelectDrop(t)
  <2> DEFINE row == [View(t, tx[t].res) EXCEPT !.deleted = TRUE]
  <2>1. tx[t].res \in Reservations
    BY <1>3 DEF SelectDrop, At, TypeOK, HandlersOK, HandlerOK
  <2>2. View(t, tx[t].res) \in Row \ {NoRow}
    BY <1>3, <2>1, ViewIsRow DEF SelectDrop, At, TypeOK, HandlersOK, HandlerOK
  <2>3. ~Live(row)
    BY <2>2 DEF Row, Live
  <2>4. ASSUME NEW q \in Reservations
        PROVE  draft'[q] = IF q = tx[t].res THEN [by |-> t, row |-> row]
                                            ELSE draft[q]
    BY <1>3, <2>1 DEF SelectDrop, Write, TypeOK, RowsOK
  <2> HIDE DEF row
  <2> QED BY <1>3, <2>1, <2>3, <2>4, DeadRows, DraftStep DEF SelectDrop
<1>4. CASE \E r \in Reservations : SelectInsert(t, r)
  <2>1. PICK r \in Reservations : SelectInsert(t, r)
    BY <1>4
  <2>2. CASE Rollback(t)
    BY <2>2, RollbackStep
  <2>3. CASE ~Rollback(t)
    BY <2>1, <2>3, CheckedWrite DEF SelectInsert, CanLock, NoDraft
  <2> QED BY <2>2, <2>3
<1> QED BY <1>1, <1>2, <1>3, <1>4 DEF SelectRoom

LEMMA ExclusionExpireSession ==
  ASSUME TypeOK, ExclusionInv, NEW t \in Txs, ExpireSession(t)
  PROVE  ExclusionInv'
<1>1. CASE ExpireRelease(t)
  <2> DEFINE R == tx[t].scan \cap ActiveHolds(t, tx[t].session)
  <2>1. ASSUME NEW r \in Reservations
        PROVE  \/ draft'[r] = draft[r]
               \/ CanLock(t, r) /\ draft'[r].by = t /\ ~Live(draft'[r].row)
    <3>1. CASE r \in R
      <4>1. View(t, r) \in Row /\ View(t, r) # NoRow
        BY <3>1, ViewIsRow, NoRowFacts DEF ActiveHolds, TypeOK
      <4>2. ~Live([View(t, r) EXCEPT !.status = "EXPIRED"])
        BY <4>1 DEF Row, Live
      <4> QED BY <1>1, <3>1, <4>2 DEF ExpireRelease
    <3>2. CASE r \notin R
      BY <1>1, <3>2 DEF ExpireRelease
    <3> QED BY <3>1, <3>2
  <2> QED BY <1>1, <2>1, DeadRows, DraftStep DEF ExpireRelease
<1>2. CASE UNCHANGED <<resv, draft>>
  BY <1>2 DEF ExclusionInv
<1> QED BY <1>1, <1>2
        DEF ExpireSession, ExpireRead, ExpireMark, ExpireScan, ExpirePublish

LEMMA ExclusionConfirmPayment ==
  ASSUME TypeOK, ExclusionInv, NEW t \in Txs, ConfirmPayment(t)
  PROVE  ExclusionInv'
<1> USE NoneAssumption
<1> DEFINE r == tx[t].res
<1>r. ASSUME tx[t].op = "ConfirmPayment"
      PROVE  r \in Reservations /\ View(t, r) \in Row \ {NoRow}
  BY <1>r, ViewIsRow DEF TypeOK, HandlersOK, HandlerOK
<1>1. CASE \E ref \in Refs : ConfirmAssign(t, ref)
  <2>1. PICK ref \in Refs : ConfirmAssign(t, ref)
    BY <1>1
  <2> DEFINE old == View(t, r)
             row == [old EXCEPT !.ref = ref]
  <2>2. CASE Rollback(t)
    BY <2>2, RollbackStep
  <2>3. CASE Write(t, r, row) /\ UNCHANGED resv
    <3>1. r \in Reservations /\ old \in Row \ {NoRow} /\ CanLock(t, r)
      BY <1>r, <2>1 DEF ConfirmAssign, At
    <3>2. /\ (Live(row) => Live(old)) /\ old.room = row.room
          /\ old.session = row.session
      BY <3>1 DEF Row, Live
    <3>3. ASSUME NEW q \in Reservations
          PROVE  draft'[q] = IF q = r THEN [by |-> t, row |-> row] ELSE draft[q]
      BY <2>3, <3>1 DEF Write, TypeOK, RowsOK
    <3>4. ASSUME NEW q \in Reservations \ {r}
          PROVE  /\ draft[q].by # t => ~Conflict(old, resv[q])
                 /\ ~Conflict(old, draft[q].row)
      <4>1. CASE draft[r].by = t
        BY <3>1, <4>1 DEF View, ExclusionInv
      <4>2. CASE draft[r].by = NONE
        <5>1. old = resv[r]
          BY <4>2 DEF View
        <5>2. ~Conflict(old, draft[q].row)
          BY <3>1, <4>2, <5>1, NoDraftNoConflict, ConflictSymmetric
             DEF ExclusionInv
        <5> QED BY <3>1, <5>1, <5>2 DEF ExclusionInv
      <4> QED BY <3>1, <4>1, <4>2 DEF CanLock
    <3>5. ASSUME NEW q \in Reservations \ {r}
          PROVE  /\ draft[q].by # t => ~Conflict(row, resv[q])
                 /\ ~Conflict(row, draft[q].row)
      <4> HIDE DEF row, old
      <4> QED BY <3>2, <3>4, ConflictFields
    <3> HIDE DEF row
    <3> QED BY <2>3, <3>1, <3>3, <3>5, DraftStep
  <2> QED BY <2>1, <2>2, <2>3 DEF ConfirmAssign
<1>2. CASE ConfirmReservation(t)
  <2>1. r \in Reservations
    BY <1>2, <1>r DEF ConfirmReservation, At
  <2>2. CASE Rollback(t)
    BY <2>2, RollbackStep
  <2>3. CASE ~Rollback(t)
    BY <1>2, <2>1, <2>3, CheckedWrite DEF ConfirmReservation
  <2> QED BY <2>2, <2>3
<1>3. CASE UNCHANGED <<resv, draft>>
  BY <1>3 DEF ExclusionInv
<1> QED BY <1>1, <1>2, <1>3
        DEF ConfirmPayment, ConfirmFind, ConfirmReadSession, ConfirmComplete,
            ConfirmPublish

LEMMA ExclusionNext == TypeOK /\ ExclusionInv /\ [Next]_vars => ExclusionInv'
<1> SUFFICES ASSUME TypeOK, ExclusionInv, [Next]_vars PROVE ExclusionInv'
  OBVIOUS
<1>1. CASE UNCHANGED <<resv, draft>>
  BY <1>1 DEF ExclusionInv
<1>2. ASSUME NEW t \in Txs, GenerateLink(t)
      PROVE  ExclusionInv'
  BY <1>1, <1>2 DEF GenerateLink, LinkSave, LinkEnqueue, LinkPublish
<1>3. ASSUME NEW t \in Txs, Commit(t) \/ Crash(t) \/ DeadlockVictim(t)
      PROVE  ExclusionInv'
  BY <1>3, CommitStep, RollbackStep DEF Crash, DeadlockVictim
<1>4. ASSUME NEW i \in Intents, LinkIntent(i)
      PROVE  ExclusionInv'
  <2> DEFINE p == intentOf[i]
  <2>1. p \in Reservations /\ resv[p] \in Row \ {NoRow}
    BY <1>4, NoRowFacts DEF LinkIntent, TypeOK, MessagesOK, RowsOK, Opt
  <2>2. ASSUME NEW q \in Reservations
        PROVE  /\ resv'[q].room = resv[q].room /\ resv'[q].session = resv[q].session
               /\ Live(resv'[q]) => Live(resv[q])
    BY <1>4, <2>1 DEF LinkIntent, TypeOK, RowsOK, Row, Live
  <2>3. ASSUME NEW r \in Reservations, NEW a, Conflict(resv'[r], a)
        PROVE  Conflict(resv[r], a)
    BY <2>2, <2>3, ConflictFields
  <2>4. draft' = draft
    BY <1>4 DEF LinkIntent
  <2> QED BY <2>3, <2>4, ConflictSymmetric DEF ExclusionInv
<1> QED BY <1>1, <1>2, <1>3, <1>4, ExclusionSelectRoom, ExclusionExpireSession,
           ExclusionConfirmPayment
        DEF Next, vars, Lapse, ExpireSkip, InitiateBookingPayment

\* Uncommitted versions never conflict with what they are not replacing.
THEOREM ExclusionHolds == Spec => []ExclusionInv
BY TypeInit, TypeNext, ExclusionInit, ExclusionNext, PTL DEF Spec

\* No interleaving of selections, releases, expiries and confirmations gives a
\* room to two live reservations whose stays share an instant.
THEOREM NoDoubleBookingHolds == Spec => []NoDoubleBooking
<1>1. ExclusionInv => NoDoubleBooking
  BY DEF ExclusionInv, NoDoubleBooking
<1> QED BY <1>1, ExclusionHolds, PTL
-----------------------------------------------------------------------------
(* A confirmed reservation stays confirmed *)

\* Nobody holds a version of a confirmed row in which it is not confirmed.
FinalInv ==
  \A r \in Reservations :
    resv[r].status = "CONFIRMED" /\ draft[r].by # NONE =>
      draft[r].row.status = "CONFIRMED"

\* Under FinalInv a transaction sees a confirmed row as confirmed.
LEMMA ViewKeepsConfirmed ==
  ASSUME FinalInv, NEW t \in Txs, NEW r \in Reservations,
         resv[r].status = "CONFIRMED"
  PROVE  View(t, r).status = "CONFIRMED"
BY SMTT(30), NoneAssumption DEF FinalInv, View

\* Every version a step writes for a confirmed row keeps it confirmed.
LEMMA WritesKeepConfirmed ==
  ASSUME TypeOK, FinalInv, NEW t \in Txs,
         SelectRoom(t) \/ ExpireSession(t) \/ ConfirmPayment(t),
         NEW r \in Reservations, resv[r].status = "CONFIRMED",
         draft'[r] # draft[r], draft'[r].by # NONE
  PROVE  draft'[r].row.status = "CONFIRMED"
<1> USE NoneAssumption
<1>1. View(t, r).status = "CONFIRMED"
  BY ViewKeepsConfirmed
<1>2. resv[r] # NoRow /\ View(t, r) \in Row \ {NoRow}
  BY NoRowFacts, ViewIsRow DEF TypeOK
<1>3. CASE Rollback(t)
  BY <1>3 DEF Rollback, Close, NoDraft
<1>4. CASE SelectDrop(t)
  BY <1>1, <1>2, <1>4 DEF SelectDrop, Write, TypeOK, RowsOK, Row
<1>5. CASE ExpireRelease(t)
  BY <1>1, <1>5 DEF ExpireRelease, ActiveHolds
<1>6. CASE (\E ref \in Refs : ConfirmAssign(t, ref)) /\ ~Rollback(t)
  BY <1>1, <1>2, <1>6 DEF ConfirmAssign, Write, TypeOK, RowsOK, Row
<1>7. CASE ConfirmReservation(t) /\ ~Rollback(t)
  <2>1. CASE r = tx[t].res
    <3>1. Confirmed(t).status = "CONFIRMED"
      BY <1>2, <2>1 DEF Confirmed, Row
    <3> QED BY <1>7, <2>1, <3>1 DEF ConfirmReservation, Write, TypeOK, RowsOK
  <2>2. CASE r # tx[t].res
    BY <1>7, <2>2 DEF ConfirmReservation, Write, TypeOK, RowsOK
  <2> QED BY <2>1, <2>2
<1>8. CASE (\E q \in Reservations : SelectInsert(t, q)) /\ ~Rollback(t)
  BY SMTT(30), <1>2, <1>8 DEF SelectInsert, Write, TypeOK, RowsOK
<1> QED BY <1>3, <1>4, <1>5, <1>6, <1>7, <1>8
        DEF SelectRoom, SelectRead, SelectFind, ExpireSession, ExpireRead,
            ExpireMark, ExpireScan, ExpirePublish, ConfirmPayment, ConfirmFind,
            ConfirmReadSession, ConfirmComplete, ConfirmPublish

\* Handlers leave the committed rows alone until they commit.
LEMMA HandlersKeepRows ==
  ASSUME NEW t \in Txs,
         GenerateLink(t) \/ SelectRoom(t) \/ ExpireSession(t) \/ ConfirmPayment(t)
  PROVE  UNCHANGED resv
BY DEF Rollback, GenerateLink, LinkSave, LinkEnqueue, LinkPublish,
       SelectRoom, SelectRead, SelectFind, SelectDrop, SelectInsert,
       ExpireSession, ExpireRead, ExpireMark, ExpireScan, ExpireRelease,
       ExpirePublish, ConfirmPayment, ConfirmFind, ConfirmReadSession,
       ConfirmAssign, ConfirmReservation, ConfirmComplete, ConfirmPublish

Stays == \A r \in Reservations :
           resv[r].status = "CONFIRMED" => resv'[r].status = "CONFIRMED"

LEMMA FinalNext ==
  ASSUME TypeOK, FinalInv, [Next]_vars
  PROVE  FinalInv' /\ Stays
<1> USE NoneAssumption
<1>1. CASE UNCHANGED <<resv, draft>>
  BY <1>1 DEF FinalInv, Stays
<1>2. ASSUME NEW t \in Txs, GenerateLink(t)
      PROVE  UNCHANGED <<resv, draft>>
  BY <1>2 DEF GenerateLink, LinkSave, LinkEnqueue, LinkPublish
<1>3. ASSUME NEW t \in Txs, SelectRoom(t) \/ ExpireSession(t) \/ ConfirmPayment(t)
      PROVE  FinalInv' /\ Stays
  <2>1. UNCHANGED resv
    BY <1>3, HandlersKeepRows
  <2>2. ASSUME NEW r \in Reservations, resv[r].status = "CONFIRMED",
               draft'[r].by # NONE
        PROVE  draft'[r].row.status = "CONFIRMED"
    BY <1>3, <2>2, WritesKeepConfirmed DEF FinalInv
  <2> QED BY <2>1, <2>2 DEF FinalInv, Stays
<1>4. ASSUME NEW t \in Txs, Commit(t)
      PROVE  FinalInv' /\ Stays
  <2>1. \A r \in Reservations :
          /\ resv'[r] = View(t, r)
          /\ draft'[r] = IF draft[r].by = t THEN NoDraft ELSE draft[r]
    BY <1>4 DEF Commit, Close
  <2>2. Stays
    BY <2>1, ViewKeepsConfirmed DEF Stays
  <2>3. FinalInv'
    BY <2>1 DEF FinalInv, View, NoDraft
  <2> QED BY <2>2, <2>3
<1>5. ASSUME NEW t \in Txs, Crash(t) \/ DeadlockVictim(t)
      PROVE  FinalInv' /\ Stays
  BY <1>5 DEF Crash, DeadlockVictim, Rollback, Close, FinalInv, Stays, NoDraft
<1>6. ASSUME NEW i \in Intents, LinkIntent(i)
      PROVE  FinalInv' /\ Stays
  <2>1. /\ draft' = draft
        /\ \A r \in Reservations : resv'[r].status = resv[r].status
    BY <1>6 DEF LinkIntent, TypeOK, RowsOK, Row, NoRow
  <2> QED BY <2>1 DEF FinalInv, Stays
<1> QED BY <1>1, <1>2, <1>3, <1>4, <1>5, <1>6
        DEF Next, vars, Lapse, ExpireSkip, InitiateBookingPayment

\* No step takes a confirmed reservation back, not even that of a handler which
\* read the row as a hold before the confirmation committed.
THEOREM ConfirmedIsFinalHolds == Spec => ConfirmedIsFinal
<1>1. Init => FinalInv
  BY DEF Init, FinalInv, NoDraft
<1>2. TypeOK /\ FinalInv /\ [Next]_vars => FinalInv'
  BY FinalNext
<1>3. TypeOK /\ FinalInv /\ [Next]_vars =>
        [\A r \in Reservations :
           resv[r].status = "CONFIRMED" => resv'[r].status = "CONFIRMED"]_vars
  BY FinalNext DEF Stays
<1> QED BY <1>1, <1>2, <1>3, TypeCorrect, PTL DEF Spec, ConfirmedIsFinal
=============================================================================
