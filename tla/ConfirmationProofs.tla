-------------------------- MODULE ConfirmationProofs --------------------------
(***************************************************************************)
(* More proofs about Booking, for any number of sessions, rooms,           *)
(* reservations, intents, references and connections: what a confirmation  *)
(* means once it is committed, that a change of rooms loses none, and, for *)
(* one connection, that Booking implements RoomLedger.                     *)
(*                                                                         *)
(* The argument says what every open transaction has written so far        *)
(* (HandlerInv) and where every uncommitted version comes from             *)
(* (VersionInv).  A step of one transaction disturbs neither for another,  *)
(* because it writes only what it may lock; COMMIT then makes of what is   *)
(* known of the versions what is claimed of the rows.  With one connection *)
(* what a handler has read stays true until its COMMIT (SerialInv), which  *)
(* therefore is one step of the ledger.                                    *)
(***************************************************************************)
EXTENDS BookingProofs, BookingLedger

-----------------------------------------------------------------------------
(* The invariant *)

\* The steps of ConfirmPayment after the reservation was confirmed.
AfterConfirm == {"complete", "publish", "commit"}

\* A confirmation holds the row it found, with a reference, then confirmed, then
\* its session, COMPLETED; the row still is of that session and that intent.
ConfirmingOK(t) ==
  LET h == tx[t]
      version == draft[h.res]
  IN  /\ resv[h.res].session = h.session
      /\ resv[h.res].intent = h.intent
      /\ h.pc \in AfterConfirm \cup {"confirm"} =>
           version.by = t /\ version.row.ref # NONE
      /\ h.pc \in AfterConfirm => version.row.status = "CONFIRMED"
      /\ h.pc \in AfterConfirm \ {"complete"} =>
           sdraft[h.session] = [by |-> t, status |-> "COMPLETED"]

\* A selection drops a row of its session, and commits a new hold.
SelectingOK(t) ==
  LET h == tx[t]
  IN  /\ h.pc = "drop" => resv[h.res].session = h.session
      /\ h.pc = "commit" =>
           \E q \in Reservations :
             /\ resv[q] = NoRow
             /\ draft[q] = [by |-> t, row |-> NewHold(h.session, h.room)]

\* An expiry holds its session, EXPIRED, from its first write on.
ExpiringOK(t) ==
  tx[t].pc \notin BeforeWriting =>
    sdraft[tx[t].session] = [by |-> t, status |-> "EXPIRED"]

HandlerInv(t) ==
  /\ tx[t].op = "ConfirmPayment" => ConfirmingOK(t)
  /\ tx[t].op = "SelectRoom" => SelectingOK(t)
  /\ tx[t].op = "ExpireSession" => ExpiringOK(t)

\* A row that is version or committed row keeps its session and its intent, and
\* what a handler writes is of the handler's session.  A confirmation writes one
\* row and does not undelete it; only it confirms a row, and gives it a reference.
VersionInv(r) ==
  LET row == draft[r].row
      h   == tx[draft[r].by]
  IN  draft[r].by # NONE =>
        /\ row.session = h.session /\ row.intent = resv[r].intent
        /\ resv[r] # NoRow => row.session = resv[r].session
        /\ h.op \in {"SelectRoom", "ExpireSession", "ConfirmPayment"}
        /\ h.op = "ConfirmPayment" => r = h.res /\ row.deleted = resv[r].deleted
        /\ row.status = "CONFIRMED" => row.ref # NONE
        /\ row.status = "CONFIRMED" /\ resv[r].status # "CONFIRMED" =>
             h.op = "ConfirmPayment" /\ h.pc \in AfterConfirm

WorkInv ==
  /\ \A t \in Txs : HandlerInv(t)
  /\ \A r \in Reservations : VersionInv(r)
  /\ \A r \in Reservations : resv[r].status = "CONFIRMED" => resv[r].ref # NONE

-----------------------------------------------------------------------------
(* What a step of one transaction leaves to the others *)

\* t commits nothing, moves no other handler, and writes or drops only versions
\* whose locks it may have.
StepOf(t) ==
  /\ UNCHANGED <<sess, resv>>
  /\ \A u \in Txs \ {t} : tx'[u] = tx[u]
  /\ \A r \in Reservations :
       draft'[r] = draft[r] \/ (CanLock(t, r) /\ draft'[r].by \in {t, NONE})
  /\ \A s \in Sessions :
       sdraft'[s] = sdraft[s] \/ (CanSLock(t, s) /\ sdraft'[s].by \in {t, NONE})

LEMMA OthersKeepHandlers ==
  ASSUME TypeOK, NEW t \in Txs, StepOf(t), NEW u \in Txs \ {t}, HandlerInv(u)
  PROVE  HandlerInv(u)'
<1> USE NoneAssumption
<1>1. tx'[u] = tx[u] /\ resv' = resv
  BY DEF StepOf
<1>2. \A r \in Reservations : draft[r].by = u => draft'[r] = draft[r]
  BY DEF StepOf, CanLock
<1>3. \A s \in Sessions : sdraft[s].by = u => sdraft'[s] = sdraft[s]
  BY DEF StepOf, CanSLock
<1>4. HandlerOK(tx[u])
  BY DEF TypeOK, HandlersOK
<1>5. tx[u].op = "ConfirmPayment" => ConfirmingOK(u)'
  <2> SUFFICES ASSUME tx[u].op = "ConfirmPayment" PROVE ConfirmingOK(u)'
    OBVIOUS
  <2>1. ConfirmingOK(u) /\ tx[u].res \in Reservations /\ tx[u].session \in Sessions
    BY <1>4 DEF HandlerInv, HandlerOK, Ops
  <2>2. CASE tx[u].pc \in AfterConfirm \cup {"confirm"}
    <3>1. draft'[tx[u].res] = draft[tx[u].res]
      BY <1>2, <2>1, <2>2 DEF ConfirmingOK
    <3>2. tx[u].pc \in AfterConfirm \ {"complete"} =>
            sdraft'[tx[u].session] = sdraft[tx[u].session]
      BY <1>3, <2>1 DEF ConfirmingOK
    <3> QED BY <1>1, <2>1, <3>1, <3>2 DEF ConfirmingOK
  <2>3. CASE tx[u].pc \notin AfterConfirm \cup {"confirm"}
    BY <1>1, <2>1, <2>3 DEF ConfirmingOK
  <2> QED BY <2>2, <2>3
<1>6. tx[u].op = "SelectRoom" => SelectingOK(u)'
  BY <1>1, <1>2 DEF HandlerInv, SelectingOK
<1>7. tx[u].op = "ExpireSession" => ExpiringOK(u)'
  BY <1>1, <1>3, <1>4 DEF HandlerInv, ExpiringOK, HandlerOK, Ops
<1> QED BY <1>1, <1>5, <1>6, <1>7 DEF HandlerInv

LEMMA OthersKeepVersions ==
  ASSUME TypeOK, NEW t \in Txs, StepOf(t), NEW r \in Reservations,
         VersionInv(r), draft'[r].by # t
  PROVE  VersionInv(r)'
<1> USE NoneAssumption
<1>1. CASE draft'[r].by = NONE
  BY <1>1 DEF VersionInv
<1>2. CASE draft'[r].by # NONE
  <2>1. draft'[r] = draft[r] /\ draft[r].by \in Txs \ {t}
    BY <1>2 DEF StepOf, TypeOK, RowsOK, Opt
  <2>2. tx'[draft[r].by] = tx[draft[r].by] /\ resv' = resv
    BY <2>1 DEF StepOf
  <2> QED BY <2>1, <2>2 DEF VersionInv
<1> QED BY <1>1, <1>2

\* So a step of t is right if what t itself has then written is.
LEMMA OwnWork ==
  ASSUME TypeOK, WorkInv, NEW t \in Txs, StepOf(t), HandlerInv(t)',
         \A r \in Reservations : draft'[r].by = t => VersionInv(r)'
  PROVE  WorkInv'
<1>1. ASSUME NEW u \in Txs PROVE HandlerInv(u)'
  BY OthersKeepHandlers DEF WorkInv
<1>2. ASSUME NEW r \in Reservations PROVE VersionInv(r)'
  BY OthersKeepVersions DEF WorkInv
<1>3. \A r \in Reservations : resv'[r].status = "CONFIRMED" => resv'[r].ref # NONE
  BY DEF WorkInv, StepOf
<1> QED BY <1>1, <1>2, <1>3 DEF WorkInv

\* A handler that has written nothing holds no version.
LEMMA NothingWritten ==
  ASSUME TypeOK, NEW t \in Txs, tx[t].pc \in BeforeWriting, NEW r \in Reservations
  PROVE  draft[r].by # t
BY NoneAssumption DEF TypeOK, LocksOK, Opt

\* ROLLBACK leaves nothing of the transaction behind.
LEMMA RollbackWork ==
  ASSUME TypeOK, WorkInv, NEW t \in Txs, Rollback(t)
  PROVE  WorkInv'
<1> USE NoneAssumption
<1>1. tx'[t] = Idle
  BY DEF Rollback, Close, TypeOK, HandlersOK
<1>2. \A r \in Reservations : draft'[r].by # t
  BY DEF Rollback, Close, NoDraft
<1>3. StepOf(t)
  BY DEF Rollback, Close, StepOf, TypeOK, HandlersOK, NoDraft, NoSDraft, CanLock, CanSLock
<1>4. HandlerInv(t)'
  BY <1>1 DEF HandlerInv, Idle, Ops
<1> QED BY <1>2, <1>3, <1>4, OwnWork

\* A handler that ends before its first write, or that reads and moves on,
\* leaves the versions what they are.
LEMMA MovedWork ==
  ASSUME TypeOK, WorkInv, NEW t \in Txs, UNCHANGED Data,
         \A u \in Txs \ {t} : tx'[u] = tx[u],
         HandlerInv(t)',
         \/ tx[t].pc \in BeforeWriting
         \/ /\ tx'[t].op = tx[t].op /\ tx'[t].session = tx[t].session
            /\ tx'[t].res = tx[t].res
            /\ tx[t].pc \in AfterConfirm => tx'[t].pc \in AfterConfirm
  PROVE  WorkInv'
<1>1. StepOf(t)
  BY DEF StepOf, Data
<1>2. ASSUME NEW r \in Reservations, draft'[r].by = t
      PROVE  VersionInv(r)'
  <2>1. draft' = draft /\ resv' = resv /\ draft[r].by = t /\ VersionInv(r)
    BY <1>2 DEF Data, WorkInv
  <2>2. tx[t].pc \notin BeforeWriting
    BY <2>1, NothingWritten
  <2> QED BY <2>1, <2>2 DEF VersionInv
<1> QED BY <1>1, <1>2, OwnWork

\* What VersionInv will ask of a version row of r by t once t is at step pc.
Fits(t, r, row, pc) ==
  /\ row.session = tx[t].session /\ row.intent = resv[r].intent
  /\ resv[r] # NoRow => row.session = resv[r].session
  /\ tx[t].op \in {"SelectRoom", "ExpireSession", "ConfirmPayment"}
  /\ tx[t].op = "ConfirmPayment" => r = tx[t].res /\ row.deleted = resv[r].deleted
  /\ row.status = "CONFIRMED" => row.ref # NONE
  /\ row.status = "CONFIRMED" /\ resv[r].status # "CONFIRMED" =>
       tx[t].op = "ConfirmPayment" /\ pc \in AfterConfirm

\* A handler writes one version and moves on.
LEMMA WrittenWork ==
  ASSUME TypeOK, WorkInv, NEW t \in Txs, NEW r \in Reservations, NEW row, NEW pc,
         CanLock(t, r), Write(t, r, row), Goto(t, pc), Fits(t, r, row, pc),
         tx[t].pc \notin AfterConfirm, UNCHANGED <<sess, resv, sdraft>>,
         HandlerInv(t)'
  PROVE  WorkInv'
<1>1. \A q \in Reservations :
        draft'[q] = IF q = r THEN [by |-> t, row |-> row] ELSE draft[q]
  BY DEF Write, TypeOK, RowsOK
<1>2. /\ \A u \in Txs \ {t} : tx'[u] = tx[u]
      /\ tx'[t] = [tx[t] EXCEPT !.pc = pc] /\ tx[t] \in Tx
  BY DEF Goto, TypeOK, HandlersOK
<1>3. /\ tx'[t].op = tx[t].op /\ tx'[t].session = tx[t].session
      /\ tx'[t].res = tx[t].res /\ tx'[t].pc = pc
  BY <1>2 DEF Tx
<1>4. StepOf(t)
  BY <1>1, <1>2 DEF StepOf
<1>5. ASSUME NEW q \in Reservations, draft'[q].by = t
      PROVE  VersionInv(q)'
  <2>1. CASE q = r
    BY <1>1, <1>3, <2>1 DEF Fits, VersionInv
  <2>2. CASE q # r
    <3>1. draft'[q] = draft[q] /\ draft[q].by = t /\ VersionInv(q)
      BY <1>1, <1>5, <2>2 DEF WorkInv
    <3> QED BY <1>3, <3>1 DEF VersionInv
  <2> QED BY <2>1, <2>2
<1> QED BY <1>4, <1>5, OwnWork

\* A row seen by t, and by t alone if it is not committed, is of the session and
\* the intent of the committed row.
LEMMA SeenFacts ==
  ASSUME TypeOK, WorkInv, NEW t \in Txs, NEW r \in Reservations, resv[r] # NoRow
  PROVE  /\ View(t, r) \in Row \ {NoRow}
         /\ View(t, r).session = resv[r].session
         /\ View(t, r).intent = resv[r].intent
         /\ View(t, r).status = "CONFIRMED" => View(t, r).ref # NONE
         /\ View(t, r).status = "CONFIRMED" /\ resv[r].status # "CONFIRMED" =>
              draft[r].by = t /\ tx[t].op = "ConfirmPayment" /\ tx[t].pc \in AfterConfirm
         /\ tx[t].op = "ConfirmPayment" => View(t, r).deleted = resv[r].deleted
<1>1. View(t, r) \in Row \ {NoRow}
  BY ViewIsRow DEF TypeOK
<1>2. CASE draft[r].by = t
  <2>1. View(t, r) = draft[r].row /\ VersionInv(r) /\ t # NONE
    BY <1>2, NoneAssumption DEF View, WorkInv
  <2> QED BY <1>1, <1>2, <2>1 DEF VersionInv
<1>3. CASE draft[r].by # t
  <2>1. View(t, r) = resv[r]
    BY <1>3 DEF View
  <2> QED BY <1>1, <2>1 DEF WorkInv
<1> QED BY <1>2, <1>3

-----------------------------------------------------------------------------
(* The handlers *)

LEMMA WorkGenerateLink ==
  ASSUME TypeOK, WorkInv, NEW t \in Txs, GenerateLink(t)
  PROVE  WorkInv'
<1>1. /\ UNCHANGED <<sess, resv, draft>> /\ tx'[t].op = "GenerateLink"
      /\ tx[t] = Idle \/ tx[t].op = "GenerateLink"
      /\ \A u \in Txs \ {t} : tx'[u] = tx[u]
  BY DEF GenerateLink, LinkSave, LinkEnqueue, LinkPublish, TypeOK, HandlersOK, Tx, Idle,
         At, Goto
<1>2. \A s \in Sessions :
        sdraft'[s] = sdraft[s] \/ (CanSLock(t, s) /\ sdraft'[s].by \in {t, NONE})
  <2>1. CASE \E s \in Sessions : LinkSave(t, s)
    BY <2>1 DEF LinkSave, SWrite, CanSLock, NoSDraft, TypeOK, RowsOK
  <2>2. CASE sdraft' = sdraft
    BY <2>2
  <2> QED BY <2>1, <2>2 DEF GenerateLink, LinkEnqueue, LinkPublish
<1>5. StepOf(t)
  BY <1>1, <1>2 DEF StepOf
<1>3. HandlerInv(t)'
  BY <1>1 DEF HandlerInv
<1>4. ASSUME NEW r \in Reservations PROVE draft'[r].by # t
  <2>1. VersionInv(r) /\ draft' = draft /\ t # NONE
    BY <1>1, NoneAssumption DEF WorkInv
  <2>2. tx[t].op \notin {"SelectRoom", "ExpireSession", "ConfirmPayment"}
    BY <1>1, NoneAssumption DEF Idle, Ops
  <2> QED BY <2>1, <2>2 DEF VersionInv
<1> QED BY <1>3, <1>4, <1>5, OwnWork

LEMMA WorkSelectRoom ==
  ASSUME TypeOK, WorkInv, NEW t \in Txs, SelectRoom(t)
  PROVE  WorkInv'
<1> USE NoneAssumption
<1>h. tx[t] \in Tx /\ HandlerOK(tx[t])
  BY DEF TypeOK, HandlersOK
<1>1. CASE \E s \in Sessions, rm \in Rooms : SelectRead(t, s, rm)
  <2>1. /\ UNCHANGED Data /\ \A u \in Txs \ {t} : tx'[u] = tx[u]
        /\ tx'[t].op = "SelectRoom" /\ tx'[t].pc = "find" /\ tx[t].pc \in BeforeWriting
    BY <1>1 DEF SelectRead, Data, TypeOK, HandlersOK, Idle, BeforeWriting
  <2>2. HandlerInv(t)'
    BY <2>1 DEF HandlerInv, SelectingOK
  <2> QED BY <2>1, <2>2, MovedWork
<1>2. CASE SelectFind(t)
  <2>1. UNCHANGED Data /\ tx[t].pc \in BeforeWriting /\ tx[t].op = "SelectRoom"
    BY <1>2 DEF SelectFind, At, Data, BeforeWriting
  <2>2. \A u \in Txs \ {t} : tx'[u] = tx[u]
    BY <1>2 DEF SelectFind, Goto, TypeOK, HandlersOK
  <2>3. HandlerInv(t)'
    <3>1. CASE Goto(t, "insert")
      BY <1>h, <2>1, <3>1 DEF Goto, HandlerInv, SelectingOK, TypeOK, HandlersOK, Tx
    <3>2. ASSUME NEW r \in ActiveHolds(t, tx[t].session),
                 tx' = [tx EXCEPT ![t] = IF resv[r].room = tx[t].room
                                           THEN Idle
                                           ELSE [@ EXCEPT !.pc = "drop", !.res = r]]
          PROVE  HandlerInv(t)'
      <4>1. CASE tx'[t] = Idle
        BY <4>1 DEF HandlerInv, Idle, Ops
      <4>2. CASE tx'[t] = [tx[t] EXCEPT !.pc = "drop", !.res = r]
        <5>1. r \in Reservations /\ View(t, r).session = tx[t].session
          BY DEF ActiveHolds
        <5>2. View(t, r) = resv[r]
          BY <2>1, <5>1, NothingWritten DEF View
        <5>3. /\ tx'[t].op = "SelectRoom" /\ tx'[t].pc = "drop" /\ tx'[t].res = r
              /\ tx'[t].session = tx[t].session
          BY <1>h, <2>1, <4>2 DEF Tx
        <5>4. resv' = resv
          BY <2>1 DEF Data
        <5> QED BY <5>1, <5>2, <5>3, <5>4 DEF HandlerInv, SelectingOK
      <4> QED BY <3>2, <4>1, <4>2 DEF TypeOK, HandlersOK
    <3> QED BY <1>2, <3>1, <3>2 DEF SelectFind
  <2> QED BY <2>1, <2>2, <2>3, MovedWork
<1>3. CASE SelectDrop(t)
  <2> DEFINE r == tx[t].res
             old == View(t, r)
             row == [old EXCEPT !.deleted = TRUE]
  <2>1. /\ tx[t].op = "SelectRoom" /\ tx[t].pc = "drop"
        /\ r \in Reservations /\ resv[r] # NoRow /\ resv[r].session = tx[t].session
    BY <1>3, <1>h DEF SelectDrop, At, HandlerOK, WorkInv, HandlerInv, SelectingOK
  <2>2. /\ old \in Row \ {NoRow} /\ old.session = resv[r].session
        /\ old.intent = resv[r].intent
        /\ old.status = "CONFIRMED" => old.ref # NONE /\ resv[r].status = "CONFIRMED"
    BY <2>1, SeenFacts
  <2>3. /\ row.session = old.session /\ row.intent = old.intent
        /\ row.status = old.status /\ row.ref = old.ref
    BY <2>2 DEF Row
  <2>4. CanLock(t, r) /\ Write(t, r, row) /\ Goto(t, "insert")
        /\ UNCHANGED <<sess, resv, sdraft>>
    BY <1>3 DEF SelectDrop
  <2>5. HandlerInv(t)'
    BY <1>h, <2>1, <2>4 DEF Goto, HandlerInv, SelectingOK, TypeOK, HandlersOK, Tx
  <2> HIDE DEF row, old
  <2>6. Fits(t, r, row, "insert")
    BY <2>1, <2>2, <2>3 DEF Fits
  <2>7. tx[t].pc \notin AfterConfirm
    BY <2>1 DEF AfterConfirm
  <2> HIDE DEF r
  <2> QED BY <2>1, <2>4, <2>5, <2>6, <2>7, WrittenWork
<1>4. CASE \E r \in Reservations : SelectInsert(t, r)
  <2>1. PICK r \in Reservations : SelectInsert(t, r)
    BY <1>4
  <2> DEFINE hold == NewHold(tx[t].session, tx[t].room)
  <2>2. CASE Rollback(t)
    BY <2>2, RollbackWork
  <2>3. CASE ~Rollback(t)
    <3>1. /\ tx[t].op = "SelectRoom" /\ tx[t].pc = "insert"
          /\ resv[r] = NoRow /\ draft[r] = NoDraft
          /\ Write(t, r, hold) /\ Goto(t, "commit") /\ UNCHANGED <<sess, resv, sdraft>>
      BY <2>1, <2>3 DEF SelectInsert, At
    <3>2. CanLock(t, r) /\ tx[t].pc \notin AfterConfirm
      BY <3>1 DEF CanLock, NoDraft, AfterConfirm
    <3>3. Fits(t, r, hold, "commit")
      BY <3>1 DEF Fits, NewHold, NoRow
    <3>4. HandlerInv(t)'
      <4>1. /\ tx'[t].op = "SelectRoom" /\ tx'[t].pc = "commit"
            /\ tx'[t].session = tx[t].session /\ tx'[t].room = tx[t].room
        BY <1>h, <3>1 DEF Goto, TypeOK, HandlersOK, Tx
      <4>2. resv'[r] = NoRow /\ draft'[r] = [by |-> t, row |-> hold]
        BY <3>1 DEF Write, TypeOK, RowsOK
      <4> QED BY <4>1, <4>2 DEF HandlerInv, SelectingOK
    <3> HIDE DEF hold
    <3> QED BY <3>1, <3>2, <3>3, <3>4, WrittenWork
  <2> QED BY <2>2, <2>3
<1> QED BY <1>1, <1>2, <1>3, <1>4 DEF SelectRoom

LEMMA WorkExpireSession ==
  ASSUME TypeOK, WorkInv, NEW t \in Txs, ExpireSession(t)
  PROVE  WorkInv'
<1> USE NoneAssumption
<1>h. tx[t] \in Tx /\ HandlerOK(tx[t])
  BY DEF TypeOK, HandlersOK
<1>1. CASE \E s \in Sessions : ExpireRead(t, s)
  <2>1. /\ UNCHANGED Data /\ \A u \in Txs \ {t} : tx'[u] = tx[u]
        /\ tx'[t].op = "ExpireSession" /\ tx'[t].pc = "mark" /\ tx[t].pc \in BeforeWriting
    BY <1>1 DEF ExpireRead, Data, TypeOK, HandlersOK, Idle, BeforeWriting
  <2>2. HandlerInv(t)'
    BY <2>1 DEF HandlerInv, ExpiringOK, BeforeWriting
  <2> QED BY <2>1, <2>2, MovedWork
<1>2. CASE ExpireMark(t)
  <2>1. /\ tx[t].op = "ExpireSession" /\ tx[t].pc \in BeforeWriting
        /\ tx[t].session \in Sessions /\ CanSLock(t, tx[t].session)
        /\ UNCHANGED <<sess, resv, draft>>
    BY <1>2, <1>h DEF ExpireMark, At, BeforeWriting, HandlerOK, Ops
  <2>2. \A u \in Txs \ {t} : tx'[u] = tx[u]
    BY <1>2 DEF ExpireMark, Goto, TypeOK, HandlersOK
  <2>3. CASE sdraft' = sdraft /\ tx' = [tx EXCEPT ![t] = Idle]
    <3>1. HandlerInv(t)'
      BY <2>3 DEF HandlerInv, Idle, Ops, TypeOK, HandlersOK
    <3> QED BY <2>1, <2>2, <2>3, <3>1, MovedWork DEF Data
  <2>4. CASE SWrite(t, tx[t].session, "EXPIRED") /\ Goto(t, "scan")
    <3>1. /\ tx'[t].op = "ExpireSession" /\ tx'[t].session = tx[t].session
      BY <1>h, <2>1, <2>4 DEF Goto, TypeOK, HandlersOK, Tx
    <3>2. \A s \in Sessions :
            sdraft'[s] = IF s = tx[t].session THEN [by |-> t, status |-> "EXPIRED"]
                                              ELSE sdraft[s]
      BY <2>1, <2>4 DEF SWrite, TypeOK, RowsOK
    <3>3. HandlerInv(t)'
      BY <2>1, <3>1, <3>2 DEF HandlerInv, ExpiringOK
    <3>4. StepOf(t)
      BY <2>1, <2>2, <3>2 DEF StepOf
    <3>5. ASSUME NEW r \in Reservations PROVE draft'[r].by # t
      BY <2>1, NothingWritten
    <3> QED BY <3>3, <3>4, <3>5, OwnWork
  <2> QED BY <1>2, <2>3, <2>4 DEF ExpireMark
<1>3. CASE ExpireScan(t) \/ ExpirePublish(t)
  <2>1. /\ UNCHANGED Data /\ \A u \in Txs \ {t} : tx'[u] = tx[u]
        /\ tx[t].op = "ExpireSession" /\ tx[t].pc \in {"scan", "publish"}
    BY <1>3 DEF ExpireScan, ExpirePublish, At, Goto, Data, TypeOK, HandlersOK
  <2>2. /\ tx'[t].op = tx[t].op /\ tx'[t].session = tx[t].session /\ tx'[t].res = tx[t].res
        /\ tx[t].pc = "publish" => tx'[t].pc = "commit"
    <3>1. CASE ExpireScan(t)
      BY <1>h, <3>1 DEF ExpireScan, At, TypeOK, HandlersOK, Tx
    <3>2. CASE ExpirePublish(t)
      BY <1>h, <3>2 DEF ExpirePublish, At, Goto, TypeOK, HandlersOK, Tx
    <3> QED BY <1>3, <3>1, <3>2
  <2>3. HandlerInv(t)'
    <3>1. tx[t].pc \notin BeforeWriting
      BY <2>1 DEF BeforeWriting
    <3>2. sdraft[tx[t].session] = [by |-> t, status |-> "EXPIRED"]
      BY <2>1, <3>1 DEF WorkInv, HandlerInv, ExpiringOK
    <3> QED BY <2>1, <2>2, <3>2 DEF HandlerInv, ExpiringOK, Data
  <2>4. tx[t].pc \in AfterConfirm => tx'[t].pc \in AfterConfirm
    BY <2>1, <2>2 DEF AfterConfirm
  <2> QED BY <2>1, <2>2, <2>3, <2>4, MovedWork
<1>4. CASE ExpireRelease(t)
  <2>1. /\ tx[t].op = "ExpireSession" /\ tx[t].pc = "release"
        /\ \A r \in tx[t].scan : CanLock(t, r)
        /\ Goto(t, "publish") /\ UNCHANGED <<sess, resv, sdraft>>
    BY <1>4 DEF ExpireRelease, At
  <2>2. /\ \A u \in Txs \ {t} : tx'[u] = tx[u]
        /\ tx'[t].op = "ExpireSession" /\ tx'[t].session = tx[t].session
        /\ tx'[t].res = tx[t].res
    BY <1>h, <2>1 DEF Goto, TypeOK, HandlersOK, Tx
  <2>3. ASSUME NEW r \in Reservations, draft'[r] # draft[r]
        PROVE  /\ CanLock(t, r) /\ draft'[r].by = t
               /\ draft'[r].row = [View(t, r) EXCEPT !.status = "EXPIRED"]
               /\ View(t, r).session = tx[t].session /\ View(t, r).status = "HOLD"
    BY <1>4, <2>1, <2>3 DEF ExpireRelease, ActiveHolds
  <2>4. StepOf(t)
    BY <2>1, <2>2, <2>3 DEF StepOf
  <2>5. HandlerInv(t)'
    <3>1. sdraft[tx[t].session] = [by |-> t, status |-> "EXPIRED"]
      BY <2>1 DEF WorkInv, HandlerInv, ExpiringOK, BeforeWriting
    <3> QED BY <2>1, <2>2, <3>1 DEF HandlerInv, ExpiringOK
  <2>6. ASSUME NEW r \in Reservations, draft'[r].by = t
        PROVE  VersionInv(r)'
    <3>1. CASE draft'[r] = draft[r]
      <4>1. VersionInv(r)
        BY DEF WorkInv
      <4> QED BY <2>1, <2>2, <2>6, <3>1, <4>1 DEF VersionInv
    <3>2. CASE draft'[r] # draft[r]
      <4> DEFINE old == View(t, r)
      <4>1. /\ draft'[r].row = [old EXCEPT !.status = "EXPIRED"]
            /\ old.session = tx[t].session /\ old.status = "HOLD"
        BY <2>3, <3>2
      <4>2. old \in Row \ {NoRow}
        BY <4>1, ViewIsRow, NoRowFacts DEF TypeOK
      <4>3. old.intent = resv[r].intent /\ (resv[r] # NoRow => old.session = resv[r].session)
        <5>1. CASE draft[r].by = t
          <6>1. old = draft[r].row /\ VersionInv(r) /\ t # NONE
            BY <5>1 DEF View, WorkInv
          <6> QED BY <5>1, <6>1 DEF VersionInv
        <5>2. CASE draft[r].by # t
          BY <5>2 DEF View
        <5> QED BY <5>1, <5>2
      <4> HIDE DEF old
      <4>4. /\ draft'[r].row.session = old.session /\ draft'[r].row.intent = old.intent
            /\ draft'[r].row.status = "EXPIRED"
        BY <4>1, <4>2 DEF Row
      <4> QED BY <2>1, <2>2, <2>6, <4>1, <4>3, <4>4 DEF VersionInv
    <3> QED BY <3>1, <3>2
  <2> QED BY <2>4, <2>5, <2>6, OwnWork
<1> QED BY <1>1, <1>2, <1>3, <1>4 DEF ExpireSession

LEMMA WorkConfirmPayment ==
  ASSUME TypeOK, WorkInv, NEW t \in Txs, ConfirmPayment(t)
  PROVE  WorkInv'
<1> USE NoneAssumption
<1>h. tx[t] \in Tx /\ HandlerOK(tx[t])
  BY DEF TypeOK, HandlersOK
<1>r. ASSUME tx[t].op = "ConfirmPayment"
      PROVE  /\ tx[t].res \in Reservations /\ resv[tx[t].res] # NoRow
             /\ tx[t].session \in Sessions /\ tx[t].intent \in Intents
             /\ ConfirmingOK(t)
  BY <1>h, <1>r DEF HandlerOK, Ops, WorkInv, HandlerInv
<1>1. CASE \E i \in Intents : ConfirmFind(t, i)
  <2>1. PICK i \in Intents : ConfirmFind(t, i)
    BY <1>1
  <2>2. UNCHANGED Data /\ tx[t] = Idle /\ tx[t].pc \in BeforeWriting
    <3>1. UNCHANGED Data /\ tx[t] = Idle
      BY <2>1 DEF ConfirmFind, Data
    <3> QED BY <3>1, IdleIsHandler
  <2>3. CASE UNCHANGED tx
    <3>1. HandlerInv(t)'
      BY <2>2, <2>3 DEF HandlerInv, Idle, Ops
    <3> QED BY <2>2, <2>3, <3>1, MovedWork
  <2>4. ASSUME NEW r \in Found(i),
               tx' = [tx EXCEPT ![t] =
                        [Idle EXCEPT !.op = "ConfirmPayment", !.pc = "session",
                                     !.session = resv[r].session, !.res = r, !.intent = i]]
        PROVE  WorkInv'
    <3>1. /\ tx'[t].op = "ConfirmPayment" /\ tx'[t].pc = "session"
          /\ tx'[t].session = resv[r].session /\ tx'[t].res = r /\ tx'[t].intent = i
      BY <2>4 DEF Idle, TypeOK, HandlersOK
    <3>2. resv[r].intent = i /\ resv' = resv
      BY <2>2 DEF Found, Data
    <3>3. HandlerInv(t)'
      BY <3>1, <3>2 DEF HandlerInv, ConfirmingOK, AfterConfirm
    <3>4. \A u \in Txs \ {t} : tx'[u] = tx[u]
      BY <2>4 DEF TypeOK, HandlersOK
    <3> QED BY <2>2, <3>3, <3>4, MovedWork
  <2> QED BY <2>1, <2>3, <2>4 DEF ConfirmFind
<1>2. CASE ConfirmReadSession(t)
  <2>1. /\ UNCHANGED Data /\ tx[t].op = "ConfirmPayment" /\ tx[t].pc \in BeforeWriting
    BY <1>2 DEF ConfirmReadSession, At, Data, BeforeWriting
  <2>2. \A u \in Txs \ {t} : tx'[u] = tx[u]
    BY <1>2 DEF ConfirmReadSession, Goto, TypeOK, HandlersOK
  <2>3. HandlerInv(t)'
    <3>1. CASE tx' = [tx EXCEPT ![t] = Idle]
      BY <3>1 DEF HandlerInv, Idle, Ops, TypeOK, HandlersOK
    <3>2. CASE Goto(t, "assign")
      <4>1. /\ tx'[t].op = "ConfirmPayment" /\ tx'[t].pc = "assign"
            /\ tx'[t].session = tx[t].session /\ tx'[t].res = tx[t].res
            /\ tx'[t].intent = tx[t].intent
        BY <1>h, <2>1, <3>2 DEF Goto, TypeOK, HandlersOK, Tx
      <4> QED BY <1>r, <2>1, <4>1 DEF HandlerInv, ConfirmingOK, AfterConfirm, Data
    <3> QED BY <1>2, <3>1, <3>2 DEF ConfirmReadSession
  <2> QED BY <2>1, <2>2, <2>3, MovedWork
<1>3. CASE \E ref \in Refs : ConfirmAssign(t, ref)
  <2>1. PICK ref \in Refs : ConfirmAssign(t, ref)
    BY <1>3
  <2> DEFINE r == tx[t].res
             old == View(t, r)
             row == [old EXCEPT !.ref = ref]
  <2>2. CASE Rollback(t)
    BY <2>2, RollbackWork
  <2>3. CASE ~Rollback(t)
    <3>1. /\ tx[t].op = "ConfirmPayment" /\ tx[t].pc = "assign" /\ CanLock(t, r)
          /\ Write(t, r, row) /\ Goto(t, "confirm") /\ UNCHANGED <<sess, resv, sdraft>>
      BY <2>1, <2>3 DEF ConfirmAssign, At
    <3>2. /\ r \in Reservations /\ resv[r] # NoRow
          /\ resv[r].session = tx[t].session /\ resv[r].intent = tx[t].intent
      BY <1>r, <3>1 DEF ConfirmingOK
    <3>3. tx[t].pc \notin AfterConfirm
      BY <3>1 DEF AfterConfirm
    <3>4. /\ old \in Row \ {NoRow} /\ old.session = resv[r].session
          /\ old.intent = resv[r].intent /\ old.deleted = resv[r].deleted
          /\ old.status = "CONFIRMED" => resv[r].status = "CONFIRMED"
      BY <3>1, <3>2, <3>3, SeenFacts
    <3>5. /\ row.session = old.session /\ row.intent = old.intent
          /\ row.status = old.status /\ row.deleted = old.deleted /\ row.ref = ref
      BY <3>4 DEF Row
    <3> HIDE DEF row, old
    <3>6. Fits(t, r, row, "confirm")
      BY <3>1, <3>2, <3>4, <3>5 DEF Fits
    <3>7. HandlerInv(t)'
      <4>1. /\ tx'[t].op = "ConfirmPayment" /\ tx'[t].pc = "confirm"
            /\ tx'[t].session = tx[t].session /\ tx'[t].res = r
            /\ tx'[t].intent = tx[t].intent
        BY <1>h, <3>1 DEF Goto, TypeOK, HandlersOK, Tx
      <4>2. draft'[r] = [by |-> t, row |-> row] /\ resv' = resv
        BY <3>1, <3>2 DEF Write, TypeOK, RowsOK
      <4> HIDE DEF r
      <4> QED BY <3>2, <3>5, <4>1, <4>2 DEF HandlerInv, ConfirmingOK, AfterConfirm
    <3> HIDE DEF r
    <3> QED BY <3>1, <3>2, <3>3, <3>6, <3>7, WrittenWork
  <2> QED BY <2>2, <2>3
<1>4. CASE ConfirmReservation(t)
  <2> DEFINE r == tx[t].res
             old == View(t, r)
             row == Confirmed(t)
  <2>2. CASE Rollback(t)
    BY <2>2, RollbackWork
  <2>3. CASE ~Rollback(t)
    <3>1. /\ tx[t].op = "ConfirmPayment" /\ tx[t].pc = "confirm" /\ CanLock(t, r)
          /\ Write(t, r, row) /\ Goto(t, "complete") /\ UNCHANGED <<sess, resv, sdraft>>
      BY <1>4, <2>3 DEF ConfirmReservation, At
    <3>2. /\ r \in Reservations /\ resv[r] # NoRow
          /\ resv[r].session = tx[t].session /\ resv[r].intent = tx[t].intent
          /\ draft[r].by = t /\ draft[r].row.ref # NONE
      BY <1>r, <3>1 DEF ConfirmingOK
    <3>3. tx[t].pc \notin AfterConfirm
      BY <3>1 DEF AfterConfirm
    <3>4. /\ old \in Row \ {NoRow} /\ old.session = resv[r].session
          /\ old.deleted = resv[r].deleted /\ old.ref # NONE
      BY <3>1, <3>2, <3>3, SeenFacts DEF View
    <3>5. /\ row.session = old.session /\ row.intent = tx[t].intent
          /\ row.status = "CONFIRMED" /\ row.deleted = old.deleted /\ row.ref = old.ref
      BY <3>4 DEF Row, Confirmed
    <3> HIDE DEF row, old
    <3>6. Fits(t, r, row, "complete")
      BY <3>1, <3>2, <3>4, <3>5 DEF Fits, AfterConfirm
    <3>7. HandlerInv(t)'
      <4>1. /\ tx'[t].op = "ConfirmPayment" /\ tx'[t].pc = "complete"
            /\ tx'[t].session = tx[t].session /\ tx'[t].res = r
            /\ tx'[t].intent = tx[t].intent
        BY <1>h, <3>1 DEF Goto, TypeOK, HandlersOK, Tx
      <4>2. draft'[r] = [by |-> t, row |-> row] /\ resv' = resv
        BY <3>1, <3>2 DEF Write, TypeOK, RowsOK
      <4> HIDE DEF r
      <4> QED BY <3>2, <3>4, <3>5, <4>1, <4>2 DEF HandlerInv, ConfirmingOK, AfterConfirm
    <3> HIDE DEF r
    <3> QED BY <3>1, <3>2, <3>3, <3>6, <3>7, WrittenWork
  <2> QED BY <2>2, <2>3
<1>5. CASE ConfirmComplete(t)
  <2>1. /\ tx[t].op = "ConfirmPayment" /\ tx[t].pc = "complete"
        /\ CanSLock(t, tx[t].session) /\ SWrite(t, tx[t].session, "COMPLETED")
        /\ Goto(t, "publish") /\ UNCHANGED <<sess, resv, draft>>
    BY <1>5 DEF ConfirmComplete, At
  <2>2. /\ \A u \in Txs \ {t} : tx'[u] = tx[u]
        /\ tx'[t].op = "ConfirmPayment" /\ tx'[t].pc = "publish"
        /\ tx'[t].session = tx[t].session /\ tx'[t].res = tx[t].res
        /\ tx'[t].intent = tx[t].intent
    BY <1>h, <2>1 DEF Goto, TypeOK, HandlersOK, Tx
  <2>3. \A s \in Sessions :
          sdraft'[s] = IF s = tx[t].session THEN [by |-> t, status |-> "COMPLETED"]
                                            ELSE sdraft[s]
    BY <2>1 DEF SWrite, TypeOK, RowsOK
  <2>4. StepOf(t)
    BY <2>1, <2>2, <2>3 DEF StepOf
  <2>5. HandlerInv(t)'
    BY <1>r, <2>1, <2>2, <2>3 DEF HandlerInv, ConfirmingOK, AfterConfirm
  <2>6. ASSUME NEW r \in Reservations, draft'[r].by = t
        PROVE  VersionInv(r)'
    <3>1. VersionInv(r) /\ draft[r].by = t /\ draft' = draft /\ resv' = resv
      BY <2>1, <2>6 DEF WorkInv
    <3> QED BY <2>1, <2>2, <3>1 DEF VersionInv, AfterConfirm
  <2> QED BY <2>4, <2>5, <2>6, OwnWork
<1>6. CASE ConfirmPublish(t)
  <2>1. /\ tx[t].op = "ConfirmPayment" /\ tx[t].pc = "publish"
        /\ Goto(t, "commit") /\ UNCHANGED Data
    BY <1>6 DEF ConfirmPublish, At, Data
  <2>2. /\ \A u \in Txs \ {t} : tx'[u] = tx[u]
        /\ tx'[t].op = tx[t].op /\ tx'[t].pc = "commit"
        /\ tx'[t].session = tx[t].session /\ tx'[t].res = tx[t].res
        /\ tx'[t].intent = tx[t].intent
    BY <1>h, <2>1 DEF Goto, TypeOK, HandlersOK, Tx
  <2>3. HandlerInv(t)'
    BY <1>r, <2>1, <2>2 DEF HandlerInv, ConfirmingOK, AfterConfirm, Data
  <2>4. tx'[t].pc \in AfterConfirm
    BY <2>2 DEF AfterConfirm
  <2> QED BY <2>1, <2>2, <2>3, <2>4, MovedWork
<1> QED BY <1>1, <1>2, <1>3, <1>4, <1>5, <1>6 DEF ConfirmPayment

-----------------------------------------------------------------------------
(* The ends of transactions, and what is stored outside of them *)

\* What COMMIT makes of rows and sessions: t's version, or what was there.
LEMMA Committed ==
  ASSUME TypeOK, NEW t \in Txs, Commit(t)
  PROVE  /\ \A r \in Reservations :
              /\ draft[r].by = t => resv'[r] = draft[r].row /\ draft'[r] = NoDraft
              /\ draft[r].by # t => resv'[r] = resv[r] /\ draft'[r] = draft[r]
         /\ \A s \in Sessions :
              /\ sdraft[s].by = t => sess'[s] = sdraft[s].status /\ sdraft'[s] = NoSDraft
              /\ sdraft[s].by # t => sess'[s] = sess[s] /\ sdraft'[s] = sdraft[s]
         /\ \A u \in Txs \ {t} : tx'[u] = tx[u]
         /\ tx'[t] = Idle
BY DEF Commit, Close, View, SView, TypeOK, HandlersOK

\* A row keeps its session and its intent when it is committed.
LEMMA CommitKeepsOwner ==
  ASSUME TypeOK, WorkInv, NEW t \in Txs, Commit(t), NEW r \in Reservations
  PROVE  /\ resv'[r].intent = resv[r].intent
         /\ resv[r] # NoRow => resv'[r].session = resv[r].session
<1>1. CASE draft[r].by = t
  <2>1. VersionInv(r) /\ t # NONE /\ resv'[r] = draft[r].row
    BY <1>1, Committed, NoneAssumption DEF WorkInv
  <2> QED BY <1>1, <2>1 DEF VersionInv
<1>2. CASE draft[r].by # t
  BY <1>2, Committed
<1> QED BY <1>1, <1>2

LEMMA WorkCommit ==
  ASSUME TypeOK, WorkInv, NEW t \in Txs, Commit(t)
  PROVE  WorkInv'
<1> USE NoneAssumption
<1>1. ASSUME NEW u \in Txs PROVE HandlerInv(u)'
  <2>1. CASE u = t
    <3>1. tx'[u] = Idle
      BY <2>1, Committed
    <3> QED BY <3>1 DEF HandlerInv, Idle, Ops
  <2>2. CASE u # t
    <3>1. tx'[u] = tx[u] /\ HandlerInv(u) /\ HandlerOK(tx[u])
      BY <2>2, Committed DEF WorkInv, TypeOK, HandlersOK
    <3>2. \A r \in Reservations : draft[r].by = u => draft'[r] = draft[r] /\ resv'[r] = resv[r]
      BY <2>2, Committed
    <3>3. \A s \in Sessions : sdraft[s].by = u => sdraft'[s] = sdraft[s]
      BY <2>2, Committed
    <3>4. tx[u].op = "ConfirmPayment" => ConfirmingOK(u)'
      <4> SUFFICES ASSUME tx[u].op = "ConfirmPayment" PROVE ConfirmingOK(u)'
        OBVIOUS
      <4>1. /\ ConfirmingOK(u) /\ tx[u].res \in Reservations /\ tx[u].session \in Sessions
            /\ resv[tx[u].res] # NoRow
        BY <3>1 DEF HandlerInv, HandlerOK, Ops
      <4>2. /\ resv'[tx[u].res].session = tx[u].session
            /\ resv'[tx[u].res].intent = tx[u].intent
        BY <4>1, CommitKeepsOwner DEF ConfirmingOK
      <4>3. CASE tx[u].pc \in AfterConfirm \cup {"confirm"}
        <5>1. draft'[tx[u].res] = draft[tx[u].res]
          BY <3>2, <4>1, <4>3 DEF ConfirmingOK
        <5>2. tx[u].pc \in AfterConfirm \ {"complete"} =>
                sdraft'[tx[u].session] = sdraft[tx[u].session]
          BY <3>3, <4>1 DEF ConfirmingOK
        <5> QED BY <3>1, <4>1, <4>2, <5>1, <5>2 DEF ConfirmingOK
      <4>4. CASE tx[u].pc \notin AfterConfirm \cup {"confirm"}
        BY <3>1, <4>1, <4>2, <4>4 DEF ConfirmingOK
      <4> QED BY <4>3, <4>4
    <3>5. tx[u].op = "SelectRoom" => SelectingOK(u)'
      <4> SUFFICES ASSUME tx[u].op = "SelectRoom" PROVE SelectingOK(u)'
        OBVIOUS
      <4>1. SelectingOK(u)
        BY <3>1 DEF HandlerInv
      <4>2. tx[u].pc = "drop" => resv'[tx[u].res].session = tx[u].session
        BY <3>1, <4>1, CommitKeepsOwner DEF SelectingOK, HandlerOK
      <4> QED BY <3>1, <3>2, <4>1, <4>2 DEF SelectingOK
    <3>6. tx[u].op = "ExpireSession" => ExpiringOK(u)'
      BY <3>1, <3>3 DEF HandlerInv, ExpiringOK, HandlerOK, Ops
    <3> QED BY <3>1, <3>4, <3>5, <3>6 DEF HandlerInv
  <2> QED BY <2>1, <2>2
<1>2. ASSUME NEW r \in Reservations PROVE VersionInv(r)'
  <2>1. CASE draft[r].by \in {t, NONE}
    <3>1. draft'[r].by = NONE
      BY <2>1, Committed DEF NoDraft
    <3> QED BY <3>1 DEF VersionInv
  <2>2. CASE draft[r].by \notin {t, NONE}
    <3>1. draft'[r] = draft[r] /\ resv'[r] = resv[r] /\ draft[r].by \in Txs \ {t}
      BY <2>2, Committed DEF TypeOK, RowsOK, Opt
    <3>2. tx'[draft[r].by] = tx[draft[r].by] /\ VersionInv(r)
      BY <3>1, Committed DEF WorkInv
    <3> QED BY <3>1, <3>2 DEF VersionInv
  <2> QED BY <2>1, <2>2
<1>3. ASSUME NEW r \in Reservations, resv'[r].status = "CONFIRMED"
      PROVE  resv'[r].ref # NONE
  <2>1. CASE draft[r].by = t
    <3>1. VersionInv(r) /\ t # NONE /\ resv'[r] = draft[r].row
      BY <2>1, Committed DEF WorkInv
    <3> QED BY <1>3, <2>1, <3>1 DEF VersionInv
  <2>2. CASE draft[r].by # t
    BY <1>3, <2>2, Committed DEF WorkInv
  <2> QED BY <2>1, <2>2
<1> QED BY <1>1, <1>2, <1>3 DEF WorkInv

\* The intent stored on a held row, which no version and no confirmation is of.
LEMMA LinkedRow ==
  ASSUME TypeOK, NEW i \in Intents, LinkIntent(i)
  PROVE  \E p \in Reservations :
           /\ resv[p] \in Row \ {NoRow} /\ resv[p].intent = NONE /\ draft[p] = NoDraft
           /\ resv[p].status = "HOLD"
           /\ resv'[p] = [resv[p] EXCEPT !.intent = i]
           /\ \A r \in Reservations \ {p} : resv'[r] = resv[r]
           /\ UNCHANGED <<sess, sdraft, draft, tx, reply>>
<1> DEFINE p == intentOf[i]
<1>1. p \in Reservations /\ resv[p] \in Row \ {NoRow}
  BY NoRowFacts DEF LinkIntent, TypeOK, MessagesOK, RowsOK, Opt
<1>2. /\ resv[p].intent = NONE /\ draft[p] = NoDraft /\ resv[p].status = "HOLD"
      /\ UNCHANGED <<sess, sdraft, draft, tx, reply>>
      /\ resv' = [resv EXCEPT ![p] = [resv[p] EXCEPT !.intent = i]]
  BY DEF LinkIntent
<1>3. /\ resv'[p] = [resv[p] EXCEPT !.intent = i]
      /\ \A r \in Reservations \ {p} : resv'[r] = resv[r]
  <2> DEFINE row == [resv[p] EXCEPT !.intent = i]
  <2> HIDE DEF row, p
  <2>1. resv' = [resv EXCEPT ![p] = row] /\ resv \in [Reservations -> Row]
    BY <1>2 DEF row, TypeOK, RowsOK
  <2>2. resv'[p] = row /\ \A r \in Reservations \ {p} : resv'[r] = resv[r]
    BY <1>1, <2>1
  <2> QED BY <2>2 DEF row
<1> QED BY <1>1, <1>2, <1>3

LEMMA WorkLinkIntent ==
  ASSUME TypeOK, WorkInv, NEW i \in Intents, LinkIntent(i)
  PROVE  WorkInv'
<1> USE NoneAssumption
<1>1. PICK p \in Reservations :
        /\ resv[p] \in Row \ {NoRow} /\ resv[p].intent = NONE /\ draft[p] = NoDraft
        /\ resv[p].status = "HOLD"
        /\ resv'[p] = [resv[p] EXCEPT !.intent = i]
        /\ \A r \in Reservations \ {p} : resv'[r] = resv[r]
        /\ UNCHANGED <<sess, sdraft, draft, tx, reply>>
  BY LinkedRow
<1>2. \A r \in Reservations :
        /\ resv'[r].session = resv[r].session /\ resv'[r].status = resv[r].status
        /\ resv'[r].ref = resv[r].ref /\ resv'[r].deleted = resv[r].deleted
        /\ resv'[r] = NoRow <=> resv[r] = NoRow
  <2>1. /\ resv'[p].session = resv[p].session /\ resv'[p].status = resv[p].status
        /\ resv'[p].ref = resv[p].ref /\ resv'[p].deleted = resv[p].deleted
    BY <1>1 DEF Row
  <2>2. resv'[p] # NoRow
    BY <1>1, <2>1 DEF NoRow
  <2> QED BY <1>1, <2>1, <2>2
<1>3. ASSUME NEW u \in Txs PROVE HandlerInv(u)'
  <2>1. HandlerInv(u) /\ tx' = tx /\ draft' = draft /\ sdraft' = sdraft /\ HandlerOK(tx[u])
    BY <1>1 DEF WorkInv, TypeOK, HandlersOK
  <2>2. tx[u].op = "ConfirmPayment" => ConfirmingOK(u)'
    <3> SUFFICES ASSUME tx[u].op = "ConfirmPayment" PROVE ConfirmingOK(u)'
      OBVIOUS
    <3>1. ConfirmingOK(u) /\ tx[u].res \in Reservations /\ tx[u].intent \in Intents
      BY <2>1 DEF HandlerInv, HandlerOK
    <3>2. tx[u].res # p
      BY <1>1, <3>1 DEF ConfirmingOK
    <3>3. resv'[tx[u].res] = resv[tx[u].res]
      BY <1>1, <3>1, <3>2
    <3> QED BY <2>1, <3>1, <3>3 DEF ConfirmingOK
  <2>3. tx[u].op = "SelectRoom" => SelectingOK(u)'
    BY <1>2, <2>1 DEF HandlerInv, SelectingOK, HandlerOK
  <2>4. tx[u].op = "ExpireSession" => ExpiringOK(u)'
    BY <2>1 DEF HandlerInv, ExpiringOK
  <2> QED BY <2>1, <2>2, <2>3, <2>4 DEF HandlerInv
<1>4. ASSUME NEW r \in Reservations PROVE VersionInv(r)'
  <2>1. VersionInv(r) /\ draft' = draft /\ tx' = tx
    BY <1>1 DEF WorkInv
  <2>2. CASE r = p
    BY <1>1, <2>1, <2>2 DEF VersionInv, NoDraft
  <2>3. CASE r # p
    <3>1. resv'[r] = resv[r]
      BY <1>1, <2>3
    <3> QED BY <2>1, <3>1 DEF VersionInv
  <2> QED BY <2>2, <2>3
<1>5. \A r \in Reservations : resv'[r].status = "CONFIRMED" => resv'[r].ref # NONE
  BY <1>2 DEF WorkInv
<1> QED BY <1>3, <1>4, <1>5 DEF WorkInv

LEMMA WorkInit == Init => WorkInv
BY NoneAssumption DEF Init, WorkInv, HandlerInv, VersionInv, Idle, Ops, NoDraft, NoRow

LEMMA WorkNext == TypeOK /\ WorkInv /\ [Next]_vars => WorkInv'
<1> SUFFICES ASSUME TypeOK, WorkInv, [Next]_vars PROVE WorkInv'
  OBVIOUS
<1>1. CASE UNCHANGED <<sess, resv, sdraft, draft, tx>>
  BY <1>1 DEF WorkInv, HandlerInv, ConfirmingOK, SelectingOK, ExpiringOK, VersionInv
<1>2. ASSUME NEW t \in Txs, Crash(t) \/ DeadlockVictim(t)
      PROVE  WorkInv'
  BY <1>2, RollbackWork DEF Crash, DeadlockVictim
<1> QED BY <1>1, <1>2, WorkGenerateLink, WorkSelectRoom, WorkExpireSession,
           WorkConfirmPayment, WorkCommit, WorkLinkIntent
        DEF Next, vars, Lapse, ExpireSkip, InitiateBookingPayment

\* What the open transactions have written, at every step of every interleaving.
THEOREM WorkHolds == Spec => []WorkInv
BY WorkInit, WorkNext, TypeCorrect, PTL DEF Spec

-----------------------------------------------------------------------------
(* Booking references *)

\* The references of a row, committed or not.
RefsOf(r) == {resv[r].ref, draft[r].row.ref} \ {NONE}

RefsDiffer ==
  \A r, q \in Reservations : r # q => RefsOf(r) \cap RefsOf(q) = {}

LEMMA SameRefs ==
  ASSUME RefsDiffer, \A r \in Reservations : RefsOf(r)' \subseteq RefsOf(r)
  PROVE  RefsDiffer'
BY DEF RefsDiffer

\* A version that keeps the reference t sees brings none in.
LEMMA RewrittenRefs ==
  ASSUME TypeOK, RefsDiffer, NEW t \in Txs, UNCHANGED resv,
         \A r \in Reservations :
           draft'[r].row.ref \in {draft[r].row.ref, View(t, r).ref, NONE}
  PROVE  RefsDiffer'
BY SameRefs DEF View, RefsOf

LEMMA RefsConfirmPayment ==
  ASSUME TypeOK, RefsDiffer, NEW t \in Txs, ConfirmPayment(t), UNCHANGED resv
  PROVE  RefsDiffer'
<1> USE NoneAssumption
<1> PICK p : p = tx[t].res
  OBVIOUS
<1> DEFINE old == View(t, p)
<1>r. ASSUME tx[t].op = "ConfirmPayment"
      PROVE  p \in Reservations /\ old \in Row \ {NoRow}
  BY <1>r, ViewIsRow DEF TypeOK, HandlersOK, HandlerOK
<1>1. CASE \E ref \in Refs : ConfirmAssign(t, ref)
  <2>1. PICK ref \in Refs : ConfirmAssign(t, ref)
    BY <1>1
  <2> DEFINE row == [old EXCEPT !.ref = ref]
  <2>2. CASE Rollback(t)
    BY <2>2, RewrittenRefs DEF Rollback, Close, NoDraft, NoRow
  <2>3. CASE ~Rollback(t)
    <3>1. /\ p \in Reservations /\ old \in Row \ {NoRow}
          /\ RefHolders(t, ref) = {} /\ Write(t, p, row)
      BY <1>r, <2>1, <2>3 DEF ConfirmAssign, At
    <3>2. row.ref = ref
      BY <3>1 DEF Row
    <3> HIDE DEF row, old
    <3>3. \A r \in Reservations :
            draft'[r] = IF r = p THEN [by |-> t, row |-> row] ELSE draft[r]
      BY <3>1 DEF Write, TypeOK, RowsOK
    <3>4. \A r \in Reservations \ {p} : ref \notin RefsOf(r) /\ RefsOf(r)' = RefsOf(r)
      BY <3>1, <3>3 DEF RefHolders, RefsOf
    <3>5. RefsOf(p)' \subseteq RefsOf(p) \cup {ref}
      BY <3>1, <3>2, <3>3 DEF RefsOf
    <3> QED BY <3>4, <3>5 DEF RefsDiffer
  <2> QED BY <2>2, <2>3
<1>2. CASE ConfirmReservation(t)
  <2>1. CASE Rollback(t)
    BY <2>1, RewrittenRefs DEF Rollback, Close, NoDraft, NoRow
  <2>2. CASE ~Rollback(t)
    <3>1. p \in Reservations /\ old \in Row \ {NoRow} /\ Write(t, p, Confirmed(t))
      BY <1>2, <1>r, <2>2 DEF ConfirmReservation, At
    <3>2. Confirmed(t).ref = old.ref
      BY <3>1 DEF Row, Confirmed
    <3>3. \A r \in Reservations :
            draft'[r] = IF r = p THEN [by |-> t, row |-> Confirmed(t)] ELSE draft[r]
      BY <3>1 DEF Write, TypeOK, RowsOK
    <3> QED BY <3>2, <3>3, RewrittenRefs
  <2> QED BY <2>1, <2>2
<1>3. CASE UNCHANGED draft
  BY <1>3, RewrittenRefs
<1> QED BY <1>1, <1>2, <1>3
        DEF ConfirmPayment, ConfirmFind, ConfirmReadSession, ConfirmComplete,
            ConfirmPublish

LEMMA RefsHoldHandlers ==
  ASSUME TypeOK, RefsDiffer, NEW t \in Txs, SelectRoom(t) \/ ExpireSession(t),
         UNCHANGED resv
  PROVE  RefsDiffer'
<1> USE NoneAssumption
<1>1. CASE SelectDrop(t)
  <2> PICK p : p = tx[t].res
    OBVIOUS
  <2> DEFINE row == [View(t, p) EXCEPT !.deleted = TRUE]
  <2>1. p \in Reservations /\ View(t, p) \in Row \ {NoRow}
    BY <1>1, ViewIsRow DEF SelectDrop, At, TypeOK, HandlersOK, HandlerOK
  <2>2. \A r \in Reservations :
          draft'[r] = IF r = p THEN [by |-> t, row |-> row] ELSE draft[r]
    BY <1>1, <2>1 DEF SelectDrop, Write, TypeOK, RowsOK
  <2>3. row.ref = View(t, p).ref
    BY <2>1 DEF Row
  <2> HIDE DEF row
  <2> QED BY <2>2, <2>3, RewrittenRefs
<1>2. CASE \E r \in Reservations : SelectInsert(t, r)
  <2>1. PICK p \in Reservations : SelectInsert(t, p)
    BY <1>2
  <2>2. CASE Rollback(t)
    BY <2>2, RewrittenRefs DEF Rollback, Close, NoDraft, NoRow
  <2>3. CASE ~Rollback(t)
    <3>1. \A r \in Reservations :
            draft'[r] = IF r = p THEN [by |-> t, row |-> NewHold(tx[t].session, tx[t].room)]
                                 ELSE draft[r]
      BY <2>1, <2>3 DEF SelectInsert, Write, TypeOK, RowsOK
    <3> QED BY <3>1, RewrittenRefs DEF NewHold
  <2> QED BY <2>2, <2>3
<1>3. CASE ExpireRelease(t)
  <2>1. ASSUME NEW r \in Reservations
        PROVE  draft'[r].row.ref \in {draft[r].row.ref, View(t, r).ref}
    <3>1. CASE draft'[r] = draft[r]
      BY <3>1
    <3>2. CASE draft'[r] # draft[r]
      <4>1. /\ draft'[r].row = [View(t, r) EXCEPT !.status = "EXPIRED"]
            /\ View(t, r).status = "HOLD"
        BY <1>3, <3>2 DEF ExpireRelease, ActiveHolds
      <4>2. View(t, r) \in Row \ {NoRow}
        BY <4>1, ViewIsRow, NoRowFacts DEF TypeOK
      <4> QED BY <4>1, <4>2 DEF Row
    <3> QED BY <3>1, <3>2
  <2> QED BY <2>1, RewrittenRefs
<1>4. CASE UNCHANGED draft
  BY <1>4, RewrittenRefs
<1> QED BY <1>1, <1>2, <1>3, <1>4
        DEF SelectRoom, SelectRead, SelectFind, ExpireSession, ExpireRead, ExpireMark,
            ExpireScan, ExpirePublish

LEMMA RefsNext == TypeOK /\ RefsDiffer /\ [Next]_vars => RefsDiffer'
<1> SUFFICES ASSUME TypeOK, RefsDiffer, [Next]_vars PROVE RefsDiffer'
  OBVIOUS
<1>1. CASE UNCHANGED <<resv, draft>>
  BY <1>1 DEF RefsDiffer, RefsOf
<1>2. ASSUME NEW t \in Txs, GenerateLink(t)
      PROVE  UNCHANGED <<resv, draft>>
  BY <1>2 DEF GenerateLink, LinkSave, LinkEnqueue, LinkPublish
<1>3. ASSUME NEW t \in Txs, SelectRoom(t) \/ ExpireSession(t) \/ ConfirmPayment(t)
      PROVE  RefsDiffer'
  BY <1>3, HandlersKeepRows, RefsHoldHandlers, RefsConfirmPayment
<1>4. ASSUME NEW t \in Txs, Commit(t)
      PROVE  RefsDiffer'
  <2>1. \A r \in Reservations : RefsOf(r)' \subseteq RefsOf(r)
    BY <1>4, Committed DEF RefsOf, NoDraft, NoRow
  <2> QED BY <2>1, SameRefs
<1>5. ASSUME NEW t \in Txs, Crash(t) \/ DeadlockVictim(t)
      PROVE  RefsDiffer'
  <2>1. \A r \in Reservations : RefsOf(r)' \subseteq RefsOf(r)
    BY <1>5 DEF Crash, DeadlockVictim, Rollback, Close, RefsOf, NoDraft, NoRow
  <2> QED BY <2>1, SameRefs
<1>6. ASSUME NEW i \in Intents, LinkIntent(i)
      PROVE  RefsDiffer'
  <2>1. PICK p \in Reservations :
          /\ resv[p] \in Row \ {NoRow} /\ resv'[p] = [resv[p] EXCEPT !.intent = i]
          /\ \A r \in Reservations \ {p} : resv'[r] = resv[r]
          /\ draft' = draft
    BY <1>6, LinkedRow
  <2>2. resv'[p].ref = resv[p].ref
    BY <2>1 DEF Row
  <2>3. \A r \in Reservations : RefsOf(r)' \subseteq RefsOf(r)
    BY <2>1, <2>2 DEF RefsOf
  <2> QED BY <2>3, SameRefs
<1> QED BY <1>1, <1>2, <1>3, <1>4, <1>5, <1>6
        DEF Next, vars, Lapse, ExpireSkip, InitiateBookingPayment

\* A confirmed reservation has a reference, and no two reservations, committed
\* or about to be, share one: assignToReservation waits for every transaction
\* that may still take the reference, and gives up when one has.
THEOREM ReferencesAreUnique == Spec => []ReferencesUnique
<1>1. Init => RefsDiffer
  BY DEF Init, RefsDiffer, RefsOf, NoDraft, NoRow
<1>2. WorkInv /\ RefsDiffer => ReferencesUnique
  BY DEF WorkInv, RefsDiffer, RefsOf, ReferencesUnique
<1> QED BY <1>1, <1>2, RefsNext, TypeCorrect, WorkHolds, PTL DEF Spec

-----------------------------------------------------------------------------
(* Completed sessions *)

\* Nobody holds a version of a completed session in which it is not.
CompletedIsKept ==
  \A s \in Sessions :
    sess[s] = "COMPLETED" /\ sdraft[s].by # NONE => sdraft[s].status = "COMPLETED"

\* Outside of COMMIT a session is written only by a handler that has its lock
\* and just saw its committed status, or that completes it.
LEMMA SessionsWritten ==
  ASSUME TypeOK, CompletedIsKept, NEW t \in Txs,
         \/ GenerateLink(t) \/ SelectRoom(t) \/ ExpireSession(t)
         \/ ConfirmPayment(t) \/ Rollback(t)
  PROVE  UNCHANGED sess /\ CompletedIsKept'
<1>1. CASE Rollback(t)
  BY <1>1 DEF Rollback, Close, CompletedIsKept, NoSDraft
<1>2. CASE \E s \in Sessions : LinkSave(t, s)
  <2>1. PICK s \in Sessions : LinkSave(t, s)
    BY <1>2
  <2> QED BY <2>1 DEF LinkSave, SWrite, CompletedIsKept, TypeOK, RowsOK
<1>3. CASE ExpireMark(t)
  <2>1. sess' = sess /\ tx[t].session \in Sessions
    BY <1>3, NoneAssumption
       DEF ExpireMark, At, TypeOK, HandlersOK, HandlerOK, Ops
  <2>2. CASE sdraft' = sdraft
    BY <2>1, <2>2 DEF CompletedIsKept
  <2>3. CASE sess[tx[t].session] = "ACTIVE" /\ SWrite(t, tx[t].session, "EXPIRED")
    BY <2>1, <2>3 DEF SWrite, CompletedIsKept, TypeOK, RowsOK
  <2> QED BY <1>3, <2>2, <2>3 DEF ExpireMark
<1>4. CASE ConfirmComplete(t)
  BY <1>4 DEF ConfirmComplete, SWrite, CompletedIsKept, TypeOK, RowsOK
<1>5. CASE UNCHANGED <<sess, sdraft>>
  BY <1>5 DEF CompletedIsKept
<1> QED BY <1>1, <1>2, <1>3, <1>4, <1>5
        DEF GenerateLink, LinkEnqueue, LinkPublish, SelectRoom, SelectRead, SelectFind,
            SelectDrop, SelectInsert, ExpireSession, ExpireRead, ExpireScan,
            ExpireRelease, ExpirePublish, ConfirmPayment, ConfirmFind,
            ConfirmReadSession, ConfirmAssign, ConfirmReservation, ConfirmPublish

\* COMMIT keeps a completed session completed, and completes the session of a
\* reservation that it confirms.
LEMMA CommitCompletes ==
  ASSUME TypeOK, WorkInv, CompletedIsKept, ConfirmedIsCompleted, NEW t \in Txs, Commit(t)
  PROVE  CompletedIsKept' /\ ConfirmedIsCompleted'
<1> USE NoneAssumption
<1>1. CompletedIsKept'
  BY Committed DEF CompletedIsKept, NoSDraft
<1>2. ASSUME NEW s \in Sessions, sess[s] = "COMPLETED"
      PROVE  sess'[s] = "COMPLETED"
  BY <1>2, Committed DEF CompletedIsKept
<1>3. ASSUME NEW r \in Reservations, resv'[r].status = "CONFIRMED"
      PROVE  sess'[resv'[r].session] = "COMPLETED"
  <2>1. CASE resv[r].status = "CONFIRMED"
    <3>1. resv[r] # NoRow /\ resv[r].session \in Sessions
      BY <2>1, NoRowFacts, StatusMeansInserted, RowFacts DEF TypeOK, RowsOK
    <3>2. resv'[r].session = resv[r].session /\ sess[resv[r].session] = "COMPLETED"
      BY <2>1, <3>1, CommitKeepsOwner DEF ConfirmedIsCompleted
    <3> QED BY <1>2, <3>1, <3>2
  <2>2. CASE resv[r].status # "CONFIRMED"
    <3>1. draft[r].by = t /\ resv'[r] = draft[r].row /\ t # NONE /\ VersionInv(r)
      BY <1>3, <2>2, Committed DEF WorkInv
    <3>2. /\ tx[t].op = "ConfirmPayment" /\ tx[t].pc = "commit"
          /\ resv'[r].session = tx[t].session
      BY <1>3, <2>2, <3>1 DEF VersionInv, Commit
    <3>3. tx[t].session \in Sessions
      BY <3>2 DEF TypeOK, HandlersOK, HandlerOK, Ops
    <3>4. sdraft[tx[t].session] = [by |-> t, status |-> "COMPLETED"]
      BY <3>2 DEF WorkInv, HandlerInv, ConfirmingOK, AfterConfirm
    <3> QED BY <3>2, <3>3, <3>4, Committed
  <2> QED BY <2>1, <2>2
<1> QED BY <1>1, <1>3 DEF ConfirmedIsCompleted

LEMMA CompletedNext ==
  TypeOK /\ WorkInv /\ CompletedIsKept /\ ConfirmedIsCompleted /\ [Next]_vars =>
    CompletedIsKept' /\ ConfirmedIsCompleted'
<1> SUFFICES ASSUME TypeOK, WorkInv, CompletedIsKept, ConfirmedIsCompleted, [Next]_vars
             PROVE  CompletedIsKept' /\ ConfirmedIsCompleted'
  OBVIOUS
<1>1. CASE UNCHANGED <<sess, resv, sdraft>>
  BY <1>1 DEF CompletedIsKept, ConfirmedIsCompleted
<1>2. ASSUME NEW t \in Txs, GenerateLink(t) \/ SelectRoom(t) \/ ExpireSession(t)
                            \/ ConfirmPayment(t)
      PROVE  CompletedIsKept' /\ ConfirmedIsCompleted'
  BY <1>2, SessionsWritten, HandlersKeepRows DEF ConfirmedIsCompleted
<1>3. ASSUME NEW t \in Txs, Crash(t) \/ DeadlockVictim(t)
      PROVE  CompletedIsKept' /\ ConfirmedIsCompleted'
  <2>1. Rollback(t)
    BY <1>3 DEF Crash, DeadlockVictim
  <2> QED BY <2>1, SessionsWritten DEF Rollback, ConfirmedIsCompleted
<1>4. ASSUME NEW t \in Txs, Commit(t)
      PROVE  CompletedIsKept' /\ ConfirmedIsCompleted'
  BY <1>4, CommitCompletes
<1>5. ASSUME NEW i \in Intents, LinkIntent(i)
      PROVE  CompletedIsKept' /\ ConfirmedIsCompleted'
  <2>1. PICK p \in Reservations :
          /\ resv[p].status = "HOLD" /\ resv[p] \in Row \ {NoRow}
          /\ resv'[p] = [resv[p] EXCEPT !.intent = i]
          /\ \A r \in Reservations \ {p} : resv'[r] = resv[r]
          /\ UNCHANGED <<sess, sdraft>>
    BY <1>5, LinkedRow
  <2>2. resv'[p].status = "HOLD"
    BY <2>1 DEF Row
  <2> QED BY <2>1, <2>2 DEF CompletedIsKept, ConfirmedIsCompleted
<1> QED BY <1>1, <1>2, <1>3, <1>4, <1>5
        DEF Next, vars, Lapse, ExpireSkip, InitiateBookingPayment

LEMMA CompletedHolds == Spec => [](CompletedIsKept /\ ConfirmedIsCompleted)
<1>1. Init => CompletedIsKept /\ ConfirmedIsCompleted
  BY DEF Init, CompletedIsKept, ConfirmedIsCompleted, NoRow
<1> QED BY <1>1, CompletedNext, TypeCorrect, WorkHolds, PTL DEF Spec

\* A committed confirmation has a completed session, whatever an expiry that ran
\* at the same time had read: each has locked the session before it writes it,
\* and the expiry writes it only if it is ACTIVE then.
THEOREM ConfirmedAreCompleted == Spec => []ConfirmedIsCompleted
BY CompletedHolds, PTL

-----------------------------------------------------------------------------
(* What ConfirmPayment answers *)

\* A confirmed row with an intent is what an "ok" stands for.
Stands(i, r) == resv[r].status = "CONFIRMED" /\ resv[r].intent = i

\* Such a row stays one.
LEMMA StandingStays ==
  ASSUME TypeOK, WorkInv, FinalInv, [Next]_vars,
         NEW i \in Intents, NEW r \in Reservations, Stands(i, r)
  PROVE  Stands(i, r)'
<1>1. resv'[r].status = "CONFIRMED"
  BY FinalNext DEF Stays, Stands
<1>2. CASE UNCHANGED resv
  BY <1>2 DEF Stands
<1>3. ASSUME NEW t \in Txs, Commit(t)
      PROVE  resv'[r].intent = resv[r].intent
  BY <1>3, CommitKeepsOwner
<1>4. ASSUME NEW j \in Intents, LinkIntent(j)
      PROVE  resv'[r] = resv[r]
  <2>1. PICK p \in Reservations :
          /\ resv[p].status = "HOLD" /\ \A q \in Reservations \ {p} : resv'[q] = resv[q]
    BY <1>4, LinkedRow
  <2> QED BY <2>1 DEF Stands
<1> QED BY <1>1, <1>2, <1>3, <1>4, HandlersKeepRows
        DEF Next, vars, Lapse, ExpireSkip, InitiateBookingPayment, Crash,
            DeadlockVictim, Rollback, Stands

\* A new "ok" is a confirmation found, or one that is committed.
LEMMA NewOk ==
  ASSUME TypeOK, WorkInv, FinalInv, [Next]_vars, NEW i \in Intents,
         reply'[i] = "ok", reply[i] # "ok"
  PROVE  \E r \in Reservations : Stands(i, r)'
<1> USE NoneAssumption
<1>m. reply \in [Intents -> {"none", "not_found", "session_expired", "ok"}]
  BY DEF TypeOK, MessagesOK
<1>1. ASSUME NEW t \in Txs, NEW j \in Intents, ConfirmFind(t, j)
      PROVE  \E r \in Reservations : Stands(i, r)'
  <2>1. PICK r \in Found(j) : resv[r].status = "CONFIRMED" /\ reply' = [reply EXCEPT ![j] = "ok"]
    BY <1>m, <1>1 DEF ConfirmFind
  <2>2. i = j /\ r \in Reservations /\ resv[r].intent = j
    BY <1>m, <2>1 DEF Found
  <2>3. Stands(i, r)
    BY <2>1, <2>2 DEF Stands
  <2> QED BY <2>2, <2>3, StandingStays
<1>2. ASSUME NEW t \in Txs, Commit(t)
      PROVE  \E r \in Reservations : Stands(i, r)'
  <2>1. tx[t].op = "ConfirmPayment" /\ tx[t].pc = "commit" /\ i = tx[t].intent
    BY <1>m, <1>2 DEF Commit
  <2> PICK r : r = tx[t].res
    OBVIOUS
  <2>2. r \in Reservations /\ ConfirmingOK(t)
    BY <2>1 DEF TypeOK, HandlersOK, HandlerOK, WorkInv, HandlerInv
  <2>3. /\ draft[r].by = t /\ draft[r].row.status = "CONFIRMED" /\ resv[r].intent = i
    BY <2>1, <2>2 DEF ConfirmingOK, AfterConfirm
  <2>4. resv'[r].status = "CONFIRMED" /\ resv'[r].intent = i
    BY <1>2, <2>2, <2>3, Committed, CommitKeepsOwner
  <2> QED BY <2>2, <2>4 DEF Stands
<1>3. CASE \E t \in Txs : ConfirmReadSession(t)
  BY <1>m, <1>3 DEF ConfirmReadSession
<1>4. CASE UNCHANGED reply
  BY <1>4
<1> QED BY <1>1, <1>2, <1>3, <1>4
        DEF Next, vars, GenerateLink, LinkSave, LinkEnqueue, LinkPublish, SelectRoom,
            SelectRead, SelectFind, SelectDrop, SelectInsert, ExpireSession, ExpireRead,
            ExpireMark, ExpireScan, ExpireRelease, ExpirePublish, ConfirmPayment,
            ConfirmAssign, ConfirmReservation, ConfirmComplete, ConfirmPublish,
            Crash, DeadlockVictim, Lapse, ExpireSkip, InitiateBookingPayment, LinkIntent

\* "ok" for an intent is the truth from then on: its reservation is CONFIRMED,
\* and no other payment's intent replaces it in the row.
THEOREM OkIsConfirmed == Spec => []OkMeansConfirmed
<1>1. Init => OkMeansConfirmed /\ FinalInv
  BY DEF Init, OkMeansConfirmed, FinalInv, NoDraft
<1>2. TypeOK /\ WorkInv /\ FinalInv /\ OkMeansConfirmed /\ [Next]_vars =>
        OkMeansConfirmed' /\ FinalInv'
  <2> SUFFICES ASSUME TypeOK, WorkInv, FinalInv, OkMeansConfirmed, [Next]_vars,
                      NEW i \in Intents, reply'[i] = "ok"
               PROVE  \E r \in Reservations : Stands(i, r)'
    BY FinalNext DEF OkMeansConfirmed, Stands
  <2>1. CASE reply[i] = "ok"
    <3>1. PICK r \in Reservations : Stands(i, r)
      BY <2>1 DEF OkMeansConfirmed, Stands
    <3> QED BY <3>1, StandingStays
  <2> QED BY <2>1, NewOk
<1> QED BY <1>1, <1>2, TypeCorrect, WorkHolds, PTL DEF Spec

-----------------------------------------------------------------------------
(* What becomes of a hold *)

\* The session of row r expires, or has another live reservation.
Replaced(r) ==
  \/ sess'[resv[r].session] = "EXPIRED"
  \/ \E q \in Reservations \ {r} :
       Live(resv'[q]) /\ resv'[q].session = resv[r].session

\* COMMIT gives a live row up only as the end of its session or with the new
\* hold the same transaction inserted.
LEMMA CommitReplaces ==
  ASSUME TypeOK, WorkInv, NEW t \in Txs, Commit(t), NEW r \in Reservations,
         Live(resv[r]), ~Live(resv'[r])
  PROVE  Replaced(r)
<1> USE NoneAssumption
<1>1. draft[r].by = t /\ resv'[r] = draft[r].row
  BY Committed
<1>2. resv[r] # NoRow /\ VersionInv(r) /\ tx[t].pc = "commit" /\ tx[t] \in Tx
      /\ HandlerOK(tx[t]) /\ HandlerInv(t)
  BY NoRowFacts DEF WorkInv, Commit, TypeOK, HandlersOK
<1>3. /\ resv[r].session = tx[t].session
      /\ tx[t].op \in {"SelectRoom", "ExpireSession", "ConfirmPayment"}
      /\ tx[t].op = "ConfirmPayment" => r = tx[t].res /\ draft[r].row.deleted = resv[r].deleted
  BY <1>1, <1>2 DEF VersionInv
<1>4. CASE tx[t].op = "SelectRoom"
  <2>1. PICK q \in Reservations :
          /\ resv[q] = NoRow
          /\ draft[q] = [by |-> t, row |-> NewHold(tx[t].session, tx[t].room)]
    BY <1>2, <1>4 DEF HandlerInv, SelectingOK
  <2>2. resv'[q] = NewHold(tx[t].session, tx[t].room)
    BY <2>1, Committed
  <2>3. Live(resv'[q]) /\ resv'[q].session = resv[r].session
    BY <1>3, <2>2 DEF NewHold, Live
  <2>4. q # r
    BY <1>2, <2>1
  <2> QED BY <2>3, <2>4 DEF Replaced
<1>5. CASE tx[t].op = "ExpireSession"
  <2>1. tx[t].session \in Sessions
    BY <1>2, <1>5 DEF HandlerOK, Ops
  <2>2. sdraft[tx[t].session] = [by |-> t, status |-> "EXPIRED"]
    BY <1>2, <1>5 DEF HandlerInv, ExpiringOK, BeforeWriting
  <2>3. sess'[tx[t].session] = "EXPIRED"
    BY <2>1, <2>2, Committed
  <2> QED BY <1>3, <2>3 DEF Replaced
<1>6. CASE tx[t].op = "ConfirmPayment"
  <2>1. draft[r].row.status = "CONFIRMED" /\ draft[r].row.deleted = resv[r].deleted
    BY <1>2, <1>3, <1>6 DEF HandlerInv, ConfirmingOK, AfterConfirm
  <2>2. Live(resv'[r])
    BY <1>1, <2>1 DEF Live
  <2> QED BY <2>2
<1> QED BY <1>3, <1>4, <1>5, <1>6

\* Storing an intent changes nothing about a hold.
LEMMA LinkKeepsLive ==
  ASSUME TypeOK, NEW i \in Intents, LinkIntent(i), NEW r \in Reservations, Live(resv[r])
  PROVE  Live(resv'[r])
<1>1. PICK p \in Reservations :
        /\ resv[p] \in Row \ {NoRow} /\ resv'[p] = [resv[p] EXCEPT !.intent = i]
        /\ \A q \in Reservations \ {p} : resv'[q] = resv[q]
  BY LinkedRow
<1>2. resv'[p].status = resv[p].status /\ resv'[p].deleted = resv[p].deleted
  BY <1>1 DEF Row
<1> QED BY <1>1, <1>2 DEF Live

\* No step lets go of a live hold unless its session expires with it or gets
\* another reservation with it: the drop and the insert of a change of rooms
\* become visible together or not at all.
THEOREM SwitchesAreAtomic == Spec => SwitchIsAtomic
<1>1. ASSUME TypeOK, WorkInv, [Next]_vars, NEW r \in Reservations,
             Live(resv[r]), ~Live(resv'[r])
      PROVE  Replaced(r)
  <2>1. resv' # resv
    BY <1>1
  <2> QED BY <1>1, <2>1, LinkKeepsLive, CommitReplaces, HandlersKeepRows
          DEF Next, vars, Lapse, ExpireSkip, InitiateBookingPayment, Crash,
              DeadlockVictim, Rollback
<1>2. TypeOK /\ WorkInv /\ [Next]_vars =>
        [\A r \in Reservations :
           Live(resv[r]) /\ ~Live(resv'[r]) =>
             \/ sess'[resv[r].session] = "EXPIRED"
             \/ \E q \in Reservations \ {r} :
                  Live(resv'[q]) /\ resv'[q].session = resv[r].session]_vars
  BY <1>1 DEF Replaced
<1> QED BY <1>2, TypeCorrect, WorkHolds, PTL DEF Spec, SwitchIsAtomic

-----------------------------------------------------------------------------
(* One transaction at a time *)

\* The instances of which BookingLedger speaks: one connection, and finds that
\* do not return what was soft-deleted.
Serial == (\A t, u \in Txs : t = u) /\ FindSeesDeleted = FALSE

\* The active holds of a session, as committed.
Held(s) == {r \in Reservations : /\ resv[r].status = "HOLD"
                                 /\ resv[r].session = s
                                 /\ ~resv[r].deleted}

Unwritten(t) == \A r \in Reservations : draft[r].by # t

\* What t has written is that the holds of its session are dropped, all of them.
Dropped(t, r) ==
  IF draft[r].by = t
    THEN r \in Held(tx[t].session) /\ draft[r].row = [resv[r] EXCEPT !.deleted = TRUE]
    ELSE r \notin Held(tx[t].session)

SerialLink(t) ==
  /\ sess[tx[t].session] = "ABSENT"
  /\ sdraft[tx[t].session] = [by |-> t, status |-> "ACTIVE"]
  /\ Unwritten(t)

SerialSelect(t) ==
  LET h == tx[t]
  IN  /\ sess[h.session] \in {"ACTIVE", "COMPLETED"}
      /\ \A s \in Sessions : sdraft[s].by # t
      /\ h.pc = "drop" => Held(h.session) = {h.res} /\ Unwritten(t)
      /\ h.pc = "insert" => \A r \in Reservations : Dropped(t, r)
      /\ h.pc = "commit" =>
           \E q \in Reservations :
             /\ resv[q] = NoRow
             /\ draft[q] = [by |-> t, row |-> NewHold(h.session, h.room)]
             /\ \A r \in Reservations \ {q} : Dropped(t, r)

SerialExpire(t) ==
  LET h == tx[t]
  IN  /\ sess[h.session] = "ACTIVE"
      /\ h.pc \in {"mark", "scan", "release"} => Unwritten(t)
      /\ h.pc = "release" => h.scan = Held(h.session)
      /\ h.pc \in {"publish", "commit"} =>
           \A r \in Reservations :
             IF r \in Held(h.session)
               THEN draft[r] = [by |-> t, row |-> [resv[r] EXCEPT !.status = "EXPIRED"]]
               ELSE draft[r].by # t

SerialConfirm(t) ==
  LET h == tx[t]
  IN  /\ h.pc = "session" =>
           resv[h.res].status # "CONFIRMED" /\ ~resv[h.res].deleted
      /\ h.pc # "session" =>
           /\ h.res \in Held(h.session) /\ sess[h.session] = "ACTIVE"
           /\ draft[h.res].by = t => draft[h.res].row.room = resv[h.res].room

SerialOK(t) ==
  /\ \A s \in Sessions : sdraft[s].by = t => s = tx[t].session
  /\ tx[t].op = NONE => tx[t] = Idle
  /\ tx[t].op = "GenerateLink" => SerialLink(t)
  /\ tx[t].op = "SelectRoom" => SerialSelect(t)
  /\ tx[t].op = "ExpireSession" => SerialExpire(t)
  /\ tx[t].op = "ConfirmPayment" => SerialConfirm(t)

\* A session holds one room, and a reservation expires with its session.
SerialRows ==
  /\ \A s \in Sessions : \A r, q \in Held(s) : r = q
  /\ \A r \in Reservations :
       resv[r].status = "EXPIRED" => sess[resv[r].session] = "EXPIRED"

SerialInv == SerialRows /\ \A t \in Txs : SerialOK(t)

\* The connection at work holds every lock.
LEMMA OneConnection ==
  ASSUME Serial, TypeOK, NEW t \in Txs
  PROVE  /\ \A u \in Txs : u = t
         /\ \A r \in Reservations : draft[r].by \in {t, NONE}
         /\ \A s \in Sessions : sdraft[s].by \in {t, NONE}
BY DEF Serial, TypeOK, RowsOK, Opt

\* Before its first write it holds none.
LEMMA NothingLocked ==
  ASSUME TypeOK, NEW t \in Txs, tx[t].pc \in BeforeWriting
  PROVE  Unwritten(t) /\ \A s \in Sessions : sdraft[s].by # t
BY NoneAssumption DEF TypeOK, LocksOK, Unwritten, Opt

\* A step that commits nothing keeps SerialInv if t has then written what it says.
LEMMA SerialStep ==
  ASSUME Serial, SerialInv, NEW t \in Txs, UNCHANGED <<sess, resv>>, SerialOK(t)'
  PROVE  SerialInv'
BY DEF Serial, SerialInv, SerialRows, Held

\* At the end of a transaction nothing is written.
LEMMA SerialIdle ==
  ASSUME NEW t \in Txs, tx'[t] = Idle, \A s \in Sessions : sdraft'[s].by # t
  PROVE  SerialOK(t)'
BY NoneAssumption DEF SerialOK, Idle, Ops

LEMMA SerialRollback ==
  ASSUME Serial, TypeOK, SerialInv, NEW t \in Txs, Rollback(t)
  PROVE  SerialInv'
<1>1. tx'[t] = Idle /\ \A s \in Sessions : sdraft'[s].by # t
  BY NoneAssumption DEF Rollback, Close, NoSDraft, TypeOK, HandlersOK
<1> QED BY <1>1, SerialIdle, SerialStep DEF Rollback

LEMMA SerialGenerateLink ==
  ASSUME Serial, TypeOK, WorkInv, SerialInv, NEW t \in Txs, GenerateLink(t)
  PROVE  SerialInv'
<1> USE NoneAssumption
<1>h. tx[t] \in Tx /\ HandlerOK(tx[t]) /\ SerialOK(t)
  BY DEF TypeOK, HandlersOK, SerialInv
<1>1. CASE \E s \in Sessions : LinkSave(t, s)
  <2>1. PICK s \in Sessions : LinkSave(t, s)
    BY <1>1
  <2>2. /\ UNCHANGED <<sess, resv, draft>> /\ sess[s] = "ABSENT" /\ tx[t] = Idle
        /\ SWrite(t, s, "ACTIVE") /\ tx'[t].op = "GenerateLink" /\ tx'[t].session = s
    BY <2>1 DEF LinkSave, TypeOK, HandlersOK, Idle
  <2>3. Unwritten(t) /\ \A u \in Sessions : sdraft[u].by # t
    BY <2>2, IdleIsHandler, NothingLocked
  <2>4. \A u \in Sessions :
          sdraft'[u] = IF u = s THEN [by |-> t, status |-> "ACTIVE"] ELSE sdraft[u]
    BY <2>2 DEF SWrite, TypeOK, RowsOK
  <2>5. SerialOK(t)'
    BY <2>2, <2>3, <2>4 DEF SerialOK, SerialLink, Unwritten, Ops
  <2> QED BY <2>2, <2>5, SerialStep
<1>2. CASE LinkEnqueue(t) \/ LinkPublish(t)
  <2>1. UNCHANGED Data /\ tx[t].op = "GenerateLink" /\ \E pc \in Steps : Goto(t, pc)
    BY <1>2 DEF LinkEnqueue, LinkPublish, At, Data, Steps
  <2>2. tx'[t].op = "GenerateLink" /\ tx'[t].session = tx[t].session
    BY <1>h, <2>1 DEF Goto, TypeOK, HandlersOK, Tx
  <2>3. SerialOK(t)'
    BY <1>h, <2>1, <2>2 DEF SerialOK, SerialLink, Unwritten, Data, Ops
  <2> QED BY <2>1, <2>3, SerialStep DEF Data
<1> QED BY <1>1, <1>2 DEF GenerateLink

\* With nothing written, the holds a handler finds are the committed ones.
LEMMA HoldsFound ==
  ASSUME NEW t \in Txs, Unwritten(t), NEW s
  PROVE  ActiveHolds(t, s) = Held(s)
BY DEF ActiveHolds, Held, Unwritten, View

LEMMA SerialSelectRoom ==
  ASSUME Serial, TypeOK, WorkInv, SerialInv, NEW t \in Txs, SelectRoom(t)
  PROVE  SerialInv'
<1> USE NoneAssumption
<1>h. tx[t] \in Tx /\ HandlerOK(tx[t]) /\ SerialOK(t)
  BY DEF TypeOK, HandlersOK, SerialInv
<1>s. ASSUME tx[t].op = "SelectRoom"
      PROVE  SerialSelect(t) /\ tx[t].session \in Sessions
  BY <1>h, <1>s DEF SerialOK, HandlerOK, Ops
<1>1. CASE \E s \in Sessions, rm \in Rooms : SelectRead(t, s, rm)
  <2>1. PICK s \in Sessions, rm \in Rooms : SelectRead(t, s, rm)
    BY <1>1
  <2>2. /\ UNCHANGED <<sess, resv, sdraft, draft>> /\ tx[t] = Idle
        /\ sess[s] \notin {"ABSENT", "EXPIRED"}
        /\ tx'[t].op = "SelectRoom" /\ tx'[t].session = s /\ tx'[t].pc = "find"
    BY <2>1 DEF SelectRead, IsExpired, TypeOK, HandlersOK, Idle
  <2>3. sess[s] \in {"ACTIVE", "COMPLETED"}
    BY <2>2 DEF TypeOK, RowsOK, SessionStatus
  <2>4. \A u \in Sessions : sdraft[u].by # t
    BY <2>2, IdleIsHandler, NothingLocked
  <2>5. SerialOK(t)'
    BY <2>2, <2>3, <2>4 DEF SerialOK, SerialSelect, Ops
  <2> QED BY <2>2, <2>5, SerialStep
<1>2. CASE SelectFind(t)
  <2>1. /\ UNCHANGED <<sess, resv, sdraft, draft>> /\ tx[t].op = "SelectRoom"
        /\ tx[t].pc \in BeforeWriting
    BY <1>2 DEF SelectFind, At, BeforeWriting
  <2>2. Unwritten(t) /\ \A u \in Sessions : sdraft[u].by # t
    BY <2>1, NothingLocked
  <2> PICK s : s = tx[t].session
    OBVIOUS
  <2>3. s \in Sessions /\ sess[s] \in {"ACTIVE", "COMPLETED"} /\ ActiveHolds(t, s) = Held(s)
    BY <1>s, <2>1, <2>2, HoldsFound DEF SerialSelect
  <2>4. CASE Held(s) = {} /\ Goto(t, "insert")
    <3>1. tx'[t].op = "SelectRoom" /\ tx'[t].session = s /\ tx'[t].pc = "insert"
      BY <1>h, <2>1, <2>4 DEF Goto, TypeOK, HandlersOK, Tx
    <3>2. \A r \in Reservations : Dropped(t, r)'
      BY <2>1, <2>2, <2>4, <3>1 DEF Dropped, Unwritten, Held
    <3>3. SerialOK(t)'
      BY <2>1, <2>2, <2>3, <3>1, <3>2 DEF SerialOK, SerialSelect, Ops
    <3> QED BY <2>1, <3>3, SerialStep
  <2>5. ASSUME NEW r \in Held(s),
               tx' = [tx EXCEPT ![t] = IF resv[r].room = tx[t].room
                                         THEN Idle
                                         ELSE [@ EXCEPT !.pc = "drop", !.res = r]]
        PROVE  SerialInv'
    <3>1. CASE tx'[t] = Idle
      BY <2>1, <2>2, <3>1, SerialIdle, SerialStep
    <3>2. CASE tx'[t] = [tx[t] EXCEPT !.pc = "drop", !.res = r]
      <4>1. /\ tx'[t].op = "SelectRoom" /\ tx'[t].session = s /\ tx'[t].pc = "drop"
            /\ tx'[t].res = r
        BY <1>h, <2>1, <3>2 DEF Tx
      <4>2. Held(s) = {r}
        BY <2>3 DEF SerialInv, SerialRows
      <4>3. Held(s)' = {r}
        BY <2>1, <4>2 DEF Held
      <4>4. SerialOK(t)'
        BY <2>1, <2>2, <2>3, <4>1, <4>3 DEF SerialOK, SerialSelect, Unwritten, Ops
      <4> QED BY <2>1, <4>4, SerialStep
    <3> QED BY <2>5, <3>1, <3>2 DEF TypeOK, HandlersOK
  <2> QED BY <1>2, <2>3, <2>4, <2>5 DEF SelectFind
<1>3. CASE SelectDrop(t)
  <2> PICK p : p = tx[t].res
    OBVIOUS
  <2> PICK s : s = tx[t].session
    OBVIOUS
  <2>1. /\ tx[t].op = "SelectRoom" /\ tx[t].pc = "drop" /\ UNCHANGED <<sess, resv, sdraft>>
        /\ Write(t, p, [View(t, p) EXCEPT !.deleted = TRUE]) /\ Goto(t, "insert")
    BY <1>3 DEF SelectDrop, At
  <2>2. /\ Held(s) = {p} /\ Unwritten(t) /\ sess[s] \in {"ACTIVE", "COMPLETED"}
        /\ \A u \in Sessions : sdraft[u].by # t
    BY <1>s, <2>1 DEF SerialSelect
  <2>3. p \in Reservations /\ View(t, p) = resv[p]
    BY <2>2 DEF Held, Unwritten, View
  <2>r. PICK row : row = [resv[p] EXCEPT !.deleted = TRUE]
    OBVIOUS
  <2>4. \A r \in Reservations :
          draft'[r] = IF r = p THEN [by |-> t, row |-> row] ELSE draft[r]
    BY <2>1, <2>3, <2>r DEF Write, TypeOK, RowsOK
  <2>5. tx'[t].op = "SelectRoom" /\ tx'[t].session = s /\ tx'[t].pc = "insert"
    BY <1>h, <2>1 DEF Goto, TypeOK, HandlersOK, Tx
  <2>6. Held(s)' = {p}
    BY <2>1, <2>2 DEF Held
  <2>7. ASSUME NEW r \in Reservations PROVE Dropped(t, r)'
    <3>1. r \in Held(s)' <=> r = p
      BY <2>6
    <3>2. CASE r = p
      <4>1. draft'[r].by = t /\ draft'[r].row = row
        BY <2>4, <3>2
      <4>3. row = [resv'[r] EXCEPT !.deleted = TRUE]
        BY <2>1, <2>r, <3>2
      <4>2. r \in Held(tx[t].session)'
        BY <2>5, <3>1, <3>2 DEF Held
      <4> QED BY <4>1, <4>2, <4>3 DEF Dropped
    <3>3. CASE r # p
      BY <2>1, <2>2, <2>4, <2>5, <3>1, <3>3 DEF Dropped, Unwritten, Held
    <3> QED BY <3>2, <3>3
  <2>8. SerialOK(t)'
    BY <2>1, <2>2, <2>5, <2>7 DEF SerialOK, SerialSelect, Ops
  <2> QED BY <2>1, <2>8, SerialStep
<1>4. CASE \E r \in Reservations : SelectInsert(t, r)
  <2>1. PICK p \in Reservations : SelectInsert(t, p)
    BY <1>4
  <2>2. CASE Rollback(t)
    BY <2>2, SerialRollback
  <2>3. CASE ~Rollback(t)
    <3> PICK s : s = tx[t].session
      OBVIOUS
    <3> PICK hold : hold = NewHold(tx[t].session, tx[t].room)
      OBVIOUS
    <3>1. /\ tx[t].op = "SelectRoom" /\ tx[t].pc = "insert"
          /\ resv[p] = NoRow /\ Write(t, p, hold) /\ Goto(t, "commit")
          /\ UNCHANGED <<sess, resv, sdraft>>
      BY <2>1, <2>3 DEF SelectInsert, At
    <3>2. /\ sess[s] \in {"ACTIVE", "COMPLETED"} /\ \A u \in Sessions : sdraft[u].by # t
          /\ \A r \in Reservations : Dropped(t, r)
      BY <1>s, <3>1 DEF SerialSelect
    <3>3. /\ tx'[t].op = "SelectRoom" /\ tx'[t].session = s /\ tx'[t].pc = "commit"
          /\ tx'[t].room = tx[t].room
      BY <1>h, <3>1 DEF Goto, TypeOK, HandlersOK, Tx
    <3>4. /\ \A r \in Reservations \ {p} : draft'[r] = draft[r]
          /\ draft'[p] = [by |-> t, row |-> hold] /\ resv'[p] = NoRow
      BY <3>1 DEF Write, TypeOK, RowsOK
    <3>5. ASSUME NEW r \in Reservations \ {p} PROVE Dropped(t, r)'
      BY <3>1, <3>2, <3>3, <3>4 DEF Dropped, Held
    <3>6. SerialSelect(t)'
      BY <3>1, <3>2, <3>3, <3>4, <3>5 DEF SerialSelect
    <3>7. SerialOK(t)'
      BY <3>1, <3>2, <3>3, <3>6 DEF SerialOK, Ops
    <3> QED BY <3>1, <3>7, SerialStep
  <2> QED BY <2>2, <2>3
<1> QED BY <1>1, <1>2, <1>3, <1>4 DEF SelectRoom

LEMMA SerialExpireSession ==
  ASSUME Serial, TypeOK, WorkInv, SerialInv, NEW t \in Txs, ExpireSession(t)
  PROVE  SerialInv'
<1> USE NoneAssumption
<1>h. tx[t] \in Tx /\ HandlerOK(tx[t]) /\ SerialOK(t)
  BY DEF TypeOK, HandlersOK, SerialInv
<1> PICK s : s = tx[t].session
  OBVIOUS
<1>s. ASSUME tx[t].op = "ExpireSession"
      PROVE  /\ SerialExpire(t) /\ s \in Sessions /\ sess[s] = "ACTIVE"
             /\ \A u \in Sessions : sdraft[u].by = t => u = s
  BY <1>h, <1>s DEF SerialOK, SerialExpire, HandlerOK, Ops
<1>1. CASE \E u \in Sessions : ExpireRead(t, u)
  <2>1. PICK u \in Sessions : ExpireRead(t, u)
    BY <1>1
  <2>2. /\ UNCHANGED <<sess, resv, sdraft, draft>> /\ tx[t] = Idle /\ sess[u] = "ACTIVE"
        /\ tx'[t].op = "ExpireSession" /\ tx'[t].session = u /\ tx'[t].pc = "mark"
    BY <2>1 DEF ExpireRead, TypeOK, HandlersOK, Idle
  <2>3. Unwritten(t) /\ \A v \in Sessions : sdraft[v].by # t
    BY <2>2, IdleIsHandler, NothingLocked
  <2>4. SerialOK(t)'
    BY <2>2, <2>3 DEF SerialOK, SerialExpire, Unwritten, Ops
  <2> QED BY <2>2, <2>4, SerialStep
<1>2. CASE ExpireMark(t)
  <2>1. /\ tx[t].op = "ExpireSession" /\ tx[t].pc \in BeforeWriting
        /\ UNCHANGED <<sess, resv, draft>>
    BY <1>2 DEF ExpireMark, At, BeforeWriting
  <2>2. /\ Unwritten(t) /\ \A v \in Sessions : sdraft[v].by # t
        /\ s \in Sessions /\ sess[s] = "ACTIVE"
    BY <1>s, <2>1, NothingLocked
  <2>3. SWrite(t, s, "EXPIRED") /\ Goto(t, "scan")
    BY <1>2, <2>2 DEF ExpireMark
  <2>4. tx'[t].op = "ExpireSession" /\ tx'[t].session = s /\ tx'[t].pc = "scan"
    BY <1>h, <2>1, <2>3 DEF Goto, TypeOK, HandlersOK, Tx
  <2>5. \A u \in Sessions \ {s} : sdraft'[u] = sdraft[u]
    BY <2>2, <2>3 DEF SWrite, TypeOK, RowsOK
  <2>6. SerialOK(t)'
    BY <2>1, <2>2, <2>4, <2>5 DEF SerialOK, SerialExpire, Unwritten, Ops
  <2> QED BY <2>1, <2>6, SerialStep
<1>3. CASE ExpireScan(t)
  <2>1. /\ UNCHANGED <<sess, resv, sdraft, draft>>
        /\ tx[t].op = "ExpireSession" /\ tx[t].pc = "scan"
        /\ tx' = [tx EXCEPT ![t] = [@ EXCEPT !.pc = "release",
                                             !.scan = ActiveHolds(t, tx[t].session)]]
    BY <1>3 DEF ExpireScan, At
  <2>2. Unwritten(t) /\ s \in Sessions /\ sess[s] = "ACTIVE"
        /\ \A u \in Sessions : sdraft[u].by = t => u = s
    BY <1>s, <2>1 DEF SerialExpire
  <2>3. /\ tx'[t].op = "ExpireSession" /\ tx'[t].session = s /\ tx'[t].pc = "release"
        /\ tx'[t].scan = ActiveHolds(t, s)
    BY <1>h, <2>1 DEF TypeOK, HandlersOK, Tx
  <2>4. tx'[t].scan = Held(s)'
    BY <2>1, <2>2, <2>3, HoldsFound DEF Held
  <2>5. SerialOK(t)'
    BY <2>1, <2>2, <2>3, <2>4 DEF SerialOK, SerialExpire, Unwritten, Ops
  <2> QED BY <2>1, <2>5, SerialStep
<1>4. CASE ExpireRelease(t)
  <2>1. /\ UNCHANGED <<sess, resv, sdraft>> /\ Goto(t, "publish")
        /\ tx[t].op = "ExpireSession" /\ tx[t].pc = "release"
    BY <1>4 DEF ExpireRelease, At
  <2>2. /\ Unwritten(t) /\ s \in Sessions /\ sess[s] = "ACTIVE" /\ tx[t].scan = Held(s)
        /\ \A u \in Sessions : sdraft[u].by = t => u = s
    BY <1>s, <2>1 DEF SerialExpire
  <2>3. ActiveHolds(t, s) = Held(s) /\ \A r \in Reservations : View(t, r) = resv[r]
    BY <2>2, HoldsFound DEF Unwritten, View
  <2>4. \A r \in Reservations :
          draft'[r] = IF r \in Held(s)
                        THEN [by |-> t, row |-> [resv[r] EXCEPT !.status = "EXPIRED"]]
                        ELSE draft[r]
    BY <1>4, <2>2, <2>3 DEF ExpireRelease
  <2>5. tx'[t].op = "ExpireSession" /\ tx'[t].session = s /\ tx'[t].pc = "publish"
    BY <1>h, <2>1 DEF Goto, TypeOK, HandlersOK, Tx
  <2>6. SerialExpire(t)'
    BY <2>1, <2>2, <2>4, <2>5 DEF SerialExpire, Unwritten, Held
  <2>7. SerialOK(t)'
    BY <2>1, <2>2, <2>5, <2>6 DEF SerialOK, Ops
  <2> QED BY <2>1, <2>7, SerialStep
<1>5. CASE ExpirePublish(t)
  <2>1. /\ UNCHANGED <<sess, resv, sdraft, draft>> /\ Goto(t, "commit")
        /\ tx[t].op = "ExpireSession" /\ tx[t].pc = "publish"
    BY <1>5 DEF ExpirePublish, At
  <2>2. tx'[t].op = "ExpireSession" /\ tx'[t].session = s /\ tx'[t].pc = "commit"
    BY <1>h, <2>1 DEF Goto, TypeOK, HandlersOK, Tx
  <2>3. SerialExpire(t)'
    BY <1>s, <2>1, <2>2 DEF SerialExpire, Held
  <2>4. SerialOK(t)'
    BY <1>s, <2>1, <2>2, <2>3 DEF SerialOK, Ops
  <2> QED BY <2>1, <2>4, SerialStep
<1> QED BY <1>1, <1>2, <1>3, <1>4, <1>5 DEF ExpireSession

LEMMA SerialConfirmPayment ==
  ASSUME Serial, TypeOK, WorkInv, SerialInv, NEW t \in Txs, ConfirmPayment(t)
  PROVE  SerialInv'
<1> USE NoneAssumption
<1>h. tx[t] \in Tx /\ HandlerOK(tx[t]) /\ SerialOK(t)
  BY DEF TypeOK, HandlersOK, SerialInv
<1> PICK s : s = tx[t].session
  OBVIOUS
<1> PICK p : p = tx[t].res
  OBVIOUS
<1>s. ASSUME tx[t].op = "ConfirmPayment"
      PROVE  /\ SerialConfirm(t) /\ ConfirmingOK(t) /\ s \in Sessions
             /\ p \in Reservations /\ resv[p] \in Row \ {NoRow} /\ resv[p].session = s
             /\ \A u \in Sessions : sdraft[u].by = t => u = s
  BY <1>h, <1>s DEF SerialOK, HandlerOK, Ops, WorkInv, HandlerInv, ConfirmingOK, TypeOK,
                    RowsOK
<1>1. CASE \E i \in Intents : ConfirmFind(t, i)
  <2>1. PICK i \in Intents : ConfirmFind(t, i)
    BY <1>1
  <2>2. UNCHANGED <<sess, resv, sdraft, draft>> /\ tx[t] = Idle
    BY <2>1 DEF ConfirmFind
  <2>3. Unwritten(t) /\ \A v \in Sessions : sdraft[v].by # t
    BY <2>2, IdleIsHandler, NothingLocked
  <2>4. CASE UNCHANGED tx
    BY <2>2, <2>3, <2>4, SerialIdle, SerialStep
  <2>5. ASSUME NEW r \in Found(i), resv[r].status # "CONFIRMED",
               tx' = [tx EXCEPT ![t] =
                        [Idle EXCEPT !.op = "ConfirmPayment", !.pc = "session",
                                     !.session = resv[r].session, !.res = r, !.intent = i]]
        PROVE  SerialInv'
    <3>1. tx'[t].op = "ConfirmPayment" /\ tx'[t].pc = "session" /\ tx'[t].res = r
      BY <2>5 DEF Idle, TypeOK, HandlersOK
    <3>2. ~resv[r].deleted
      BY <2>5 DEF Found, Serial
    <3>3. SerialOK(t)'
      BY <2>2, <2>3, <2>5, <3>1, <3>2 DEF SerialOK, SerialConfirm, Ops
    <3> QED BY <2>2, <3>3, SerialStep
  <2> QED BY <2>1, <2>4, <2>5 DEF ConfirmFind
<1>2. CASE ConfirmReadSession(t)
  <2>1. /\ UNCHANGED <<sess, resv, sdraft, draft>> /\ tx[t].op = "ConfirmPayment"
        /\ tx[t].pc = "session" /\ tx[t].pc \in BeforeWriting
    BY <1>2 DEF ConfirmReadSession, At, BeforeWriting
  <2>2. Unwritten(t) /\ \A u \in Sessions : sdraft[u].by # t
    BY <2>1, NothingLocked
  <2>3. CASE tx' = [tx EXCEPT ![t] = Idle]
    <3>1. tx'[t] = Idle
      BY <2>3 DEF TypeOK, HandlersOK
    <3> QED BY <2>1, <2>2, <3>1, SerialIdle, SerialStep
  <2>4. CASE sess[s] = "ACTIVE" /\ Goto(t, "assign")
    <3>1. /\ tx'[t].op = "ConfirmPayment" /\ tx'[t].pc = "assign"
          /\ tx'[t].session = s /\ tx'[t].res = p
      BY <1>h, <2>1, <2>4 DEF Goto, TypeOK, HandlersOK, Tx
    <3>2. resv[p].status # "CONFIRMED" /\ resv[p].status # "EXPIRED" /\ ~resv[p].deleted
      BY <1>s, <2>1, <2>4 DEF SerialConfirm, SerialInv, SerialRows
    <3>3. resv[p].status = "HOLD"
      BY <1>s, <2>1, <3>2, RowFacts
    <3>4. p \in Held(s)
      BY <1>s, <2>1, <3>2, <3>3 DEF Held
    <3>5. SerialConfirm(t)'
      BY <1>s, <2>1, <2>2, <2>4, <3>1, <3>4 DEF SerialConfirm, Held, Unwritten
    <3>6. SerialOK(t)'
      BY <2>1, <2>2, <3>1, <3>5 DEF SerialOK, Ops
    <3> QED BY <2>1, <3>6, SerialStep
  <2> QED BY <1>2, <2>3, <2>4 DEF ConfirmReadSession
<1>3. ASSUME NEW row, NEW pc \in Steps, pc # "session", Write(t, p, row), Goto(t, pc),
             UNCHANGED <<sess, resv, sdraft>>, row.room = View(t, p).room,
             tx[t].op = "ConfirmPayment", tx[t].pc # "session"
      PROVE  SerialInv'
  <2>1. draft'[p] = [by |-> t, row |-> row]
    BY <1>3, <1>s DEF Write, TypeOK, RowsOK
  <2>2. /\ tx'[t].op = "ConfirmPayment" /\ tx'[t].pc = pc
        /\ tx'[t].session = s /\ tx'[t].res = p
    BY <1>h, <1>3 DEF Goto, TypeOK, HandlersOK, Tx
  <2>3. /\ p \in Held(s) /\ sess[s] = "ACTIVE" /\ View(t, p).room = resv[p].room
    BY <1>3, <1>s DEF SerialConfirm, View
  <2>4. SerialConfirm(t)'
    BY <1>3, <2>1, <2>2, <2>3 DEF SerialConfirm, Held
  <2>5. SerialOK(t)'
    BY <1>3, <1>s, <2>2, <2>4 DEF SerialOK, Ops
  <2> QED BY <1>3, <2>5, SerialStep
<1>4. CASE \E ref \in Refs : ConfirmAssign(t, ref)
  <2>1. PICK ref \in Refs : ConfirmAssign(t, ref)
    BY <1>4
  <2>2. CASE Rollback(t)
    BY <2>2, SerialRollback
  <2>3. CASE ~Rollback(t)
    <3> PICK row : row = [View(t, p) EXCEPT !.ref = ref]
      OBVIOUS
    <3>1. /\ tx[t].op = "ConfirmPayment" /\ tx[t].pc = "assign"
          /\ Write(t, p, row) /\ Goto(t, "confirm") /\ UNCHANGED <<sess, resv, sdraft>>
      BY <2>1, <2>3 DEF ConfirmAssign, At
    <3>2. View(t, p) \in Row \ {NoRow}
      BY <1>s, <3>1, ViewIsRow DEF TypeOK
    <3>3. row.room = View(t, p).room
      BY <3>2 DEF Row
    <3> QED BY <1>3, <3>1, <3>3 DEF Steps
  <2> QED BY <2>2, <2>3
<1>5. CASE ConfirmReservation(t)
  <2>2. CASE Rollback(t)
    BY <2>2, SerialRollback
  <2>3. CASE ~Rollback(t)
    <3>1. /\ tx[t].op = "ConfirmPayment" /\ tx[t].pc = "confirm"
          /\ Write(t, p, Confirmed(t)) /\ Goto(t, "complete")
          /\ UNCHANGED <<sess, resv, sdraft>>
      BY <1>5, <2>3 DEF ConfirmReservation, At
    <3>2. View(t, p) \in Row \ {NoRow}
      BY <1>s, <3>1, ViewIsRow DEF TypeOK
    <3>3. Confirmed(t).room = View(t, p).room
      BY <3>2 DEF Row, Confirmed
    <3> QED BY <1>3, <3>1, <3>3 DEF Steps
  <2> QED BY <2>2, <2>3
<1>6. CASE ConfirmComplete(t) \/ ConfirmPublish(t)
  <2>1. /\ UNCHANGED <<sess, resv, draft>> /\ tx[t].op = "ConfirmPayment"
        /\ tx[t].pc # "session"
        /\ Goto(t, "publish") \/ Goto(t, "commit")
        /\ sdraft' = sdraft \/ SWrite(t, s, "COMPLETED")
    BY <1>6 DEF ConfirmComplete, ConfirmPublish, At
  <2>2. /\ tx'[t].op = "ConfirmPayment" /\ tx'[t].pc # "session"
        /\ tx'[t].session = s /\ tx'[t].res = p
    BY <1>h, <2>1 DEF Goto, TypeOK, HandlersOK, Tx
  <2>3. \A u \in Sessions : sdraft'[u].by = t => u = s
    BY <1>s, <2>1 DEF SWrite, TypeOK, RowsOK
  <2>4. SerialConfirm(t)'
    BY <1>s, <2>1, <2>2 DEF SerialConfirm, Held
  <2>5. SerialOK(t)'
    BY <2>2, <2>3, <2>4 DEF SerialOK, Ops
  <2> QED BY <2>1, <2>5, SerialStep
<1> QED BY <1>1, <1>2, <1>4, <1>5, <1>6 DEF ConfirmPayment

-----------------------------------------------------------------------------
(* What a serial COMMIT does to the committed rows, handler by handler *)

Opened(s) ==
  /\ sess[s] = "ABSENT" /\ sess'[s] = "ACTIVE"
  /\ \A u \in Sessions \ {s} : sess'[u] = sess[u]
  /\ \A r \in Reservations : resv'[r] = resv[r]

Switched(s, rm, q) ==
  /\ sess[s] \in {"ACTIVE", "COMPLETED"}
  /\ \A u \in Sessions : sess'[u] = sess[u]
  /\ resv[q] = NoRow /\ resv'[q] = NewHold(s, rm)
  /\ \A r \in Reservations \ {q} :
       /\ r \in Held(s) => resv'[r] = [resv[r] EXCEPT !.deleted = TRUE]
       /\ r \notin Held(s) => /\ resv'[r] = resv[r]
                              /\ ~Conflict(NewHold(s, rm), resv[r])

Lapsed(s) ==
  /\ sess[s] = "ACTIVE" /\ sess'[s] = "EXPIRED"
  /\ \A u \in Sessions \ {s} : sess'[u] = sess[u]
  /\ \A r \in Reservations :
       /\ r \in Held(s) => resv'[r] = [resv[r] EXCEPT !.status = "EXPIRED"]
       /\ r \notin Held(s) => resv'[r] = resv[r]

Settled(s, p) ==
  /\ p \in Held(s)
  /\ sess[s] = "ACTIVE" /\ sess'[s] = "COMPLETED"
  /\ \A u \in Sessions \ {s} : sess'[u] = sess[u]
  /\ resv'[p].status = "CONFIRMED" /\ ~resv'[p].deleted
  /\ resv'[p].session = s /\ resv'[p].room = resv[p].room
  /\ \A r \in Reservations \ {p} : resv'[r] = resv[r]

\* Every COMMIT is one of the four.
LEMMA SerialCommit ==
  ASSUME Serial, TypeOK, ExclusionInv, WorkInv, SerialInv, NEW t \in Txs, Commit(t)
  PROVE  \E s \in Sessions :
           \/ Opened(s) \/ Lapsed(s)
           \/ \E rm \in Rooms, q \in Reservations : Switched(s, rm, q)
           \/ \E p \in Reservations : Settled(s, p)
<1> USE NoneAssumption
<1>h. /\ tx[t] \in Tx /\ HandlerOK(tx[t]) /\ SerialOK(t) /\ HandlerInv(t)
      /\ tx[t].pc = "commit" /\ t # NONE
  BY DEF TypeOK, HandlersOK, SerialInv, WorkInv, Commit
<1>1. PICK s : s = tx[t].session
  OBVIOUS
<1>2. \A u \in Sessions : sdraft[u].by = t => u = s
  BY <1>h, <1>1 DEF SerialOK
<1>3. \A u \in Sessions \ {s} : sess'[u] = sess[u]
  BY <1>2, Committed
<1>4. \A r \in Reservations : draft[r].by # t => resv'[r] = resv[r]
  BY Committed
<1>5. CASE tx[t].op = "GenerateLink"
  <2>1. s \in Sessions /\ SerialLink(t)
    BY <1>h, <1>1, <1>5 DEF HandlerOK, Ops, SerialOK
  <2>2. sess[s] = "ABSENT" /\ sdraft[s] = [by |-> t, status |-> "ACTIVE"] /\ Unwritten(t)
    BY <1>1, <2>1 DEF SerialLink
  <2>3. sess'[s] = "ACTIVE"
    BY <2>1, <2>2, Committed
  <2>4. \A r \in Reservations : resv'[r] = resv[r]
    BY <1>4, <2>2 DEF Unwritten
  <2> QED BY <1>3, <2>1, <2>2, <2>3, <2>4 DEF Opened
<1>6. CASE tx[t].op = "SelectRoom"
  <2>1. PICK rm : rm = tx[t].room
    OBVIOUS
  <2>2. /\ s \in Sessions /\ rm \in Rooms /\ SerialSelect(t)
        /\ sess[s] \in {"ACTIVE", "COMPLETED"} /\ \A u \in Sessions : sdraft[u].by # t
    BY <1>h, <1>1, <1>6, <2>1 DEF HandlerOK, Ops, SerialOK, SerialSelect
  <2>3. PICK q \in Reservations :
          /\ resv[q] = NoRow
          /\ draft[q] = [by |-> t, row |-> NewHold(s, rm)]
          /\ \A r \in Reservations \ {q} : Dropped(t, r)
    BY <1>h, <1>1, <2>1, <2>2 DEF SerialSelect
  <2>4. \A u \in Sessions : sess'[u] = sess[u]
    BY <2>2, Committed
  <2>5. resv'[q] = NewHold(s, rm)
    BY <2>3, Committed
  <2>6. ASSUME NEW r \in Reservations \ {q}, r \in Held(s)
        PROVE  resv'[r] = [resv[r] EXCEPT !.deleted = TRUE]
    <3>1. draft[r].by = t /\ draft[r].row = [resv[r] EXCEPT !.deleted = TRUE]
      BY <1>1, <2>3, <2>6 DEF Dropped
    <3> QED BY <3>1, Committed, Zenon
  <2>7. ASSUME NEW r \in Reservations \ {q}, r \notin Held(s)
        PROVE  resv'[r] = resv[r] /\ ~Conflict(NewHold(s, rm), resv[r])
    <3>1. draft[r].by # t
      BY <1>1, <2>3, <2>7 DEF Dropped
    <3>2. ~Conflict(draft[q].row, resv[r])
      BY <2>3, <3>1 DEF ExclusionInv
    <3> QED BY <1>4, <2>3, <3>1, <3>2
  <2>8. Switched(s, rm, q)
    BY <2>2, <2>3, <2>4, <2>5, <2>6, <2>7 DEF Switched
  <2> QED BY <2>2, <2>8
<1>7. CASE tx[t].op = "ExpireSession"
  <2>1. /\ s \in Sessions /\ sess[s] = "ACTIVE" /\ SerialExpire(t)
        /\ sdraft[s] = [by |-> t, status |-> "EXPIRED"]
    BY <1>h, <1>1, <1>7
       DEF HandlerOK, Ops, SerialOK, SerialExpire, HandlerInv, ExpiringOK, BeforeWriting
  <2>2. sess'[s] = "EXPIRED"
    BY <2>1, Committed
  <2>3. ASSUME NEW r \in Reservations, r \in Held(s)
        PROVE  resv'[r] = [resv[r] EXCEPT !.status = "EXPIRED"]
    <3>1. PICK row : row = [resv[r] EXCEPT !.status = "EXPIRED"]
      OBVIOUS
    <3>2. draft[r] = [by |-> t, row |-> row]
      BY <1>h, <1>1, <2>1, <2>3, <3>1, Zenon DEF SerialExpire
    <3>3. resv'[r] = row
      BY <3>2, Committed
    <3> QED BY <3>1, <3>3
  <2>4. ASSUME NEW r \in Reservations, r \notin Held(s)
        PROVE  resv'[r] = resv[r]
    <3>1. draft[r].by # t
      BY <1>h, <1>1, <2>1, <2>4 DEF SerialExpire
    <3> QED BY <1>4, <3>1
  <2> QED BY <1>3, <2>1, <2>2, <2>3, <2>4 DEF Lapsed
<1>8. CASE tx[t].op = "ConfirmPayment"
  <2>1. PICK p : p = tx[t].res
    OBVIOUS
  <2>2. /\ s \in Sessions /\ SerialConfirm(t) /\ ConfirmingOK(t) /\ p \in Reservations
    BY <1>h, <1>1, <1>8, <2>1 DEF HandlerOK, Ops, SerialOK, HandlerInv
  <2>3. /\ p \in Held(s) /\ sess[s] = "ACTIVE"
        /\ draft[p].by = t => draft[p].row.room = resv[p].room
    BY <1>h, <1>1, <2>1, <2>2 DEF SerialConfirm
  <2>4. /\ draft[p].by = t /\ draft[p].row.status = "CONFIRMED"
        /\ sdraft[s] = [by |-> t, status |-> "COMPLETED"]
    BY <1>h, <1>1, <2>1, <2>2 DEF ConfirmingOK, AfterConfirm
  <2>5. resv'[p] = draft[p].row /\ sess'[s] = "COMPLETED"
    BY <2>2, <2>4, Committed
  <2>6. VersionInv(p) /\ draft[p].row.session = s /\ draft[p].row.deleted = resv[p].deleted
    BY <1>h, <1>1, <1>8, <2>2, <2>4 DEF WorkInv, VersionInv
  <2>7. ASSUME NEW r \in Reservations \ {p}
        PROVE  resv'[r] = resv[r]
    <3>1. draft[r].by # t
      BY <1>h, <1>8, <2>1 DEF WorkInv, VersionInv
    <3> QED BY <1>4, <3>1
  <2>8. ~resv[p].deleted
    BY <2>3 DEF Held
  <2>9. Settled(s, p)
    BY <1>3, <2>3, <2>4, <2>5, <2>6, <2>7, <2>8 DEF Settled
  <2> QED BY <2>2, <2>9
<1>9. tx[t].op # NONE
  BY <1>h DEF SerialOK, Idle
<1> QED BY <1>h, <1>5, <1>6, <1>7, <1>8, <1>9 DEF Tx, Opt, Ops

\* The updates of a held row, field by field.
LEMMA RowUpdates ==
  ASSUME TypeOK, NEW s \in Sessions, NEW r \in Held(s)
  PROVE  /\ resv[r] \in Row \ {NoRow} /\ resv[r].session = s
         /\ LET row == [resv[r] EXCEPT !.deleted = TRUE]
            IN  row.session = s /\ row.room = resv[r].room /\ row.status = "HOLD"
                /\ row.deleted /\ row # NoRow
         /\ LET row == [resv[r] EXCEPT !.status = "EXPIRED"]
            IN  row.session = s /\ row.room = resv[r].room /\ row.status = "EXPIRED"
                /\ row # NoRow
<1>1. PICK row \in Row : row = resv[r]
  BY DEF TypeOK, RowsOK, Held
<1>2. row # NoRow /\ row.status = "HOLD" /\ row.session = s
  BY <1>1 DEF Held, NoRow
<1>3. row.deleted \in BOOLEAN
  BY <1>2 DEF Row
<1>4. [row EXCEPT !.deleted = TRUE] \in Row \ {NoRow}
  BY <1>2, UpdatesAreRows
<1>5. [row EXCEPT !.status = "EXPIRED"] \in Row \ {NoRow}
  BY <1>2, UpdatesAreRows
<1>6. LET new == [row EXCEPT !.deleted = TRUE]
      IN  new.session = s /\ new.room = row.room /\ new.status = "HOLD" /\ new.deleted
  BY <1>2 DEF Row
<1>7. LET new == [row EXCEPT !.status = "EXPIRED"]
      IN  new.session = s /\ new.room = row.room /\ new.status = "EXPIRED"
  BY <1>2 DEF Row
<1> QED BY <1>1, <1>2, <1>4, <1>5, <1>6, <1>7

LEMMA SwitchedRows ==
  ASSUME TypeOK, SerialRows, NEW s \in Sessions, NEW rm \in Rooms,
         NEW q \in Reservations, Switched(s, rm, q)
  PROVE  SerialRows'
<1>1. /\ \A u \in Sessions : sess'[u] = sess[u]
      /\ resv'[q] = NewHold(s, rm)
  BY DEF Switched
<1>2. ASSUME NEW r \in Reservations \ {q}, r \in Held(s)
      PROVE  resv'[r].deleted /\ resv'[r].status = "HOLD"
  <2>1. resv'[r] = [resv[r] EXCEPT !.deleted = TRUE]
    BY <1>2 DEF Switched
  <2> QED BY <1>2, <2>1, RowUpdates
<1>3. \A r \in Reservations \ {q} : r \notin Held(s) => resv'[r] = resv[r]
  BY DEF Switched
<1>4. ASSUME NEW u \in Sessions, NEW r \in Held(u)'
      PROVE  r \in Reservations /\ IF u = s THEN r = q ELSE r \in Held(u)
  <2>1. r \in Reservations /\ resv'[r].session = u /\ ~resv'[r].deleted
        /\ resv'[r].status = "HOLD"
    BY <1>4 DEF Held
  <2>2. CASE r = q
    BY <1>1, <2>1, <2>2 DEF NewHold
  <2>3. CASE r # q
    <3>1. r \notin Held(s) /\ resv'[r] = resv[r]
      BY <1>2, <1>3, <2>1, <2>3
    <3> QED BY <2>1, <3>1 DEF Held
  <2> QED BY <2>2, <2>3
<1>5. ASSUME NEW u \in Sessions, NEW r \in Held(u)', NEW c \in Held(u)'
      PROVE  r = c
  BY <1>4, <1>5 DEF SerialRows
<1>6. ASSUME NEW r \in Reservations, resv'[r].status = "EXPIRED"
      PROVE  sess'[resv'[r].session] = "EXPIRED"
  <2>1. resv'[r] = resv[r]
    BY <1>1, <1>2, <1>3, <1>6 DEF NewHold
  <2>2. resv[r].session \in Sessions
    BY <1>6, <2>1, RowFacts DEF TypeOK, RowsOK, NoRow
  <2> QED BY <1>1, <1>6, <2>1, <2>2 DEF SerialRows
<1> QED BY <1>5, <1>6 DEF SerialRows

LEMMA LapsedRows ==
  ASSUME TypeOK, SerialRows, NEW s \in Sessions, Lapsed(s)
  PROVE  SerialRows'
<1>1. /\ sess[s] = "ACTIVE" /\ sess'[s] = "EXPIRED"
      /\ \A u \in Sessions \ {s} : sess'[u] = sess[u]
  BY DEF Lapsed
<1>2. ASSUME NEW r \in Held(s)
      PROVE  resv'[r].status = "EXPIRED" /\ resv'[r].session = s
  <2>1. resv'[r] = [resv[r] EXCEPT !.status = "EXPIRED"]
    BY <1>2 DEF Lapsed, Held
  <2> QED BY <1>2, <2>1, RowUpdates
<1>3. \A r \in Reservations : r \notin Held(s) => resv'[r] = resv[r]
  BY DEF Lapsed
<1>4. ASSUME NEW u \in Sessions, NEW r \in Held(u)'
      PROVE  r \in Held(u)
  BY <1>2, <1>3, <1>4 DEF Held
<1>5. ASSUME NEW r \in Reservations, resv'[r].status = "EXPIRED"
      PROVE  sess'[resv'[r].session] = "EXPIRED"
  <2>1. CASE r \in Held(s)
    BY <1>1, <1>2, <2>1
  <2>2. CASE r \notin Held(s)
    <3>1. resv'[r] = resv[r] /\ resv[r].session \in Sessions
      BY <1>3, <1>5, <2>2, RowFacts DEF TypeOK, RowsOK, NoRow
    <3> QED BY <1>1, <1>5, <3>1 DEF SerialRows
  <2> QED BY <2>1, <2>2
<1> QED BY <1>4, <1>5 DEF SerialRows

LEMMA SettledRows ==
  ASSUME TypeOK, SerialRows, NEW s \in Sessions, NEW p \in Reservations, Settled(s, p)
  PROVE  SerialRows'
<1>1. /\ sess[s] = "ACTIVE"
      /\ \A u \in Sessions \ {s} : sess'[u] = sess[u]
      /\ resv'[p].status = "CONFIRMED"
      /\ \A r \in Reservations \ {p} : resv'[r] = resv[r]
  BY DEF Settled
<1>2. ASSUME NEW u \in Sessions, NEW r \in Held(u)'
      PROVE  r \in Held(u)
  BY <1>1, <1>2 DEF Held
<1>3. ASSUME NEW r \in Reservations, resv'[r].status = "EXPIRED"
      PROVE  sess'[resv'[r].session] = "EXPIRED"
  <2>1. resv'[r] = resv[r] /\ resv[r].session \in Sessions
    BY <1>1, <1>3, RowFacts DEF TypeOK, RowsOK, NoRow
  <2> QED BY <1>1, <1>3, <2>1 DEF SerialRows
<1> QED BY <1>2, <1>3 DEF SerialRows

LEMMA OpenedRows ==
  ASSUME TypeOK, SerialRows, NEW s \in Sessions, Opened(s)
  PROVE  SerialRows'
<1>1. /\ sess[s] = "ABSENT"
      /\ \A u \in Sessions \ {s} : sess'[u] = sess[u]
      /\ \A r \in Reservations : resv'[r] = resv[r]
  BY DEF Opened
<1>2. \A u \in Sessions : Held(u)' = Held(u)
  BY <1>1 DEF Held
<1>3. ASSUME NEW r \in Reservations, resv'[r].status = "EXPIRED"
      PROVE  sess'[resv'[r].session] = "EXPIRED"
  <2>1. resv'[r] = resv[r] /\ resv[r].session \in Sessions
    BY <1>1, <1>3, RowFacts DEF TypeOK, RowsOK, NoRow
  <2> QED BY <1>1, <1>3, <2>1 DEF SerialRows
<1> QED BY <1>2, <1>3 DEF SerialRows

LEMMA SerialCommitKeeps ==
  ASSUME Serial, TypeOK, ExclusionInv, WorkInv, SerialInv, NEW t \in Txs, Commit(t)
  PROVE  SerialInv'
<1>1. SerialRows'
  BY SerialCommit, OpenedRows, LapsedRows, SwitchedRows, SettledRows DEF SerialInv
<1>2. tx'[t] = Idle /\ \A s \in Sessions : sdraft'[s].by # t
  BY Committed, NoneAssumption DEF NoSDraft
<1>3. SerialOK(t)'
  BY <1>2, SerialIdle
<1> QED BY <1>1, <1>3 DEF Serial, SerialInv

LEMMA SerialLinkIntent ==
  ASSUME Serial, TypeOK, WorkInv, SerialInv, NEW i \in Intents, LinkIntent(i)
  PROVE  SerialInv'
<1> USE NoneAssumption
<1>1. PICK p \in Reservations :
        /\ resv[p] \in Row \ {NoRow} /\ resv[p].intent = NONE /\ draft[p] = NoDraft
        /\ resv[p].status = "HOLD"
        /\ resv'[p] = [resv[p] EXCEPT !.intent = i]
        /\ \A r \in Reservations \ {p} : resv'[r] = resv[r]
        /\ UNCHANGED <<sess, sdraft, draft, tx, reply>>
  BY LinkedRow
<1>2. /\ resv'[p].session = resv[p].session /\ resv'[p].status = resv[p].status
      /\ resv'[p].room = resv[p].room /\ resv'[p].deleted = resv[p].deleted
  BY <1>1 DEF Row
<1>3. resv'[p] # NoRow
  BY <1>1, <1>2 DEF NoRow
<1>4. \A r \in Reservations :
        /\ resv'[r].session = resv[r].session /\ resv'[r].status = resv[r].status
        /\ resv'[r].room = resv[r].room /\ resv'[r].deleted = resv[r].deleted
        /\ resv'[r] = NoRow <=> resv[r] = NoRow
  BY <1>1, <1>2, <1>3
<1>5. \A s \in Sessions : Held(s)' = Held(s)
  BY <1>4 DEF Held
<1>6. SerialRows'
  BY <1>1, <1>4, <1>5 DEF SerialInv, SerialRows
<1>7. ASSUME NEW t \in Txs PROVE SerialOK(t)'
  <2>1. /\ SerialOK(t) /\ tx[t] \in Tx /\ HandlerOK(tx[t])
        /\ tx' = tx /\ draft' = draft /\ sdraft' = sdraft /\ sess' = sess
    BY <1>1 DEF SerialInv, TypeOK, HandlersOK
  <2>2. tx[t].op = "GenerateLink" => SerialLink(t)'
    BY <2>1 DEF SerialOK, SerialLink, Unwritten
  <2>3. ASSUME tx[t].op # NONE PROVE Held(tx[t].session)' = Held(tx[t].session)
    BY <1>5, <2>1, <2>3 DEF HandlerOK
  <2>4. ASSUME NEW r \in Reservations, Dropped(t, r), tx[t].op # NONE
        PROVE  Dropped(t, r)'
    <3>1. CASE draft[r].by = t
      <4>1. r # p
        BY <1>1, <3>1 DEF NoDraft
      <4>2. resv'[r] = resv[r]
        BY <1>1, <4>1
      <4> QED BY <2>1, <2>3, <2>4, <3>1, <4>2 DEF Dropped
    <3>2. CASE draft[r].by # t
      BY <2>1, <2>3, <2>4, <3>2 DEF Dropped
    <3> QED BY <3>1, <3>2
  <2>5. ASSUME tx[t].op = "SelectRoom" PROVE SerialSelect(t)'
    <3>1. SerialSelect(t) /\ Held(tx[t].session)' = Held(tx[t].session)
      BY <2>1, <2>3, <2>5 DEF SerialOK, Ops
    <3>2. tx[t].pc = "insert" => \A r \in Reservations : Dropped(t, r)'
      BY <2>4, <2>5, <3>1 DEF SerialSelect, Ops
    <3>3. ASSUME tx[t].pc = "commit"
          PROVE  \E q \in Reservations :
                   /\ resv'[q] = NoRow
                   /\ draft[q] = [by |-> t, row |-> NewHold(tx[t].session, tx[t].room)]
                   /\ \A r \in Reservations \ {q} : Dropped(t, r)'
      <4>1. PICK q \in Reservations :
              /\ resv[q] = NoRow
              /\ draft[q] = [by |-> t, row |-> NewHold(tx[t].session, tx[t].room)]
              /\ \A r \in Reservations \ {q} : Dropped(t, r)
        BY <3>1, <3>3 DEF SerialSelect
      <4>2. \A r \in Reservations \ {q} : Dropped(t, r)'
        BY <2>4, <2>5, <4>1 DEF Ops
      <4> QED BY <1>4, <4>1, <4>2
    <3> QED BY <2>1, <3>1, <3>2, <3>3 DEF SerialSelect, Unwritten
  <2>6. ASSUME tx[t].op = "ExpireSession" PROVE SerialExpire(t)'
    <3>1. SerialExpire(t) /\ Held(tx[t].session)' = Held(tx[t].session)
      BY <2>1, <2>3, <2>6 DEF SerialOK, Ops
    <3>2. ASSUME tx[t].pc \in {"publish", "commit"}, NEW r \in Held(tx[t].session)
          PROVE  draft[r] = [by |-> t, row |-> [resv'[r] EXCEPT !.status = "EXPIRED"]]
      <4>1. /\ r \in Reservations
            /\ draft[r] = [by |-> t, row |-> [resv[r] EXCEPT !.status = "EXPIRED"]]
        BY <3>1, <3>2 DEF SerialExpire, Held
      <4>2. r # p
        BY <1>1, <4>1 DEF NoDraft
      <4>3. resv'[r] = resv[r]
        BY <1>1, <4>1, <4>2
      <4> QED BY <4>1, <4>3
    <3>3. \A r \in Reservations :
            tx[t].pc \in {"publish", "commit"} /\ r \notin Held(tx[t].session) =>
              draft[r].by # t
      BY <3>1 DEF SerialExpire
    <3> QED BY <2>1, <3>1, <3>2, <3>3 DEF SerialExpire, Unwritten
  <2>7. ASSUME tx[t].op = "ConfirmPayment" PROVE SerialConfirm(t)'
    <3>1. /\ SerialConfirm(t) /\ Held(tx[t].session)' = Held(tx[t].session)
          /\ tx[t].res \in Reservations
      BY <2>1, <2>3, <2>7 DEF SerialOK, HandlerOK, Ops
    <3> QED BY <1>4, <2>1, <3>1 DEF SerialConfirm
  <2> QED BY <2>1, <2>2, <2>5, <2>6, <2>7 DEF SerialOK
<1> QED BY <1>6, <1>7 DEF SerialInv

LEMMA SerialInit == Init => SerialInv
BY NoneAssumption
   DEF Init, SerialInv, SerialRows, SerialOK, Held, Idle, Ops, NoRow, NoSDraft

LEMMA SerialNext ==
  ASSUME Serial
  PROVE  TypeOK /\ ExclusionInv /\ WorkInv /\ SerialInv /\ [Next]_vars => SerialInv'
<1> SUFFICES ASSUME TypeOK, ExclusionInv, WorkInv, SerialInv, [Next]_vars PROVE SerialInv'
  OBVIOUS
<1>1. CASE UNCHANGED <<sess, resv, sdraft, draft, tx>>
  <2>1. /\ sess' = sess /\ resv' = resv /\ sdraft' = sdraft /\ draft' = draft /\ tx' = tx
        /\ \A s : Held(s)' = Held(s)
    BY <1>1 DEF Held
  <2>2. SerialRows'
    BY <2>1 DEF SerialInv, SerialRows
  <2>3. ASSUME NEW t \in Txs PROVE SerialOK(t)'
    <3>1. SerialLink(t) => SerialLink(t)'
      BY <2>1 DEF SerialLink, Unwritten
    <3>2. SerialSelect(t) => SerialSelect(t)'
      BY <2>1, Zenon DEF SerialSelect, Unwritten, Dropped
    <3>3. SerialExpire(t) => SerialExpire(t)'
      BY <2>1, Zenon DEF SerialExpire, Unwritten
    <3>4. SerialConfirm(t) => SerialConfirm(t)'
      BY <2>1 DEF SerialConfirm
    <3> QED BY <2>1, <3>1, <3>2, <3>3, <3>4 DEF SerialInv, SerialOK
  <2> QED BY <2>2, <2>3 DEF SerialInv
<1>2. ASSUME NEW t \in Txs, Crash(t) \/ DeadlockVictim(t)
      PROVE  SerialInv'
  BY <1>2, SerialRollback DEF Crash, DeadlockVictim
<1> QED BY <1>1, <1>2, SerialGenerateLink, SerialSelectRoom, SerialExpireSession,
           SerialConfirmPayment, SerialCommitKeeps, SerialLinkIntent
        DEF Next, vars, Lapse, ExpireSkip, InitiateBookingPayment

-----------------------------------------------------------------------------
(* Serial transactions as steps of the ledger *)

\* An inserted row is a claim, and so never null.
LEMMA ClaimOfRow ==
  ASSUME NEW row \in Row \ {NoRow}
  PROVE  /\ LedgerClaim(row) =
              [state   |-> IF Live(row)
                             THEN IF row.status = "HOLD" THEN "held" ELSE "settled"
                             ELSE "released",
               session |-> row.session,
               room    |-> row.room]
         /\ LedgerClaim(row) # NONE
<1>1. row.status \in {"HOLD", "CONFIRMED", "EXPIRED"} /\ row.session \in Sessions
      /\ row.room \in Rooms
  BY RowFacts
<1>2. LedgerClaim(row) =
        [state   |-> IF Live(row)
                       THEN IF row.status = "HOLD" THEN "held" ELSE "settled"
                       ELSE "released",
         session |-> row.session,
         room    |-> row.room]
  <2>1. CASE ~Live(row)
    BY <2>1 DEF LedgerClaim
  <2>2. CASE Live(row)
    BY <2>2 DEF LedgerClaim, Live
  <2> QED BY <2>1, <2>2
<1>3. LedgerClaim(row) \in Ledger!Claim
  BY <1>1, <1>2 DEF Ledger!Claim
<1> QED BY <1>2, <1>3, NullAssumption

LEMMA ClaimOfNoRow == LedgerClaim(NoRow) = NONE
BY DEF LedgerClaim

\* The ledger's held claims are the active holds.
LEMMA LedgerHeld ==
  ASSUME TypeOK, NEW s \in Sessions
  PROVE  Ledger!HeldBy(s) = Held(s)
<1>1. ASSUME NEW r \in Reservations
      PROVE  r \in Held(s) <=> /\ LedgerClaim(resv[r]) # NONE
                               /\ LedgerClaim(resv[r]).state = "held"
                               /\ LedgerClaim(resv[r]).session = s
  <2>1. CASE resv[r] = NoRow
    BY <2>1, ClaimOfNoRow DEF Held, NoRow
  <2>2. CASE resv[r] # NoRow
    <3>1. resv[r] \in Row \ {NoRow}
      BY <2>2 DEF TypeOK, RowsOK
    <3> QED BY <3>1, ClaimOfRow DEF Held, Live
  <2> QED BY <2>1, <2>2
<1> QED BY <1>1 DEF Ledger!HeldBy, Held

\* A held row that is live no more is the claim given up.
LEMMA ClaimGivenUp ==
  ASSUME TypeOK, NEW s \in Sessions, NEW r \in Held(s),
         NEW row \in Row \ {NoRow}, ~Live(row),
         row.session = resv[r].session, row.room = resv[r].room
  PROVE  LedgerClaim(row) = [LedgerClaim(resv[r]) EXCEPT !.state = "released"]
<1>1. resv[r] \in Row \ {NoRow}
  BY RowUpdates
<1>2. PICK old : old = resv[r]
  OBVIOUS
<1>3. LedgerClaim(old) = [state |-> LedgerClaim(old).state,
                          session |-> old.session, room |-> old.room]
  BY <1>1, <1>2, ClaimOfRow
<1>4. LedgerClaim(row) = [state |-> "released",
                          session |-> old.session, room |-> old.room]
  BY <1>2, ClaimOfRow
<1> QED BY <1>2, <1>3, <1>4

LEMMA OpenedIsOpen ==
  ASSUME TypeOK, NEW s \in Sessions, Opened(s)
  PROVE  Ledger!Open(s)
<1>1. /\ sess[s] = "ABSENT" /\ sess'[s] = "ACTIVE"
      /\ \A u \in Sessions \ {s} : sess'[u] = sess[u]
      /\ \A r \in Reservations : resv'[r] = resv[r]
  BY DEF Opened
<1>2. /\ LedgerSession(sess[s]) = "unknown" /\ LedgerSession(sess'[s]) = "open"
      /\ \A u \in Sessions \ {s} : LedgerSession(sess'[u]) = LedgerSession(sess[u])
      /\ \A r \in Reservations : LedgerClaim(resv'[r]) = LedgerClaim(resv[r])
  BY <1>1 DEF LedgerSession
<1> QED BY <1>2 DEF Ledger!Open

LEMMA LapsedIsLapse ==
  ASSUME TypeOK, NEW s \in Sessions, Lapsed(s)
  PROVE  Ledger!Lapse(s)
<1>1. /\ sess[s] = "ACTIVE" /\ sess'[s] = "EXPIRED"
      /\ \A u \in Sessions \ {s} : sess'[u] = sess[u]
      /\ \A r \in Reservations : r \notin Held(s) => resv'[r] = resv[r]
  BY DEF Lapsed
<1>2. /\ LedgerSession(sess[s]) = "open" /\ LedgerSession(sess'[s]) = "lapsed"
      /\ \A u \in Sessions \ {s} : LedgerSession(sess'[u]) = LedgerSession(sess[u])
  BY <1>1 DEF LedgerSession
<1>3. ASSUME NEW r \in Held(s)
      PROVE  LedgerClaim(resv'[r]) = [LedgerClaim(resv[r]) EXCEPT !.state = "released"]
  <2>1. resv'[r] = [resv[r] EXCEPT !.status = "EXPIRED"]
    BY <1>3 DEF Lapsed, Held
  <2>2. resv[r] \in Row \ {NoRow} /\ resv[r].session = s
    BY <1>3, RowUpdates
  <2>3. PICK row : row = [resv[r] EXCEPT !.status = "EXPIRED"]
    OBVIOUS
  <2>4. row \in Row \ {NoRow}
    BY <2>2, <2>3, UpdatesAreRows
  <2>5. row.session = resv[r].session /\ row.room = resv[r].room /\ row.status = "EXPIRED"
    BY <1>3, <2>2, <2>3, RowUpdates
  <2>6. LedgerClaim(row) = [LedgerClaim(resv[r]) EXCEPT !.state = "released"]
    BY <1>3, <2>4, <2>5, ClaimGivenUp DEF Live
  <2> QED BY <2>1, <2>3, <2>6, Zenon
<1>4. \A r \in Reservations :
        LedgerClaim(resv'[r]) = IF r \in Held(s)
                                  THEN [LedgerClaim(resv[r]) EXCEPT !.state = "released"]
                                  ELSE LedgerClaim(resv[r])
  BY <1>1, <1>3
<1> QED BY <1>2, <1>4, LedgerHeld DEF Ledger!Lapse, Ledger!Without

LEMMA SwitchedIsHold ==
  ASSUME TypeOK, NEW s \in Sessions, NEW rm \in Rooms, NEW q \in Reservations,
         Switched(s, rm, q)
  PROVE  Ledger!Hold(s, rm, q)
<1>1. /\ sess[s] \in {"ACTIVE", "COMPLETED"}
      /\ \A u \in Sessions : sess'[u] = sess[u]
      /\ resv[q] = NoRow /\ resv'[q] = NewHold(s, rm)
  BY DEF Switched
<1>2. /\ LedgerSession(sess[s]) \in {"open", "paid"}
      /\ \A u \in Sessions : LedgerSession(sess'[u]) = LedgerSession(sess[u])
      /\ LedgerClaim(resv[q]) = NONE
  BY <1>1, ClaimOfNoRow DEF LedgerSession
<1>3. LedgerClaim(resv'[q]) = [state |-> "held", session |-> s, room |-> rm]
  BY <1>1, NewHoldIsRow, ClaimOfRow DEF NewHold, Live
<1>4. ASSUME NEW r \in Reservations \ {q}
      PROVE  LedgerClaim(resv'[r]) = IF r \in Held(s)
                                       THEN [LedgerClaim(resv[r]) EXCEPT !.state = "released"]
                                       ELSE LedgerClaim(resv[r])
  <2>1. CASE r \notin Held(s)
    BY <2>1 DEF Switched
  <2>2. CASE r \in Held(s)
    <3>1. resv'[r] = [resv[r] EXCEPT !.deleted = TRUE]
      BY <2>2 DEF Switched
    <3>2. resv[r] \in Row \ {NoRow} /\ resv[r].session = s
      BY <2>2, RowUpdates
    <3>3. PICK row : row = [resv[r] EXCEPT !.deleted = TRUE]
      OBVIOUS
    <3>4. row \in Row \ {NoRow}
      BY <3>2, <3>3, UpdatesAreRows
    <3>5. row.session = resv[r].session /\ row.room = resv[r].room /\ row.deleted
      BY <2>2, <3>2, <3>3, RowUpdates
    <3>6. LedgerClaim(row) = [LedgerClaim(resv[r]) EXCEPT !.state = "released"]
      BY <2>2, <3>4, <3>5, ClaimGivenUp DEF Live
    <3> QED BY <2>2, <3>1, <3>3, <3>6, Zenon
  <2> QED BY <2>1, <2>2
<1>5. ASSUME NEW d \in Reservations \ Held(s),
             LedgerClaim(resv[d]) # NONE,
             LedgerClaim(resv[d]).state \in {"held", "settled"},
             LedgerClaim(resv[d]).room = rm
      PROVE  ~Overlap(s, LedgerClaim(resv[d]).session)
  <2>1. resv[d] \in Row \ {NoRow}
    BY <1>5, ClaimOfNoRow DEF TypeOK, RowsOK
  <2>2. Live(resv[d]) /\ resv[d].room = rm
        /\ LedgerClaim(resv[d]).session = resv[d].session
    BY <1>5, <2>1, ClaimOfRow
  <2>3. d # q
    BY <1>1, <2>1
  <2>4. ~Conflict(NewHold(s, rm), resv[d])
    BY <1>5, <2>3 DEF Switched
  <2> QED BY <2>2, <2>4 DEF Conflict, NewHold, Live
<1>6. q \notin Held(s)
  BY <1>1 DEF Held, NoRow
<1> QED BY <1>2, <1>3, <1>4, <1>5, <1>6, LedgerHeld
        DEF Ledger!Hold, Ledger!Without, Ledger!Taken

LEMMA SettledIsSettle ==
  ASSUME TypeOK, TypeOK', NEW s \in Sessions, NEW p \in Reservations, Settled(s, p)
  PROVE  Ledger!Settle(p)
<1>1. /\ p \in Held(s) /\ sess[s] = "ACTIVE" /\ sess'[s] = "COMPLETED"
      /\ \A u \in Sessions \ {s} : sess'[u] = sess[u]
      /\ resv'[p].status = "CONFIRMED" /\ ~resv'[p].deleted
      /\ resv'[p].session = s /\ resv'[p].room = resv[p].room
      /\ \A r \in Reservations \ {p} : resv'[r] = resv[r]
  BY DEF Settled
<1>2. /\ LedgerSession(sess[s]) = "open" /\ LedgerSession(sess'[s]) = "paid"
      /\ \A u \in Sessions \ {s} : LedgerSession(sess'[u]) = LedgerSession(sess[u])
  BY <1>1 DEF LedgerSession
<1>3. PICK old, new : old = resv[p] /\ new = resv'[p]
  OBVIOUS
<1>4. LedgerClaim(old) = [state |-> "held", session |-> s, room |-> old.room]
  <2>1. old \in Row \ {NoRow} /\ old.session = s /\ old.status = "HOLD" /\ Live(old)
    BY <1>1, <1>3, RowUpdates DEF Held, Live
  <2> QED BY <2>1, ClaimOfRow
<1>5. LedgerClaim(new) = [state |-> "settled", session |-> s, room |-> old.room]
  <2>1. new \in Row /\ new.status = "CONFIRMED" /\ Live(new)
        /\ new.session = s /\ new.room = old.room
    BY <1>1, <1>3 DEF TypeOK, RowsOK, Live
  <2>2. new # NoRow
    BY <2>1, NoRowFacts
  <2> QED BY <2>1, <2>2, ClaimOfRow
<1>6. /\ LedgerClaim(new) = [LedgerClaim(old) EXCEPT !.state = "settled"]
      /\ \A r \in Reservations \ {p} : LedgerClaim(resv'[r]) = LedgerClaim(resv[r])
  BY <1>1, <1>4, <1>5
<1>7. p \in Ledger!HeldBy(s)
  BY <1>1, LedgerHeld
<1>8. \A r \in Reservations :
        LedgerClaim(resv'[r]) = IF r = p
                                  THEN [LedgerClaim(resv[p]) EXCEPT !.state = "settled"]
                                  ELSE LedgerClaim(resv[r])
  BY <1>3, <1>6
<1> QED BY <1>2, <1>7, <1>8 DEF Ledger!Settle

\* Every step is a step of the ledger or leaves it as it is.
LEMMA SerialStepIsLedgerStep ==
  ASSUME Serial, TypeOK, TypeOK', ExclusionInv, WorkInv, CompletedIsKept, SerialInv,
         [Next]_vars
  PROVE  [Ledger!Next]_(Ledger!ledger)
<1>1. CASE UNCHANGED <<sess, resv>>
  BY <1>1 DEF Ledger!ledger
<1>2. ASSUME NEW t \in Txs, \/ GenerateLink(t) \/ SelectRoom(t) \/ ExpireSession(t)
                            \/ ConfirmPayment(t) \/ Crash(t) \/ DeadlockVictim(t)
      PROVE  UNCHANGED <<sess, resv>>
  BY <1>2, HandlersKeepRows, SessionsWritten DEF Crash, DeadlockVictim, Rollback
<1>3. ASSUME NEW i \in Intents, LinkIntent(i)
      PROVE  UNCHANGED Ledger!ledger
  <2>1. PICK p \in Reservations :
          /\ resv[p] \in Row \ {NoRow} /\ resv'[p] = [resv[p] EXCEPT !.intent = i]
          /\ \A r \in Reservations \ {p} : resv'[r] = resv[r]
          /\ sess' = sess
    BY <1>3, LinkedRow
  <2>2. PICK old, new : old = resv[p] /\ new = [old EXCEPT !.intent = i]
    OBVIOUS
  <2>3. old \in Row \ {NoRow} /\ new \in Row \ {NoRow}
    BY <2>1, <2>2, UpdatesAreRows
  <2>4. new.status = old.status /\ new.session = old.session /\ new.room = old.room
        /\ new.deleted = old.deleted
    BY <2>2, <2>3 DEF Row
  <2>5. LedgerClaim(new) = LedgerClaim(old)
    BY <2>3, <2>4, ClaimOfRow DEF Live
  <2>6. \A r \in Reservations : LedgerClaim(resv'[r]) = LedgerClaim(resv[r])
    BY <2>1, <2>2, <2>5
  <2> QED BY <2>1, <2>6 DEF Ledger!ledger
<1>4. ASSUME NEW t \in Txs, Commit(t)
      PROVE  Ledger!Next
  <2>1. PICK s \in Sessions :
          \/ Opened(s) \/ Lapsed(s)
          \/ \E rm \in Rooms, q \in Reservations : Switched(s, rm, q)
          \/ \E p \in Reservations : Settled(s, p)
    BY <1>4, SerialCommit
  <2>2. \/ Ledger!Open(s) \/ Ledger!Lapse(s)
        \/ \E rm \in Rooms, q \in Reservations : Ledger!Hold(s, rm, q)
        \/ \E p \in Reservations : Ledger!Settle(p)
    BY <2>1, OpenedIsOpen, LapsedIsLapse, SwitchedIsHold, SettledIsSettle
  <2> QED BY <2>2 DEF Ledger!Next
<1> QED BY <1>1, <1>2, <1>3, <1>4
        DEF Next, vars, Lapse, ExpireSkip, InitiateBookingPayment

LEMMA InitIsLedgerInit == Init => Ledger!Init
BY ClaimOfNoRow DEF Init, Ledger!Init, LedgerSession

\* With one connection, and finds that leave out what was soft-deleted, the
\* transactions of GenerateLink, SelectRoom, ExpireSession and ConfirmPayment
\* keep the promises of RoomLedger, through crashes as well: a session holds one
\* room, loses it only with the step that takes another or that expires it, and
\* pays once, while it is open.
THEOREM SerialImplementsLedger ==
  ASSUME Serial
  PROVE  Spec => ImplementsLedger
<1>1. Init => SerialInv /\ Ledger!Init
  BY SerialInit, InitIsLedgerInit
<1>2. TypeOK /\ ExclusionInv /\ WorkInv /\ SerialInv /\ [Next]_vars => SerialInv'
  BY SerialNext
<1>3. TypeOK /\ TypeOK' /\ ExclusionInv /\ WorkInv /\ CompletedIsKept /\ SerialInv
        /\ [Next]_vars => [Ledger!Next]_(Ledger!ledger)
  BY SerialStepIsLedgerStep
<1> QED BY <1>1, <1>2, <1>3, TypeCorrect, ExclusionHolds, WorkHolds, CompletedHolds,
           PTL DEF Spec, ImplementsLedger, Ledger!Spec

-----------------------------------------------------------------------------
(* What only the overlap of transactions breaks *)

\* A confirmed row is never soft-deleted, and an expired session holds nothing.
SerialClaims ==
  /\ \A r \in Reservations : resv[r].status = "CONFIRMED" => ~resv[r].deleted
  /\ \A s \in Sessions : sess[s] = "EXPIRED" => Held(s) = {}

ExpiredStay == \A s \in Sessions : sess[s] = "EXPIRED" => sess'[s] = "EXPIRED"

LEMMA ClaimsCommit ==
  ASSUME TypeOK, SerialClaims, NEW s \in Sessions,
         \/ Opened(s) \/ Lapsed(s)
         \/ \E rm \in Rooms, q \in Reservations : Switched(s, rm, q)
         \/ \E p \in Reservations : Settled(s, p)
  PROVE  SerialClaims' /\ ExpiredStay
<1>1. CASE Opened(s)
  <2>1. /\ sess[s] = "ABSENT" /\ sess'[s] = "ACTIVE"
        /\ \A u \in Sessions \ {s} : sess'[u] = sess[u]
        /\ \A r \in Reservations : resv'[r] = resv[r]
    BY <1>1 DEF Opened
  <2>2. \A u \in Sessions : Held(u)' = Held(u)
    BY <2>1 DEF Held
  <2> QED BY <2>1, <2>2 DEF SerialClaims, ExpiredStay
<1>2. CASE Lapsed(s)
  <2>1. /\ sess[s] = "ACTIVE" /\ sess'[s] = "EXPIRED"
        /\ \A u \in Sessions \ {s} : sess'[u] = sess[u]
        /\ \A r \in Reservations : r \notin Held(s) => resv'[r] = resv[r]
    BY <1>2 DEF Lapsed
  <2>2. ASSUME NEW r \in Held(s)
        PROVE  resv'[r].status = "EXPIRED"
    <3>1. resv'[r] = [resv[r] EXCEPT !.status = "EXPIRED"]
      BY <1>2, <2>2 DEF Lapsed, Held
    <3> QED BY <2>2, <3>1, RowUpdates
  <2>3. ASSUME NEW u \in Sessions
        PROVE  Held(u)' \subseteq Held(u) \ Held(s)
    BY <2>1, <2>2 DEF Held
  <2>4. \A r \in Reservations : resv'[r].status = "CONFIRMED" => ~resv'[r].deleted
    BY <2>1, <2>2 DEF SerialClaims
  <2> QED BY <2>1, <2>3, <2>4 DEF SerialClaims, ExpiredStay
<1>3. ASSUME NEW rm \in Rooms, NEW q \in Reservations, Switched(s, rm, q)
      PROVE  SerialClaims' /\ ExpiredStay
  <2>1. /\ sess[s] # "EXPIRED"
        /\ \A u \in Sessions : sess'[u] = sess[u]
        /\ resv'[q] = NewHold(s, rm)
        /\ \A r \in Reservations \ {q} : r \notin Held(s) => resv'[r] = resv[r]
    BY <1>3 DEF Switched
  <2>2. ASSUME NEW r \in Reservations \ {q}, r \in Held(s)
        PROVE  resv'[r].deleted /\ resv'[r].status = "HOLD"
    <3>1. resv'[r] = [resv[r] EXCEPT !.deleted = TRUE]
      BY <1>3, <2>2 DEF Switched
    <3> QED BY <2>2, <3>1, RowUpdates
  <2>3. ASSUME NEW u \in Sessions \ {s}
        PROVE  Held(u)' \subseteq Held(u)
    BY <2>1, <2>2 DEF Held, NewHold
  <2>4. \A r \in Reservations : resv'[r].status = "CONFIRMED" => ~resv'[r].deleted
    BY <2>1, <2>2 DEF SerialClaims, NewHold
  <2> QED BY <2>1, <2>3, <2>4 DEF SerialClaims, ExpiredStay
<1>4. ASSUME NEW p \in Reservations, Settled(s, p)
      PROVE  SerialClaims' /\ ExpiredStay
  <2>1. /\ sess[s] = "ACTIVE" /\ sess'[s] = "COMPLETED"
        /\ \A u \in Sessions \ {s} : sess'[u] = sess[u]
        /\ resv'[p].status = "CONFIRMED" /\ ~resv'[p].deleted
        /\ \A r \in Reservations \ {p} : resv'[r] = resv[r]
    BY <1>4 DEF Settled
  <2>2. \A u \in Sessions : Held(u)' \subseteq Held(u)
    BY <2>1 DEF Held
  <2> QED BY <2>1, <2>2 DEF SerialClaims, ExpiredStay
<1> QED BY <1>1, <1>2, <1>3, <1>4

LEMMA ClaimsNext ==
  ASSUME Serial, TypeOK, ExclusionInv, WorkInv, CompletedIsKept, SerialInv, SerialClaims,
         [Next]_vars
  PROVE  SerialClaims' /\ ExpiredStay
<1>1. CASE UNCHANGED <<sess, resv>>
  <2>1. \A s \in Sessions : Held(s)' = Held(s)
    BY <1>1 DEF Held
  <2> QED BY <1>1, <2>1 DEF SerialClaims, ExpiredStay
<1>2. ASSUME NEW t \in Txs, \/ GenerateLink(t) \/ SelectRoom(t) \/ ExpireSession(t)
                            \/ ConfirmPayment(t) \/ Crash(t) \/ DeadlockVictim(t)
      PROVE  UNCHANGED <<sess, resv>>
  BY <1>2, HandlersKeepRows, SessionsWritten DEF Crash, DeadlockVictim, Rollback
<1>3. ASSUME NEW i \in Intents, LinkIntent(i)
      PROVE  SerialClaims' /\ ExpiredStay
  <2>1. PICK p \in Reservations :
          /\ resv[p] \in Row \ {NoRow} /\ resv[p].status = "HOLD"
          /\ resv'[p] = [resv[p] EXCEPT !.intent = i]
          /\ \A r \in Reservations \ {p} : resv'[r] = resv[r]
          /\ sess' = sess
    BY <1>3, LinkedRow
  <2>2. /\ resv'[p].session = resv[p].session /\ resv'[p].status = "HOLD"
        /\ resv'[p].deleted = resv[p].deleted
    BY <2>1 DEF Row
  <2>3. \A r \in Reservations :
          /\ resv'[r].session = resv[r].session /\ resv'[r].status = resv[r].status
          /\ resv'[r].deleted = resv[r].deleted
    BY <2>1, <2>2
  <2>4. \A s \in Sessions : Held(s)' = Held(s)
    BY <2>3 DEF Held
  <2> QED BY <2>1, <2>3, <2>4 DEF SerialClaims, ExpiredStay
<1>4. ASSUME NEW t \in Txs, Commit(t)
      PROVE  SerialClaims' /\ ExpiredStay
  BY <1>4, SerialCommit, ClaimsCommit
<1> QED BY <1>1, <1>2, <1>3, <1>4
        DEF Next, vars, Lapse, ExpireSkip, InitiateBookingPayment

LEMMA SerialHolds ==
  ASSUME Serial
  PROVE  Spec => [](SerialInv /\ SerialClaims) /\ [][ExpiredStay]_vars
<1>1. Init => SerialInv /\ SerialClaims
  BY SerialInit DEF Init, SerialClaims, NoRow
<1>2. TypeOK /\ ExclusionInv /\ WorkInv /\ SerialInv /\ [Next]_vars => SerialInv'
  BY SerialNext
<1>3. TypeOK /\ ExclusionInv /\ WorkInv /\ CompletedIsKept /\ SerialInv /\ SerialClaims
        /\ [Next]_vars => SerialClaims' /\ ExpiredStay
  BY ClaimsNext
<1> QED BY <1>1, <1>2, <1>3, TypeCorrect, ExclusionHolds, WorkHolds, CompletedHolds,
           PTL DEF Spec

\* With one connection no room goes to two confirmed guests: a confirmed row is
\* not soft-deleted, so the exclusion constraint still speaks of it.
THEOREM SerialRoomsAreConfirmedOnce ==
  ASSUME Serial
  PROVE  Spec => []NoRoomConfirmedTwice
<1>1. SerialClaims /\ ExclusionInv => NoRoomConfirmedTwice
  BY DEF SerialClaims, ExclusionInv, NoRoomConfirmedTwice, Conflict, Live
<1> QED BY <1>1, SerialHolds, ExclusionHolds, PTL

\* With one connection an expired session holds no room and stays expired.
THEOREM SerialExpiryIsComplete ==
  ASSUME Serial
  PROVE  Spec => []ExpiryReleasesHolds /\ ExpiredIsFinal
<1>1. TypeOK /\ SerialClaims => ExpiryReleasesHolds
  <2> SUFFICES ASSUME TypeOK, SerialClaims, NEW r \in Reservations,
                      resv[r].status = "HOLD", ~resv[r].deleted
               PROVE  sess[resv[r].session] # "EXPIRED"
    BY DEF ExpiryReleasesHolds
  <2>1. resv[r].session \in Sessions
    BY RowFacts DEF TypeOK, RowsOK, NoRow
  <2> QED BY <2>1 DEF SerialClaims, Held
<1>2. ExpiredStay => \A s \in Sessions : sess[s] = "EXPIRED" => sess'[s] = "EXPIRED"
  BY DEF ExpiredStay
<1> QED BY <1>1, <1>2, SerialHolds, TypeCorrect, PTL DEF ExpiredIsFinal
=============================================================================
