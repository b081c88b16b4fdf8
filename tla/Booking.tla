------------------------------- MODULE Booking -------------------------------
(***************************************************************************)
(* The reservation module of linked-reservation: booking sessions, room    *)
(* holds, expiry and confirmation, as transactions of one PostgreSQL       *)
(* database at its default isolation level, READ COMMITTED.                *)
(*                                                                         *)
(* Every statement a handler awaits is one action.  A row has a committed  *)
(* version (resv, sess) and at most one uncommitted version, written by    *)
(* the transaction that holds the row's lock (draft, sdraft).  A statement *)
(* reads what is committed plus what its own transaction wrote; an UPDATE  *)
(* waits for the row's lock and then applies its WHERE clause to the       *)
(* version it finds.                                                       *)
(***************************************************************************)
EXTENDS Integers, FiniteSets

CONSTANTS
  Sessions,         \* booking sessions (reservation_sessions rows)
  Rooms,            \* rooms of the session's stay
  Reservations,     \* reservation rows that can be inserted
  Intents,          \* payment intents
  Refs,             \* booking references the generator can produce
  Txs,              \* database connections: at most |Txs| open transactions
  NONE,             \* null
  CheckIn,          \* first instant of each session's stay
  CheckOut,         \* last instant of each session's stay
  MaxCrashes,       \* bound: transactions lost to a crash or a failed call
  IntentsLinked,    \* TRUE: something stores reservations.payment_intent_id
  ExpiryWired,      \* TRUE: ExpireSessionConsumer receives its queue
  FindSeesDeleted   \* TRUE: a find without withDeleted returns deleted rows

\* The handlers that run a transaction.
Ops == {"GenerateLink", "SelectRoom", "ExpireSession", "ConfirmPayment"}

ASSUME NoneAssumption ==
  /\ NONE \notin Sessions \cup Rooms \cup Reservations
  /\ NONE \notin Intents \cup Refs \cup Txs \cup Ops

ASSUME PeriodAssumption ==
  /\ CheckIn \in [Sessions -> Int]
  /\ CheckOut \in [Sessions -> Int]
  /\ \A s \in Sessions : CheckIn[s] < CheckOut[s]

ASSUME BoundAssumption == MaxCrashes \in Nat

ASSUME WiringAssumption ==
  /\ IntentsLinked \in BOOLEAN
  /\ ExpiryWired \in BOOLEAN
  /\ FindSeesDeleted \in BOOLEAN

VARIABLES
  sess,      \* committed status of each session
  resv,      \* committed version of each reservation row
  sdraft,    \* uncommitted version of each session and its writer
  draft,     \* uncommitted version of each reservation and its writer
  tx,        \* the handler running on each connection
  lapsed,    \* sessions whose expiresAt has passed
  expireMsg, \* session-expire messages in SQS
  sent,      \* events handed to SQS for the notification module
  intentOf,  \* the reservation each payment intent was created for
  reply,     \* what ConfirmPayment last answered for each intent
  crashes    \* transactions lost so far

vars == <<sess, resv, sdraft, draft, tx, lapsed, expireMsg, sent, intentOf,
          reply, crashes>>

-----------------------------------------------------------------------------
(* Rows and their versions *)

Opt(S) == S \cup {NONE}

SessionStatus == {"ABSENT", "ACTIVE", "COMPLETED", "EXPIRED"}

NoRow == [status |-> "ABSENT", session |-> NONE, room |-> NONE,
          deleted |-> FALSE, intent |-> NONE, ref |-> NONE]

Row == {NoRow} \cup [status  : {"HOLD", "CONFIRMED", "EXPIRED"},
                     session : Sessions,
                     room    : Rooms,
                     deleted : BOOLEAN,
                     intent  : Opt(Intents),
                     ref     : Opt(Refs)]

NewHold(s, rm) == [status |-> "HOLD", session |-> s, room |-> rm,
                   deleted |-> FALSE, intent |-> NONE, ref |-> NONE]

NoDraft  == [by |-> NONE, row |-> NoRow]
NoSDraft == [by |-> NONE, status |-> "ABSENT"]

\* The version of a row the statements of transaction t see.
View(t, r)  == IF draft[r].by = t THEN draft[r].row ELSE resv[r]
SView(t, s) == IF sdraft[s].by = t THEN sdraft[s].status ELSE sess[s]

\* The row lock is free, or t has it already.
CanLock(t, r)  == draft[r].by \in {NONE, t}
CanSLock(t, s) == sdraft[s].by \in {NONE, t}

-----------------------------------------------------------------------------
(* The exclusion constraint on reservations: one live row for a room at any *)
(* instant of a stay.  The ranges are closed at both ends.                  *)

Overlap(s, u) == CheckIn[s] <= CheckOut[u] /\ CheckIn[u] <= CheckOut[s]

Live(row) == row.status \in {"HOLD", "CONFIRMED"} /\ ~row.deleted

Conflict(a, b) ==
  Live(a) /\ Live(b) /\ a.room = b.room /\ Overlap(a.session, b.session)

\* The other transactions whose outcome decides whether row r may become
\* `row': PostgreSQL makes the writer wait for them.
Blockers(t, r, row) ==
  {draft[q].by : q \in {p \in Reservations \ {r} :
                          /\ ~CanLock(t, p)
                          /\ \/ Conflict(row, resv[p])
                             \/ Conflict(row, draft[p].row)}}

ExcludedByHolds(t, r, row) ==
  \E q \in Reservations \ {r} :
    Conflict(row, View(t, q)) /\ View(t, q).status = "HOLD"

ExcludedHalfOpen(t, r, row) ==
  \E q \in Reservations \ {r} :
    /\ Conflict(row, View(t, q))
    /\ CheckIn[row.session] # CheckOut[View(t, q).session]
    /\ CheckOut[row.session] # CheckIn[View(t, q).session]

Excluded(t, r, row) == \E q \in Reservations \ {r} : Conflict(row, View(t, q))

-----------------------------------------------------------------------------
(* Transactions *)

Steps == {"enqueue", "find", "drop", "insert", "mark", "scan", "release",
          "session", "assign", "confirm", "complete", "publish", "commit"}

\* The steps at which a handler has read but not written, or has not begun.
BeforeWriting == {"idle", "find", "mark", "session"}

Tx == [op      : Opt(Ops),
       pc      : Steps \cup {"idle"},
       session : Opt(Sessions),
       room    : Opt(Rooms),
       res     : Opt(Reservations),
       intent  : Opt(Intents),
       scan    : SUBSET Reservations]

Idle == [op |-> NONE, pc |-> "idle", session |-> NONE, room |-> NONE,
         res |-> NONE, intent |-> NONE, scan |-> {}]

At(t, op, pc) == tx[t].op = op /\ tx[t].pc = pc
Goto(t, pc)   == tx' = [tx EXCEPT ![t].pc = pc]

\* Lock row r and give it the uncommitted version row.
Write(t, r, row) == draft' = [draft EXCEPT ![r] = [by |-> t, row |-> row]]
SWrite(t, s, st) == sdraft' = [sdraft EXCEPT ![s] = [by |-> t, status |-> st]]

\* End t: its locks go and the connection returns to the pool.
Close(t) ==
  /\ tx' = [tx EXCEPT ![t] = Idle]
  /\ draft' = [r \in Reservations |->
                 IF draft[r].by = t THEN NoDraft ELSE draft[r]]
  /\ sdraft' = [s \in Sessions |->
                 IF sdraft[s].by = t THEN NoSDraft ELSE sdraft[s]]

\* ROLLBACK, also what COMMIT does once a statement of the transaction failed.
Rollback(t) == Close(t) /\ UNCHANGED <<sess, resv>>

Event(queue, s, r, ref) ==
  [queue |-> queue, session |-> s, res |-> r, ref |-> ref]

Events == [queue   : {"session_link", "session_expired", "reservation_confirmed"},
           session : Opt(Sessions),
           res     : Opt(Reservations),
           ref     : Opt(Refs)]

Init ==
  /\ sess = [s \in Sessions |-> "ABSENT"]
  /\ resv = [r \in Reservations |-> NoRow]
  /\ sdraft = [s \in Sessions |-> NoSDraft]
  /\ draft = [r \in Reservations |-> NoDraft]
  /\ tx = [t \in Txs |-> Idle]
  /\ lapsed = {}
  /\ expireMsg = {}
  /\ sent = {}
  /\ intentOf = [i \in Intents |-> NONE]
  /\ reply = [i \in Intents |-> "none"]
  /\ crashes = 0

-----------------------------------------------------------------------------
(* GenerateLink.handle: insert the session, then hand two messages to SQS,  *)
(* both before the transaction commits.                                     *)

LinkSave(t, s) ==
  /\ tx[t] = Idle
  /\ sess[s] = "ABSENT" /\ sdraft[s] = NoSDraft /\ s \notin expireMsg
  /\ SWrite(t, s, "ACTIVE")
  /\ tx' = [tx EXCEPT ![t] =
              [Idle EXCEPT !.op = "GenerateLink", !.pc = "enqueue", !.session = s]]
  /\ UNCHANGED <<sess, resv, draft, lapsed, expireMsg, sent, intentOf, reply,
                 crashes>>

LinkEnqueue(t) ==
  /\ At(t, "GenerateLink", "enqueue")
  /\ expireMsg' = expireMsg \cup {tx[t].session}
  /\ Goto(t, "publish")
  /\ UNCHANGED <<sess, resv, sdraft, draft, lapsed, sent, intentOf, reply,
                 crashes>>

LinkPublish(t) ==
  /\ At(t, "GenerateLink", "publish")
  /\ sent' = sent \cup {Event("session_link", tx[t].session, NONE, NONE)}
  /\ Goto(t, "commit")
  /\ UNCHANGED <<sess, resv, sdraft, draft, lapsed, expireMsg, intentOf, reply,
                 crashes>>

\* The wall clock passes the session's expiresAt.
Lapse(s) ==
  /\ sess[s] # "ABSENT" /\ s \notin lapsed
  /\ lapsed' = lapsed \cup {s}
  /\ UNCHANGED <<sess, resv, sdraft, draft, tx, expireMsg, sent, intentOf,
                 reply, crashes>>

-----------------------------------------------------------------------------
(* SelectRoom.handle *)

\* ReservationSessionEntity.isExpired: a COMPLETED session is not expired.
IsExpired(s) == sess[s] = "EXPIRED" \/ s \in lapsed

\* Bound: a SelectRoom starts only while a row is left for it to insert.
RowLeft ==
  Cardinality({t \in Txs : tx[t].op = "SelectRoom"}) <
  Cardinality({r \in Reservations : resv[r] = NoRow /\ draft[r] = NoDraft})

\* Read the session; an absent or expired one is an early return.
SelectRead(t, s, rm) ==
  /\ tx[t] = Idle /\ RowLeft
  /\ sess[s] # "ABSENT" /\ ~IsExpired(s)
  /\ tx' = [tx EXCEPT ![t] = [Idle EXCEPT !.op = "SelectRoom", !.pc = "find",
                                          !.session = s, !.room = rm]]
  /\ UNCHANGED <<sess, resv, sdraft, draft, lapsed, expireMsg, sent, intentOf,
                 reply, crashes>>

ActiveHolds(t, s) ==
  {r \in Reservations : /\ View(t, r).status = "HOLD"
                        /\ View(t, r).session = s
                        /\ ~View(t, r).deleted}

\* findOne returns some active hold of the session: the same room ends the
\* call, another room is dropped next, none goes straight to the insert.
SelectFind(t) ==
  /\ At(t, "SelectRoom", "find")
  /\ LET holds == ActiveHolds(t, tx[t].session)
     IN  \/ holds = {} /\ Goto(t, "insert")
         \/ \E r \in holds :
              tx' = [tx EXCEPT ![t] =
                       IF resv[r].room = tx[t].room
                         THEN Idle
                         ELSE [@ EXCEPT !.pc = "drop", !.res = r]]
  /\ UNCHANGED <<sess, resv, sdraft, draft, lapsed, expireMsg, sent, intentOf,
                 reply, crashes>>

SelectDropHard(t) ==
  /\ At(t, "SelectRoom", "drop")
  /\ CanLock(t, tx[t].res)
  /\ Write(t, tx[t].res, NoRow)
  /\ Goto(t, "insert")
  /\ UNCHANGED <<sess, resv, sdraft, lapsed, expireMsg, sent, intentOf, reply,
                 crashes>>

SelectDropStale(t) ==
  /\ At(t, "SelectRoom", "drop")
  /\ CanLock(t, tx[t].res)
  /\ Write(t, tx[t].res,
           [View(t, tx[t].res) EXCEPT !.status = "HOLD", !.deleted = TRUE])
  /\ Goto(t, "insert")
  /\ UNCHANGED <<sess, resv, sdraft, lapsed, expireMsg, sent, intentOf, reply,
                 crashes>>

\* Soft-delete the old hold by primary key, whatever it has become meanwhile.
SelectDrop(t) ==
  /\ At(t, "SelectRoom", "drop")
  /\ CanLock(t, tx[t].res)
  /\ Write(t, tx[t].res, [View(t, tx[t].res) EXCEPT !.deleted = TRUE])
  /\ Goto(t, "insert")
  /\ UNCHANGED <<sess, resv, sdraft, lapsed, expireMsg, sent, intentOf, reply,
                 crashes>>

SelectInsertKeepingDrop(t, r) ==
  LET hold == NewHold(tx[t].session, tx[t].room)
  IN  /\ At(t, "SelectRoom", "insert")
      /\ resv[r] = NoRow /\ draft[r] = NoDraft
      /\ Blockers(t, r, hold) = {}
      /\ IF Excluded(t, r, hold) THEN UNCHANGED draft ELSE Write(t, r, hold)
      /\ Goto(t, "commit")
      /\ UNCHANGED <<sess, resv, sdraft, lapsed, expireMsg, sent, intentOf,
                     reply, crashes>>

\* Insert the new hold.  A conflicting live row is ROOM_NOT_AVAILABLE: the
\* failed statement has aborted the transaction, and the drop with it.
SelectInsert(t, r) ==
  LET hold == NewHold(tx[t].session, tx[t].room)
  IN  /\ At(t, "SelectRoom", "insert")
      /\ resv[r] = NoRow /\ draft[r] = NoDraft
      /\ Blockers(t, r, hold) = {}
      /\ \/ /\ Excluded(t, r, hold)
            /\ Rollback(t)
         \/ /\ ~Excluded(t, r, hold)
            /\ Write(t, r, hold)
            /\ Goto(t, "commit")
            /\ UNCHANGED <<sess, resv, sdraft>>
      /\ UNCHANGED <<lapsed, expireMsg, sent, intentOf, reply, crashes>>

-----------------------------------------------------------------------------
(* ExpireSessionConsumer.handle.  SQS keeps the message until a delivery    *)
(* ends normally, so one that crashes is delivered again.                   *)

\* The link's own transaction is over long before the message's delay is.
Delivered(s) ==
  ExpiryWired /\ s \in expireMsg /\ sdraft[s].by \notin
    {t \in Txs : tx[t].op = "GenerateLink"}

ExpireRead(t, s) ==
  /\ tx[t] = Idle
  /\ Delivered(s) /\ sess[s] = "ACTIVE"
  /\ tx' = [tx EXCEPT ![t] =
              [Idle EXCEPT !.op = "ExpireSession", !.pc = "mark", !.session = s]]
  /\ UNCHANGED <<sess, resv, sdraft, draft, lapsed, expireMsg, sent, intentOf,
                 reply, crashes>>

ExpireSkipAlways(s) ==
  /\ Delivered(s)
  /\ expireMsg' = expireMsg \ {s}
  /\ UNCHANGED <<sess, resv, sdraft, draft, tx, lapsed, sent, intentOf, reply,
                 crashes>>

\* A delivery that finds nothing to do, and after which the message is deleted.
ExpireSkip(s) ==
  /\ Delivered(s) /\ sess[s] # "ACTIVE"
  /\ expireMsg' = expireMsg \ {s}
  /\ UNCHANGED <<sess, resv, sdraft, draft, tx, lapsed, sent, intentOf, reply,
                 crashes>>

ExpireMarkUnconditionally(t) ==
  /\ At(t, "ExpireSession", "mark")
  /\ CanSLock(t, tx[t].session)
  /\ SWrite(t, tx[t].session, "EXPIRED") /\ Goto(t, "scan")
  /\ UNCHANGED <<sess, resv, draft, lapsed, expireMsg, sent, intentOf, reply,
                 crashes>>

\* UPDATE ... SET status = 'EXPIRED' WHERE status = 'ACTIVE'; zero rows end it.
ExpireMark(t) ==
  /\ At(t, "ExpireSession", "mark")
  /\ CanSLock(t, tx[t].session)
  /\ IF sess[tx[t].session] = "ACTIVE"
       THEN SWrite(t, tx[t].session, "EXPIRED") /\ Goto(t, "scan")
       ELSE tx' = [tx EXCEPT ![t] = Idle] /\ UNCHANGED sdraft
  /\ UNCHANGED <<sess, resv, draft, lapsed, expireMsg, sent, intentOf, reply,
                 crashes>>

\* The UPDATE that releases the holds picks its rows from the snapshot taken
\* when the statement starts ...
ExpireScan(t) ==
  /\ At(t, "ExpireSession", "scan")
  /\ tx' = [tx EXCEPT ![t] = [@ EXCEPT !.pc = "release",
                                       !.scan = ActiveHolds(t, tx[t].session)]]
  /\ UNCHANGED <<sess, resv, sdraft, draft, lapsed, expireMsg, sent, intentOf,
                 reply, crashes>>

\* ... and, once it has their locks, updates those that still match.
ExpireRelease(t) ==
  /\ At(t, "ExpireSession", "release")
  /\ \A r \in tx[t].scan : CanLock(t, r)
  /\ draft' = [r \in Reservations |->
                 IF r \in tx[t].scan \cap ActiveHolds(t, tx[t].session)
                   THEN [by |-> t, row |-> [View(t, r) EXCEPT !.status = "EXPIRED"]]
                   ELSE draft[r]]
  /\ Goto(t, "publish")
  /\ UNCHANGED <<sess, resv, sdraft, lapsed, expireMsg, sent, intentOf, reply,
                 crashes>>

ExpirePublish(t) ==
  /\ At(t, "ExpireSession", "publish")
  /\ sent' = sent \cup {Event("session_expired", tx[t].session, NONE, NONE)}
  /\ Goto(t, "commit")
  /\ UNCHANGED <<sess, resv, sdraft, draft, lapsed, expireMsg, intentOf, reply,
                 crashes>>

-----------------------------------------------------------------------------
(* Payment intents *)

\* BookingController.createPaymentIntent: the guard wants a live session, and
\* the intent is for any reservation the caller names.
InitiateBookingPayment(s, i, r) ==
  /\ sess[s] # "ABSENT" /\ ~IsExpired(s)
  /\ intentOf[i] = NONE
  /\ resv[r] # NoRow /\ (resv[r].deleted => FindSeesDeleted)
  /\ intentOf' = [intentOf EXCEPT ![i] = r]
  /\ UNCHANGED <<sess, resv, sdraft, draft, tx, lapsed, expireMsg, sent, reply,
                 crashes>>

\* External: payment_intent_id is stored on the held row.  Nothing under src/
\* does it; the tests of ConfirmPayment start from rows where it is done.
LinkIntent(i) ==
  /\ IntentsLinked /\ intentOf[i] # NONE
  /\ LET r == intentOf[i]
     IN  /\ resv[r].status = "HOLD" /\ ~resv[r].deleted /\ resv[r].intent = NONE
         /\ draft[r] = NoDraft
         /\ resv' = [resv EXCEPT ![r].intent = i]
  /\ UNCHANGED <<sess, sdraft, draft, tx, lapsed, expireMsg, sent, intentOf,
                 reply, crashes>>

-----------------------------------------------------------------------------
(* ConfirmPayment.handle, called for an intent the provider reports paid.   *)

Found(i) == {r \in Reservations : /\ resv[r].intent = i
                                  /\ resv[r].deleted => FindSeesDeleted}

\* No reservation is RESERVATION_NOT_FOUND, a CONFIRMED one an idempotent hit.
ConfirmFind(t, i) ==
  /\ tx[t] = Idle /\ intentOf[i] # NONE
  /\ \/ /\ Found(i) = {}
        /\ reply' = [reply EXCEPT ![i] = "not_found"]
        /\ UNCHANGED tx
     \/ \E r \in Found(i) :
          IF resv[r].status = "CONFIRMED"
            THEN reply' = [reply EXCEPT ![i] = "ok"] /\ UNCHANGED tx
            ELSE /\ tx' = [tx EXCEPT ![t] =
                             [Idle EXCEPT !.op = "ConfirmPayment", !.pc = "session",
                              !.session = resv[r].session, !.res = r, !.intent = i]]
                 /\ UNCHANGED reply
  /\ UNCHANGED <<sess, resv, sdraft, draft, lapsed, expireMsg, sent, intentOf,
                 crashes>>

ConfirmReadNothing(t) ==
  /\ At(t, "ConfirmPayment", "session")
  /\ Goto(t, "assign")
  /\ UNCHANGED <<sess, resv, sdraft, draft, lapsed, expireMsg, sent, intentOf,
                 reply, crashes>>

ConfirmReadSession(t) ==
  /\ At(t, "ConfirmPayment", "session")
  /\ IF sess[tx[t].session] = "ACTIVE"
       THEN Goto(t, "assign") /\ UNCHANGED reply
       ELSE /\ tx' = [tx EXCEPT ![t] = Idle]
            /\ reply' = [reply EXCEPT ![tx[t].intent] = "session_expired"]
  /\ UNCHANGED <<sess, resv, sdraft, draft, lapsed, expireMsg, sent, intentOf,
                 crashes>>

NoHolders(t, ref) == {}

\* The other rows whose committed or uncommitted version has the reference.
RefHolders(t, ref) ==
  {q \in Reservations \ {tx[t].res} : ref \in {resv[q].ref, draft[q].row.ref}}

\* BookingReferenceService.assignToReservation.  A collision with the unique
\* index fails the statement and so the transaction, whatever the retry does.
ConfirmAssign(t, ref) ==
  /\ At(t, "ConfirmPayment", "assign")
  /\ \A q \in RefHolders(t, ref) \cup {tx[t].res} : CanLock(t, q)
  /\ IF RefHolders(t, ref) # {}
       THEN Rollback(t)
       ELSE /\ Write(t, tx[t].res, [View(t, tx[t].res) EXCEPT !.ref = ref])
            /\ Goto(t, "confirm")
            /\ UNCHANGED <<sess, resv, sdraft>>
  /\ UNCHANGED <<lapsed, expireMsg, sent, intentOf, reply, crashes>>

Confirmed(t) ==
  [View(t, tx[t].res) EXCEPT !.status = "CONFIRMED", !.intent = tx[t].intent]

ConfirmReservationAnyway(t) ==
  /\ At(t, "ConfirmPayment", "confirm")
  /\ CanLock(t, tx[t].res) /\ Blockers(t, tx[t].res, Confirmed(t)) = {}
  /\ IF Excluded(t, tx[t].res, Confirmed(t))
       THEN UNCHANGED draft
       ELSE Write(t, tx[t].res, Confirmed(t))
  /\ Goto(t, "complete")
  /\ UNCHANGED <<sess, resv, sdraft, lapsed, expireMsg, sent, intentOf, reply,
                 crashes>>

\* The row's status is not looked at again.  One that meanwhile expired enters
\* the exclusion constraint anew, and the update fails if the room is taken.
ConfirmReservation(t) ==
  /\ At(t, "ConfirmPayment", "confirm")
  /\ CanLock(t, tx[t].res) /\ Blockers(t, tx[t].res, Confirmed(t)) = {}
  /\ \/ /\ Excluded(t, tx[t].res, Confirmed(t))
        /\ Rollback(t)
     \/ /\ ~Excluded(t, tx[t].res, Confirmed(t))
        /\ Write(t, tx[t].res, Confirmed(t))
        /\ Goto(t, "complete")
        /\ UNCHANGED <<sess, resv, sdraft>>
  /\ UNCHANGED <<lapsed, expireMsg, sent, intentOf, reply, crashes>>

\* The session becomes COMPLETED, whatever it has become meanwhile.
ConfirmComplete(t) ==
  /\ At(t, "ConfirmPayment", "complete")
  /\ CanSLock(t, tx[t].session)
  /\ SWrite(t, tx[t].session, "COMPLETED")
  /\ Goto(t, "publish")
  /\ UNCHANGED <<sess, resv, draft, lapsed, expireMsg, sent, intentOf, reply,
                 crashes>>

ConfirmPublish(t) ==
  /\ At(t, "ConfirmPayment", "publish")
  /\ sent' = sent \cup {Event("reservation_confirmed", tx[t].session, tx[t].res,
                              draft[tx[t].res].row.ref)}
  /\ Goto(t, "commit")
  /\ UNCHANGED <<sess, resv, sdraft, draft, lapsed, expireMsg, intentOf, reply,
                 crashes>>

-----------------------------------------------------------------------------
(* The end of a transaction *)

Commit(t) ==
  /\ tx[t].pc = "commit"
  /\ resv' = [r \in Reservations |-> View(t, r)]
  /\ sess' = [s \in Sessions |-> SView(t, s)]
  /\ Close(t)
  /\ reply' = IF tx[t].op = "ConfirmPayment"
                THEN [reply EXCEPT ![tx[t].intent] = "ok"] ELSE reply
  /\ UNCHANGED <<lapsed, expireMsg, sent, intentOf, crashes>>

\* A crash of the process, a lost connection, a publish that throws.
Crash(t) ==
  /\ tx[t] # Idle /\ crashes < MaxCrashes
  /\ Rollback(t)
  /\ crashes' = crashes + 1
  /\ UNCHANGED <<lapsed, expireMsg, sent, intentOf, reply>>

\* The transactions t's next statement has to wait for.
WaitsFor(t) ==
  LET rowsOf(R) == {draft[r].by : r \in R}
      waits == CASE tx[t].pc \in {"drop", "assign"}  -> rowsOf({tx[t].res})
                 [] tx[t].pc = "release"             -> rowsOf(tx[t].scan)
                 [] tx[t].pc \in {"mark", "complete"} -> {sdraft[tx[t].session].by}
                 [] tx[t].pc = "insert" ->
                      UNION {Blockers(t, r, NewHold(tx[t].session, tx[t].room)) :
                               r \in {q \in Reservations : resv[q] = NoRow}}
                 [] tx[t].pc = "confirm" -> Blockers(t, tx[t].res, Confirmed(t))
                 [] OTHER -> {}
  IN  waits \ {t, NONE}

Deadlocked(S) == \A t \in S : WaitsFor(t) \cap S # {}

NoVictim(t) == FALSE /\ UNCHANGED vars

\* PostgreSQL breaks a cycle of lock waits by failing one of its statements.
DeadlockVictim(t) ==
  /\ tx[t] # Idle
  /\ \E S \in SUBSET Txs : t \in S /\ Deadlocked(S)
  /\ Rollback(t)
  /\ UNCHANGED <<lapsed, expireMsg, sent, intentOf, reply, crashes>>

-----------------------------------------------------------------------------

GenerateLink(t) ==
  \/ \E s \in Sessions : LinkSave(t, s)
  \/ LinkEnqueue(t)
  \/ LinkPublish(t)

SelectRoom(t) ==
  \/ \E s \in Sessions, rm \in Rooms : SelectRead(t, s, rm)
  \/ SelectFind(t)
  \/ SelectDrop(t)
  \/ \E r \in Reservations : SelectInsert(t, r)

ExpireSession(t) ==
  \/ \E s \in Sessions : ExpireRead(t, s)
  \/ ExpireMark(t)
  \/ ExpireScan(t)
  \/ ExpireRelease(t)
  \/ ExpirePublish(t)

ConfirmPayment(t) ==
  \/ \E i \in Intents : ConfirmFind(t, i)
  \/ ConfirmReadSession(t)
  \/ \E ref \in Refs : ConfirmAssign(t, ref)
  \/ ConfirmReservation(t)
  \/ ConfirmComplete(t)
  \/ ConfirmPublish(t)

Next ==
  \/ \E t \in Txs : \/ GenerateLink(t)
                    \/ SelectRoom(t)
                    \/ ExpireSession(t)
                    \/ ConfirmPayment(t)
                    \/ Commit(t)
                    \/ Crash(t)
                    \/ DeadlockVictim(t)
  \/ \E s \in Sessions : Lapse(s) \/ ExpireSkip(s)
  \/ \E s \in Sessions, i \in Intents, r \in Reservations :
       InitiateBookingPayment(s, i, r)
  \/ \E i \in Intents : LinkIntent(i)

Spec == Init /\ [][Next]_vars

\* What a running transaction does next, short of being lost.
Proceed(t) ==
  \/ LinkEnqueue(t) \/ LinkPublish(t)
  \/ SelectFind(t) \/ SelectDrop(t) \/ \E r \in Reservations : SelectInsert(t, r)
  \/ ExpireMark(t) \/ ExpireScan(t) \/ ExpireRelease(t) \/ ExpirePublish(t)
  \/ ConfirmReadSession(t) \/ \E ref \in Refs : ConfirmAssign(t, ref)
  \/ ConfirmReservation(t) \/ ConfirmComplete(t) \/ ConfirmPublish(t)
  \/ Commit(t) \/ DeadlockVictim(t)

\* Node runs every ready continuation, and PostgreSQL every statement whose
\* lock is free.  Its lock queues are first come, first served, so of the two
\* statements that can deadlock the one that waited gets the row when the other
\* is the victim.  SQS delivers a message until a delivery succeeds, and a
\* delivery gets a connection as often as one is free.
Fairness ==
  /\ \A t \in Txs : /\ WF_vars(Proceed(t))
                    /\ SF_vars(ExpireRelease(t))
                    /\ SF_vars(ConfirmComplete(t))
  /\ \A s \in Sessions : SF_vars(\E t \in Txs : ExpireRead(t, s))

FairSpec == Spec /\ Fairness

-----------------------------------------------------------------------------
(* What holds *)

RowsOK ==
  /\ sess \in [Sessions -> SessionStatus]
  /\ resv \in [Reservations -> Row]
  /\ sdraft \in [Sessions -> [by : Opt(Txs), status : SessionStatus]]
  /\ draft \in [Reservations -> [by : Opt(Txs), row : Row]]

LocksOK ==
  /\ \A r \in Reservations :
       IF draft[r].by = NONE
         THEN draft[r] = NoDraft
         ELSE draft[r].row # NoRow /\ tx[draft[r].by].pc \notin BeforeWriting
  /\ \A s \in Sessions :
       sdraft[s].by # NONE => tx[sdraft[s].by].pc \notin BeforeWriting

HandlerOK(h) ==
  /\ h.op # NONE => h.session \in Sessions
  /\ h.op = "SelectRoom" => h.room \in Rooms
  /\ h.op = "ConfirmPayment" => h.intent \in Intents
  /\ h.op = "ConfirmPayment" \/ h.pc = "drop" =>
       h.res \in Reservations /\ resv[h.res] # NoRow

HandlersOK == tx \in [Txs -> Tx] /\ \A t \in Txs : HandlerOK(tx[t])

MessagesOK ==
  /\ lapsed \subseteq Sessions
  /\ expireMsg \subseteq Sessions
  /\ sent \subseteq Events
  /\ intentOf \in [Intents -> Opt(Reservations)]
  /\ reply \in [Intents -> {"none", "not_found", "session_expired", "ok"}]
  /\ crashes \in 0..MaxCrashes

\* The state is made of rows, versions, handlers and messages of the right
\* kind; a handler carries the rows its next statements name; and a lock is
\* held on an existing row by a transaction that is past its first write and
\* not over.
TypeOK == RowsOK /\ LocksOK /\ HandlersOK /\ MessagesOK

\* No two live reservations give one room to two stays that share an instant:
\* the exclusion constraint covers holds and confirmations through every
\* interleaving of inserts, drops, releases and late confirmations.
NoDoubleBooking ==
  \A r, q \in Reservations : r # q => ~Conflict(resv[r], resv[q])

\* NoDoubleBooking made inductive: nor does an uncommitted version conflict
\* with another row, except one its own transaction has rewritten.
ExclusionInv ==
  \A r, q \in Reservations : r # q =>
    /\ ~Conflict(resv[r], resv[q])
    /\ draft[r].by # draft[q].by => ~Conflict(draft[r].row, resv[q])
    /\ ~Conflict(draft[r].row, draft[q].row)

\* A confirmed reservation belongs to a completed session: no expiry that was
\* already running may overwrite what ConfirmPayment wrote.
ConfirmedIsCompleted ==
  \A r \in Reservations :
    resv[r].status = "CONFIRMED" => sess[resv[r].session] = "COMPLETED"

\* A confirmed reservation has a booking reference, and no two share one.
ReferencesUnique ==
  /\ \A r \in Reservations : resv[r].status = "CONFIRMED" => resv[r].ref # NONE
  /\ \A r, q \in Reservations :
       r # q /\ resv[r].ref # NONE => resv[r].ref # resv[q].ref

\* ConfirmPayment answers ok only for an intent whose reservation is confirmed.
OkMeansConfirmed ==
  \A i \in Intents : reply[i] = "ok" =>
    \E r \in Reservations : resv[r].status = "CONFIRMED" /\ resv[r].intent = i

\* CONFIRMED is final: a change of rooms and an expiry, which read a hold and
\* write its row some statements later, never write back what they had read.
ConfirmedIsFinal ==
  [][\A r \in Reservations :
       resv[r].status = "CONFIRMED" => resv'[r].status = "CONFIRMED"]_vars

\* Changing rooms is all or nothing: a live hold is given up only when its
\* session expires or has another reservation in its place.
SwitchIsAtomic ==
  [][\A r \in Reservations :
       Live(resv[r]) /\ ~Live(resv'[r]) =>
         \/ sess'[resv[r].session] = "EXPIRED"
         \/ \E q \in Reservations \ {r} :
              Live(resv'[q]) /\ resv'[q].session = resv[r].session]_vars

\* Every session leaves ACTIVE, by payment or by the expire message.
SessionsEnd == \A s \in Sessions : sess[s] = "ACTIVE" ~> sess[s] # "ACTIVE"

\* No handler waits for ever, although ConfirmPayment locks the reservation
\* before the session and ExpireSession the session before the reservation.
TransactionsEnd == \A t \in Txs : tx[t] # Idle ~> tx[t] = Idle

-----------------------------------------------------------------------------
(* What the repository says and the code does not do *)

Quiet == \A t \in Txs : tx[t] = Idle

\* select-room.spec.ts: changing rooms drops the previous hold, so a session
\* has one reservation at a time.
OneRoomPerSession ==
  \A r, q \in Reservations :
    r # q /\ Live(resv[r]) /\ Live(resv[q]) => resv[r].session # resv[q].session

\* expire-session.consumer.ts: expiry releases any active hold, and the room
\* becomes available again.
ExpiryReleasesHolds ==
  Quiet => \A r \in Reservations :
             resv[r].status = "HOLD" /\ ~resv[r].deleted =>
               sess[resv[r].session] # "EXPIRED"

\* README.md: no double-bookings.  Two confirmed guests never share a room.
NoRoomConfirmedTwice ==
  \A r, q \in Reservations :
    /\ r # q
    /\ resv[r].status = "CONFIRMED" /\ resv[q].status = "CONFIRMED"
    /\ resv[r].room = resv[q].room
    => ~Overlap(resv[r].session, resv[q].session)

\* confirm-payment.spec.ts: an expired session's reservation is not confirmed.
ExpiredIsFinal ==
  [][\A s \in Sessions : sess[s] = "EXPIRED" => sess'[s] = "EXPIRED"]_vars

\* confirm-payment.spec.ts: two concurrent calls publish one event.
OneConfirmedEvent ==
  \A e, f \in sent :
    e.queue = "reservation_confirmed" /\ f.queue = "reservation_confirmed" /\
    e.res = f.res => e = f

\* README.md: an event is published atomically with the change it announces.
EventsAreAtomic ==
  Quiet => \A e \in sent :
    CASE e.queue = "session_link" -> sess[e.session] # "ABSENT"
      [] e.queue = "session_expired" -> sess[e.session] # "ACTIVE"
      [] e.queue = "reservation_confirmed" -> resv[e.res].status = "CONFIRMED"

\* README.md: ConfirmPayment turns a paid reservation into a CONFIRMED one; it
\* finds the reservation the intent was created for.
PaidReservationIsFound == \A i \in Intents : reply[i] # "not_found"
=============================================================================
