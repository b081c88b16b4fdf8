----------------------------- MODULE Notification -----------------------------
(***************************************************************************)
(* The notification module behind the bus: its SQS consumers and           *)
(* NotificationService.dispatch, which inserts a row per recipient, sends, *)
(* and marks the row, for all recipients at once and in one transaction.   *)
(*                                                                         *)
(* SQS deletes a message only after its handler has returned, and may      *)
(* deliver it again, also while a handler still works on it.               *)
(***************************************************************************)
EXTENDS Bus

CONSTANTS
  Recipients,  \* recipients of notifications
  Workers,     \* messages that can be handled at once
  NONE,        \* null
  Consumed,    \* the types whose queue has a consumer with its handler attached
  Type,        \* the type of each event
  To           \* the recipients each event may be routed to

EventTypes == {"reservation.confirmed", "session.expired", "conversation.reply",
               "property.trial.expiring"}

ASSUME TypeAssumption == Type \in [Events -> EventTypes] /\ NONE \notin Events
ASSUME ConsumedAssumption == Consumed \subseteq EventTypes
ASSUME ToAssumption == To \in [Events -> SUBSET Recipients]

VARIABLES
  work,     \* what each handler does
  rows,     \* committed notifications: their status
  sent,     \* messages sent for each event to each recipient
  handled   \* events a handler has returned for

noteVars == <<work, rows, sent, handled>>
vars == <<busVars, noteVars>>

-----------------------------------------------------------------------------
Status == {"none", "PENDING", "SENT", "FAILED"}
Steps  == {"out", "look", "insert", "send", "sent", "failed", "done"}

Nobody(x) == [r \in Recipients |-> x]
NoWork == [event |-> NONE, step |-> Nobody("out"), kept |-> Nobody("none"),
           aborted |-> FALSE]

NoteInit ==
  /\ work = [w \in Workers |-> NoWork]
  /\ rows = [e \in Events |-> Nobody("none")]
  /\ sent = [e \in Events |-> Nobody(0)]
  /\ handled = {}

\* NotificationRouter routes a confirmed reservation, by the rules and the
\* quiet hours of the moment; the other events go to one recipient.
Routed(e) == Type[e] = "reservation.confirmed"
Routes(e) == IF Routed(e) THEN SUBSET To[e] ELSE {To[e]}

\* Replies carry the guest's message id as idempotency key.
Keyed(e) == Type[e] = "conversation.reply"

\* The staff recipient of session.expired has neither phone nor email.
HasDestination(e) == Type[e] # "session.expired"

\* There is no template for property.trial.expiring.
HasTemplate(e) == Type[e] # "property.trial.expiring"

-----------------------------------------------------------------------------
(* The consumers: a copy becomes invisible and its recipients are resolved *)

\* Without a destination or a template nothing more happens; with a key the
\* rows are read first.
FirstStep(e) == IF ~HasDestination(e) \/ ~HasTemplate(e) THEN "done"
                ELSE IF Keyed(e) THEN "look" ELSE "insert"

Deliver(w, e) ==
  /\ Type[e] \in Consumed
  /\ work[w] = NoWork /\ queue[e] > 0
  /\ queue' = [queue EXCEPT ![e] = @ - 1]
  /\ \E R \in Routes(e) :
       work' = [work EXCEPT ![w] = [NoWork EXCEPT !.event = e,
         !.step = [r \in Recipients |-> IF r \in R THEN FirstStep(e) ELSE "out"]]]
  /\ UNCHANGED <<binding, outbox, run, published, crashes, refused, copies, rows, sent, handled>>

\* The visibility timeout passes, or SQS delivers a message twice.
DeliverAgain(e) ==
  /\ Faulty /\ copies' = copies + 1
  /\ e \in handled \/ \E w \in Workers : work[w].event = e
  /\ Enqueue(e)
  /\ UNCHANGED <<binding, outbox, run, published, crashes, refused, noteVars>>

-----------------------------------------------------------------------------
(* NotificationService.dispatchToRecipient.  After a failed statement every *)
(* later one of the transaction throws; allSettled swallows what throws.    *)

GoTo(w, r, s) == work' = [work EXCEPT ![w].step[r] = s]
Aborted(w, r) == work' = [work EXCEPT ![w].step[r] = "done", ![w].aborted = TRUE]

\* findOne by the idempotency key, whatever the status of the row.
Look(w, r) ==
  /\ work[w].step[r] = "look"
  /\ GoTo(w, r, IF work[w].aborted \/ rows[work[w].event][r] # "none" THEN "done" ELSE "insert")
  /\ UNCHANGED <<busVars, rows, sent, handled>>

\* Another transaction has inserted the row and not ended.
Waiting(w, r) ==
  /\ Keyed(work[w].event)
  /\ \E v \in Workers \ {w} : work[v].event = work[w].event /\ work[v].kept[r] # "none"

\* Every statement commits on its own.
InsertCommitting(w, r) ==
  /\ work[w].step[r] = "insert" /\ ~Waiting(w, r)
  /\ IF work[w].aborted THEN GoTo(w, r, "done") /\ UNCHANGED rows
     ELSE IF Keyed(work[w].event) /\ rows[work[w].event][r] # "none"
       THEN Aborted(w, r) /\ UNCHANGED rows
     ELSE /\ work' = [work EXCEPT ![w].step[r] = "send", ![w].kept[r] = "PENDING"]
          /\ rows' = [rows EXCEPT ![work[w].event][r] = "PENDING"]
  /\ UNCHANGED <<busVars, sent, handled>>

\* Without the unique index.
InsertUnindexed(w, r) ==
  /\ work[w].step[r] = "insert"
  /\ IF work[w].aborted THEN GoTo(w, r, "done")
     ELSE work' = [work EXCEPT ![w].step[r] = "send", ![w].kept[r] = "PENDING"]
  /\ UNCHANGED <<busVars, rows, sent, handled>>

\* save of the PENDING row, under the unique index on the key.
Insert(w, r) ==
  /\ work[w].step[r] = "insert" /\ ~Waiting(w, r)
  /\ IF work[w].aborted THEN GoTo(w, r, "done")
     ELSE IF Keyed(work[w].event) /\ rows[work[w].event][r] # "none" THEN Aborted(w, r)
     ELSE work' = [work EXCEPT ![w].step[r] = "send", ![w].kept[r] = "PENDING"]
  /\ UNCHANGED <<busVars, rows, sent, handled>>

\* The insert fails for this recipient alone.
InsertFails(w, r) ==
  /\ work[w].step[r] = "insert" /\ Faulty
  /\ crashes' = crashes + 1
  /\ Aborted(w, r)
  /\ UNCHANGED <<binding, outbox, run, queue, published, refused, copies, rows, sent, handled>>

\* The channel sends, or answers with an error, whatever became of the
\* transaction.
Send(w, r) ==
  /\ work[w].step[r] = "send"
  /\ \/ /\ sent' = [sent EXCEPT ![work[w].event][r] = @ + 1]
        /\ GoTo(w, r, "sent")
     \/ /\ GoTo(w, r, "failed")
        /\ UNCHANGED sent
  /\ UNCHANGED <<busVars, rows, handled>>

\* update of the row to SENT or FAILED.
Mark(w, r) ==
  /\ work[w].step[r] \in {"sent", "failed"}
  /\ work' = [work EXCEPT ![w].step[r] = "done",
                          ![w].kept[r] = IF work[w].aborted THEN @
                                         ELSE IF work[w].step[r] = "sent" THEN "SENT"
                                         ELSE "FAILED"]
  /\ UNCHANGED <<busVars, rows, sent, handled>>

\* The end of dispatch: COMMIT, a rollback if a statement failed, and SQS
\* deletes the message in both cases.
Commit(w) ==
  /\ work[w] # NoWork /\ \A r \in Recipients : work[w].step[r] \in {"out", "done"}
  /\ LET e == work[w].event
     IN  /\ rows' = IF work[w].aborted THEN rows
                    ELSE [rows EXCEPT ![e] = [r \in Recipients |->
                           IF work[w].kept[r] = "none" THEN @[r] ELSE work[w].kept[r]]]
         /\ handled' = handled \cup {e}
  /\ work' = [work EXCEPT ![w] = NoWork]
  /\ UNCHANGED <<busVars, sent>>

\* The process dies: the transaction is rolled back, the copy visible again.
HandlerLost(w) ==
  /\ work[w] # NoWork /\ Faulty
  /\ crashes' = crashes + 1
  /\ Enqueue(work[w].event)
  /\ work' = [work EXCEPT ![w] = NoWork]
  /\ UNCHANGED <<binding, outbox, run, published, refused, copies, rows, sent, handled>>

Recipient(w, r) == Look(w, r) \/ Insert(w, r) \/ Send(w, r) \/ Mark(w, r)
Handle(w) == (\E r \in Recipients : Recipient(w, r)) \/ Commit(w)

Consume == \/ \E w \in Workers, e \in Events : Deliver(w, e)
           \/ \E e \in Events : DeliverAgain(e)
           \/ \E w \in Workers : \/ Handle(w) \/ HandlerLost(w)
                                 \/ \E r \in Recipients : InsertFails(w, r)

-----------------------------------------------------------------------------
\* The other modules publish each event once.
Happens == \E e \in Events \ published : Publish(e) /\ UNCHANGED noteVars

Init == BusInit /\ NoteInit
Next == Happens \/ (Job /\ UNCHANGED noteVars) \/ Consume
Spec == Init /\ [][Next]_vars

\* The job runs every ten seconds, the consumers there are poll all the time,
\* and what runs goes on.
BusFairness ==
  /\ \A j \in Runs : WF_vars(JobStep(j) /\ UNCHANGED noteVars)
  /\ \A w \in Workers : WF_vars(Handle(w)) /\ WF_vars(\E e \in Events : Deliver(w, e))

FairSpec == Spec /\ BusFairness

-----------------------------------------------------------------------------
(* What holds *)

\* Bus, handlers and rows keep their types; a handler works on an event that
\* was published.
NoticesTypeOK ==
  /\ BusTypeOK
  /\ work \in [Workers -> [event : Events \cup {NONE}, step : [Recipients -> Steps],
                           kept : [Recipients -> Status], aborted : BOOLEAN]]
  /\ \A w \in Workers : work[w] = NoWork \/ work[w].event \in published
  /\ rows \in [Events -> [Recipients -> Status]]
  /\ sent \in [Events -> [Recipients -> Nat]]
  /\ handled \subseteq published

\* A recipient gets an event once, and once more for each crash of a job or a
\* handler and for each copy SQS adds, unless the event has a key: then copies
\* and overlapping handlers add nothing.
SendsPerFault ==
  \A e \in Events, r \in Recipients :
    sent[e][r] <= 1 + crashes + (IF Keyed(e) THEN 0 ELSE copies)

\* The rows the next delivery reads tell the truth: none is PENDING for good,
\* and SENT was sent.
RowsAreTrue ==
  \A e \in Events, r \in Recipients :
    rows[e][r] # "PENDING" /\ (rows[e][r] = "SENT" => sent[e][r] > 0)

\* From its publication until a handler has returned for it, an event is in
\* the outbox, in the queue or with a handler, whatever fails in between.
NothingIsLost ==
  \A e \in published \ handled :
    \/ outbox[e] = "unpublished" \/ queue[e] > 0
    \/ \E w \in Workers : work[w].event = e

\* Every event published is handled in the end, whichever job, send or handler
\* fails on the way.
EventsAreHandled ==
  \A e \in Events : e \in published ~> e \in handled
=============================================================================
