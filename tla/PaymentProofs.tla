---------------------------- MODULE PaymentProofs ----------------------------
(***************************************************************************)
(* Proofs about Payment, for any number of intents, handlers and requests: *)
(* the state keeps its types, a room is confirmed only for a charge, and   *)
(* every charge has its row.                                               *)
(***************************************************************************)
EXTENDS Payment, TLAPS

-----------------------------------------------------------------------------
(* The inductive invariant *)

\* What Stripe announces has happened to the intent, for good.
EventsAreTrue ==
  \A e \in emitted : /\ e.type = "succeeded" => stripe[e.intent] = "succeeded"
                     /\ e.type = "failed" => declines[e.intent] > 0

\* A handler runs for an event whose row it has saved, alone; only a success
\* gets to the confirmation.
HandlersAreSaved ==
  /\ \A h \in Hooks : hook[h] # NoHook => hook[h].event \in saved
  /\ \A h \in Hooks : hook[h].pc = "confirm" => hook[h].event.type = "succeeded"
  /\ OneHandlerPerEvent

\* A row's final status has happened at Stripe; who knows an intent's client
\* secret knows one with a row.
RowsAreTrue ==
  /\ \A i \in Intents : /\ row[i] = "succeeded" => stripe[i] = "succeeded"
                        /\ row[i] = "failed" => declines[i] > 0
                        /\ row[i] = "cancelled" => stripe[i] = "canceled"
  /\ \A i \in known : row[i] # "none"
  /\ \A i \in Intents : stripe[i] = "succeeded" => i \in known

\* What a status request has read or answers is, or was, so.
AnswerIsTrue(r) ==
  /\ r.answer = "succeeded" => stripe[r.intent] = "succeeded"
  /\ r.answer = "failed" => declines[r.intent] > 0
  /\ r.answer = "cancelled" => stripe[r.intent] = "canceled"
  /\ r.answer = "gone" => lapsed
  /\ r.answer = "ok" => r.intent \in booked
  /\ r.pc = "write" => r.answer \in RowStatus \ {"none"}

AnswersAreTrue == \A p \in Polls : poll[p].pc # "idle" => AnswerIsTrue(poll[p])

PaymentInv == /\ PaymentTypeOK /\ EventsAreTrue /\ HandlersAreSaved
              /\ RowsAreTrue /\ AnswersAreTrue /\ NoFreeRooms
-----------------------------------------------------------------------------
(* Stripe and the clock *)

\* An attempt to pay.
LEMMA PayStep ==
  ASSUME PaymentInv, NEW i \in Intents, Pay(i)
  PROVE  PaymentInv'
<1> USE DEF PaymentInv
<1>1. PaymentTypeOK'
  BY LimitAssumption DEF Pay, bookVars, PaymentTypeOK, Event, Events, StripeStatus
<1>2. EventsAreTrue'
  BY LimitAssumption DEF Pay, bookVars, PaymentTypeOK, EventsAreTrue, Event, Events
<1>3. HandlersAreSaved'
  BY DEF Pay, bookVars, HandlersAreSaved, OneHandlerPerEvent
<1>4. RowsAreTrue'
  BY LimitAssumption DEF Pay, bookVars, PaymentTypeOK, RowsAreTrue
<1>5. AnswersAreTrue'
  BY LimitAssumption DEF Pay, bookVars, PaymentTypeOK, AnswersAreTrue, AnswerIsTrue, Polling
<1>6. NoFreeRooms'
  BY DEF Pay, bookVars, PaymentTypeOK, NoFreeRooms
<1> QED BY <1>1, <1>2, <1>3, <1>4, <1>5, <1>6

\* Stripe cancels an intent.
LEMMA CancelStep ==
  ASSUME PaymentInv, NEW i \in Intents, Cancel(i)
  PROVE  PaymentInv'
<1> USE DEF PaymentInv
<1>1. PaymentTypeOK'
  BY LimitAssumption DEF Cancel, bookVars, PaymentTypeOK, Event, Events, StripeStatus
<1>2. EventsAreTrue'
  BY DEF Cancel, bookVars, PaymentTypeOK, EventsAreTrue, Event, Events
<1>3. HandlersAreSaved'
  BY DEF Cancel, bookVars, HandlersAreSaved, OneHandlerPerEvent
<1>4. RowsAreTrue'
  BY DEF Cancel, bookVars, PaymentTypeOK, RowsAreTrue
<1>5. AnswersAreTrue'
  BY DEF Cancel, bookVars, PaymentTypeOK, AnswersAreTrue, AnswerIsTrue, Polling
<1>6. NoFreeRooms'
  BY DEF Cancel, bookVars, PaymentTypeOK, NoFreeRooms
<1> QED BY <1>1, <1>2, <1>3, <1>4, <1>5, <1>6

\* A row gets old.
LEMMA AgeStep ==
  ASSUME PaymentInv, NEW i \in Intents, Age(i)
  PROVE  PaymentInv'
<1> USE DEF PaymentInv
<1>1. PaymentTypeOK'
  BY DEF Age, rowVars, hookVars, bookVars, PaymentTypeOK
<1>2. EventsAreTrue'
  BY DEF Age, rowVars, hookVars, bookVars, PaymentTypeOK, EventsAreTrue
<1>3. HandlersAreSaved'
  BY DEF Age, rowVars, hookVars, bookVars, HandlersAreSaved, OneHandlerPerEvent
<1>4. RowsAreTrue'
  BY DEF Age, rowVars, hookVars, bookVars, PaymentTypeOK, RowsAreTrue
<1>5. AnswersAreTrue'
  BY DEF Age, rowVars, hookVars, bookVars, PaymentTypeOK, AnswersAreTrue, AnswerIsTrue, Polling
<1>6. NoFreeRooms'
  BY DEF Age, rowVars, hookVars, bookVars, PaymentTypeOK, NoFreeRooms
<1> QED BY <1>1, <1>2, <1>3, <1>4, <1>5, <1>6

\* The session's time is up.
LEMMA LapseStep ==
  ASSUME PaymentInv, Lapse
  PROVE  PaymentInv'
<1> USE DEF PaymentInv
<1>1. PaymentTypeOK'
  BY DEF Lapse, rowVars, hookVars, bookVars, PaymentTypeOK
<1>2. EventsAreTrue'
  BY DEF Lapse, rowVars, hookVars, bookVars, PaymentTypeOK, EventsAreTrue
<1>3. HandlersAreSaved'
  BY DEF Lapse, rowVars, hookVars, bookVars, HandlersAreSaved, OneHandlerPerEvent
<1>4. RowsAreTrue'
  BY DEF Lapse, rowVars, hookVars, bookVars, PaymentTypeOK, RowsAreTrue
<1>5. AnswersAreTrue'
  BY DEF Lapse, rowVars, hookVars, bookVars, PaymentTypeOK, AnswersAreTrue, AnswerIsTrue, Polling
<1>6. NoFreeRooms'
  BY DEF Lapse, rowVars, hookVars, bookVars, PaymentTypeOK, NoFreeRooms
<1> QED BY <1>1, <1>2, <1>3, <1>4, <1>5, <1>6

-----------------------------------------------------------------------------
(* createIntent *)

\* Stripe makes an intent nobody has paid.
LEMMA CreateAtStripeStep ==
  ASSUME PaymentInv, NEW i \in Intents, CreateAtStripe(i)
  PROVE  PaymentInv'
<1> USE DEF PaymentInv
<1>1. PaymentTypeOK'
  BY DEF CreateAtStripe, hookVars, bookVars, PaymentTypeOK, StripeStatus
<1>2. EventsAreTrue'
  BY DEF CreateAtStripe, hookVars, bookVars, PaymentTypeOK, EventsAreTrue
<1>3. HandlersAreSaved'
  BY DEF CreateAtStripe, hookVars, bookVars, HandlersAreSaved, OneHandlerPerEvent
<1>4. RowsAreTrue'
  BY DEF CreateAtStripe, hookVars, bookVars, PaymentTypeOK, RowsAreTrue
<1>5. AnswersAreTrue'
  BY DEF CreateAtStripe, hookVars, bookVars, PaymentTypeOK, AnswersAreTrue, AnswerIsTrue, Polling
<1>6. NoFreeRooms'
  BY DEF CreateAtStripe, hookVars, bookVars, PaymentTypeOK, NoFreeRooms
<1> QED BY <1>1, <1>2, <1>3, <1>4, <1>5, <1>6

\* The row gets the status Stripe has answered.
LEMMA CreateRowStep ==
  ASSUME PaymentInv, NEW i \in Intents, createFromStripe(i)
  PROVE  PaymentInv'
<1> USE DEF PaymentInv
<1>1. PaymentTypeOK'
  BY DEF createFromStripe, hookVars, bookVars, PaymentTypeOK, translate, RowStatus
<1>2. EventsAreTrue'
  BY DEF createFromStripe, hookVars, bookVars, PaymentTypeOK, EventsAreTrue
<1>3. HandlersAreSaved'
  BY DEF createFromStripe, hookVars, bookVars, HandlersAreSaved, OneHandlerPerEvent
<1>4. RowsAreTrue'
  BY DEF createFromStripe, hookVars, bookVars, PaymentTypeOK, RowsAreTrue, translate
<1>5. AnswersAreTrue'
  BY DEF createFromStripe, hookVars, bookVars, PaymentTypeOK, AnswersAreTrue, AnswerIsTrue, Polling
<1>6. NoFreeRooms'
  BY DEF createFromStripe, hookVars, bookVars, PaymentTypeOK, NoFreeRooms
<1> QED BY <1>1, <1>2, <1>3, <1>4, <1>5, <1>6

\* The row is never inserted.
LEMMA CreateLostStep ==
  ASSUME PaymentInv, NEW i \in Intents, CreateLost(i)
  PROVE  PaymentInv'
<1> USE DEF PaymentInv
<1>1. PaymentTypeOK'
  BY LimitAssumption DEF CreateLost, hookVars, bookVars, PaymentTypeOK
<1>2. EventsAreTrue'
  BY DEF CreateLost, hookVars, bookVars, PaymentTypeOK, EventsAreTrue
<1>3. HandlersAreSaved'
  BY DEF CreateLost, hookVars, bookVars, HandlersAreSaved, OneHandlerPerEvent
<1>4. RowsAreTrue'
  BY DEF CreateLost, hookVars, bookVars, PaymentTypeOK, RowsAreTrue
<1>5. AnswersAreTrue'
  BY DEF CreateLost, hookVars, bookVars, PaymentTypeOK, AnswersAreTrue, AnswerIsTrue, Polling
<1>6. NoFreeRooms'
  BY DEF CreateLost, hookVars, bookVars, PaymentTypeOK, NoFreeRooms
<1> QED BY <1>1, <1>2, <1>3, <1>4, <1>5, <1>6

-----------------------------------------------------------------------------
(* The webhook *)

\* An event arrives.
LEMMA DeliverStep ==
  ASSUME PaymentInv, NEW h \in Hooks, NEW e \in emitted, Deliver(h, e)
  PROVE  PaymentInv'
<1> USE DEF PaymentInv
<1>1. PaymentTypeOK'
  BY DEF Deliver, rowVars, bookVars, PaymentTypeOK, Handling, NoHook, HookPc
<1>2. EventsAreTrue'
  BY DEF Deliver, rowVars, bookVars, PaymentTypeOK, EventsAreTrue
<1>3. HandlersAreSaved'
  BY EventAssumption DEF Deliver, rowVars, bookVars, HandlersAreSaved, OneHandlerPerEvent, NoHook, PaymentTypeOK, Handling
<1>4. RowsAreTrue'
  BY DEF Deliver, rowVars, bookVars, PaymentTypeOK, RowsAreTrue
<1>5. AnswersAreTrue'
  BY DEF Deliver, rowVars, bookVars, PaymentTypeOK, AnswersAreTrue, AnswerIsTrue, Polling
<1>6. NoFreeRooms'
  BY DEF Deliver, rowVars, bookVars, PaymentTypeOK, NoFreeRooms
<1> QED BY <1>1, <1>2, <1>3, <1>4, <1>5, <1>6

\* The intent of an event is looked up.
LEMMA FindIntentStep ==
  ASSUME PaymentInv, NEW h \in Hooks, FindIntent(h)
  PROVE  PaymentInv'
<1> USE DEF PaymentInv
<1>1. PaymentTypeOK'
  BY DEF FindIntent, Answer2xx, rowVars, bookVars, PaymentTypeOK, Handling, NoHook, HookPc, HandlersAreSaved
<1>2. EventsAreTrue'
  BY DEF FindIntent, Answer2xx, rowVars, bookVars, PaymentTypeOK, EventsAreTrue
<1>3. HandlersAreSaved'
  BY EventAssumption DEF FindIntent, Answer2xx, rowVars, bookVars, HandlersAreSaved, OneHandlerPerEvent, NoHook, PaymentTypeOK, Handling, Events
<1>4. RowsAreTrue'
  BY DEF FindIntent, Answer2xx, rowVars, bookVars, PaymentTypeOK, RowsAreTrue
<1>5. AnswersAreTrue'
  BY DEF FindIntent, Answer2xx, rowVars, bookVars, PaymentTypeOK, AnswersAreTrue, AnswerIsTrue, Polling
<1>6. NoFreeRooms'
  BY DEF FindIntent, Answer2xx, rowVars, bookVars, PaymentTypeOK, NoFreeRooms
<1> QED BY <1>1, <1>2, <1>3, <1>4, <1>5, <1>6

\* The row gets the event's status.
LEMMA TransitionStep ==
  ASSUME PaymentInv, NEW h \in Hooks, TransitionStatus(h)
  PROVE  PaymentInv'
<1> USE DEF PaymentInv
<1>1. PaymentTypeOK'
  BY DEF TransitionStatus, Answer2xx, bookVars, PaymentTypeOK, Handling, NoHook, HookPc, HandlersAreSaved, Events, RowStatus
<1>2. EventsAreTrue'
  BY DEF TransitionStatus, Answer2xx, bookVars, PaymentTypeOK, EventsAreTrue
<1>3. HandlersAreSaved'
  BY EventAssumption DEF TransitionStatus, Answer2xx, bookVars, HandlersAreSaved, OneHandlerPerEvent, NoHook, PaymentTypeOK, Handling, Events
<1>4. RowsAreTrue'
  BY DEF TransitionStatus, Answer2xx, bookVars, PaymentTypeOK, RowsAreTrue, EventsAreTrue, Handling, NoHook, Events
<1>5. AnswersAreTrue'
  BY DEF TransitionStatus, Answer2xx, bookVars, PaymentTypeOK, AnswersAreTrue, AnswerIsTrue, Polling
<1>6. NoFreeRooms'
  BY DEF TransitionStatus, Answer2xx, bookVars, PaymentTypeOK, NoFreeRooms
<1> QED BY <1>1, <1>2, <1>3, <1>4, <1>5, <1>6

\* The reservation module is asked to confirm.
LEMMA ConfirmStep ==
  ASSUME PaymentInv, NEW h \in Hooks, Confirm(h)
  PROVE  PaymentInv'
<1> USE DEF PaymentInv
<1>1. PaymentTypeOK'
  BY DEF Confirm, ConfirmReservation, Answer2xx, rowVars, PaymentTypeOK, Handling, NoHook, HookPc, HandlersAreSaved, Events
<1>2. EventsAreTrue'
  BY DEF Confirm, ConfirmReservation, Answer2xx, rowVars, PaymentTypeOK, EventsAreTrue
<1>3. HandlersAreSaved'
  BY EventAssumption DEF Confirm, ConfirmReservation, Answer2xx, rowVars, HandlersAreSaved, OneHandlerPerEvent, NoHook, PaymentTypeOK, Handling, Events
<1>4. RowsAreTrue'
  BY DEF Confirm, ConfirmReservation, Answer2xx, rowVars, PaymentTypeOK, RowsAreTrue
<1>5. AnswersAreTrue'
  BY DEF Confirm, ConfirmReservation, Answer2xx, rowVars, PaymentTypeOK, AnswersAreTrue, AnswerIsTrue, Polling
<1>6. NoFreeRooms'
  BY DEF Confirm, ConfirmReservation, Answer2xx, rowVars, PaymentTypeOK, NoFreeRooms, EventsAreTrue, HandlersAreSaved, Handling, NoHook, Events
<1> QED BY <1>1, <1>2, <1>3, <1>4, <1>5, <1>6

\* A delivery is lost.
LEMMA HookLostStep ==
  ASSUME PaymentInv, NEW h \in Hooks, HookLost(h)
  PROVE  PaymentInv'
<1> USE DEF PaymentInv
<1>1. PaymentTypeOK'
  BY LimitAssumption DEF HookLost, rowVars, bookVars, PaymentTypeOK, Handling, NoHook, HookPc, Events
<1>2. EventsAreTrue'
  BY DEF HookLost, rowVars, bookVars, PaymentTypeOK, EventsAreTrue
<1>3. HandlersAreSaved'
  BY EventAssumption DEF HookLost, rowVars, bookVars, HandlersAreSaved, OneHandlerPerEvent, NoHook, PaymentTypeOK, Handling, Events
<1>4. RowsAreTrue'
  BY DEF HookLost, rowVars, bookVars, PaymentTypeOK, RowsAreTrue
<1>5. AnswersAreTrue'
  BY DEF HookLost, rowVars, bookVars, PaymentTypeOK, AnswersAreTrue, AnswerIsTrue, Polling
<1>6. NoFreeRooms'
  BY DEF HookLost, rowVars, bookVars, PaymentTypeOK, NoFreeRooms
<1> QED BY <1>1, <1>2, <1>3, <1>4, <1>5, <1>6

-----------------------------------------------------------------------------
(* Status requests *)

\* A request moves on and nothing else changes.
LEMMA PollMoves ==
  ASSUME PaymentInv, NEW p \in Polls, NEW r \in Polling,
         poll' = [poll EXCEPT ![p] = r],
         r.pc # "idle" => r.intent # NONE /\ AnswerIsTrue(r),
         UNCHANGED <<rowVars, hookVars, lapsed, bookVars>>, crashes' \in 0..MaxCrashes
  PROVE  PaymentInv'
<1> USE DEF PaymentInv, rowVars, hookVars, bookVars
<1>1. PaymentTypeOK'
  BY DEF PaymentTypeOK
<1>2. EventsAreTrue' /\ RowsAreTrue' /\ NoFreeRooms'
  BY DEF EventsAreTrue, RowsAreTrue, NoFreeRooms
<1>3. HandlersAreSaved'
  BY DEF HandlersAreSaved, OneHandlerPerEvent
<1>4. AnswersAreTrue'
  BY DEF PaymentTypeOK, AnswersAreTrue, AnswerIsTrue
<1> QED BY <1>1, <1>2, <1>3, <1>4

\* A request is answered, or dropped with its page.
LEMMA Answering ==
  ASSUME PaymentTypeOK, NEW p \in Polls, poll[p].pc # "idle",
         NEW a \in Answers, AnswerPoll(p, a)
  PROVE  \E r \in Polling :
           /\ poll' = [poll EXCEPT ![p] = r]
           /\ r.pc = "idle" \/ (/\ r.pc = "answered" /\ r.answer = a
                               /\ r.caller = poll[p].caller
                               /\ r.intent = poll[p].intent /\ r.intent # NONE)
<1> DEFINE answered == [poll[p] EXCEPT !.pc = "answered", !.answer = a, !.seen = "none"]
<1>1. NoPoll \in Polling
  BY DEF NoPoll, Polling, RowStatus, Answers, Callers
<1>2. /\ answered \in Polling /\ answered.pc = "answered" /\ answered.answer = a
      /\ answered.intent = poll[p].intent /\ answered.caller = poll[p].caller
  BY ZenonT(60) DEF PaymentTypeOK, Polling, PollPc, RowStatus
<1>3. poll[p].intent # NONE
  BY DEF PaymentTypeOK
<1> HIDE DEF answered
<1>4. poll' = [poll EXCEPT ![p] = IF poll[p].caller = "closed" THEN NoPoll ELSE answered]
  BY DEF AnswerPoll, answered
<1>5. CASE poll[p].caller = "closed"
  <2>1. poll' = [poll EXCEPT ![p] = NoPoll] /\ NoPoll.pc = "idle"
    BY <1>4, <1>5 DEF NoPoll
  <2> QED BY <1>1, <2>1
<1>6. CASE poll[p].caller # "closed"
  <2>1. poll' = [poll EXCEPT ![p] = answered]
    BY <1>4, <1>6
  <2> QED BY <1>2, <1>3, <2>1
<1> QED BY <1>5, <1>6

\* An answer that is true, and nothing else changes.
LEMMA AnsweringOK ==
  ASSUME PaymentInv, NEW p \in Polls, poll[p].pc # "idle",
         NEW a \in Answers, AnswerPoll(p, a),
         AnswerIsTrue([poll[p] EXCEPT !.pc = "answered", !.answer = a]),
         UNCHANGED <<rowVars, hookVars, lapsed, bookVars>>, crashes' \in 0..MaxCrashes
  PROVE  PaymentInv'
<1>1. PICK r \in Polling :
           /\ poll' = [poll EXCEPT ![p] = r]
           /\ r.pc = "idle" \/ (/\ r.pc = "answered" /\ r.answer = a
                               /\ r.intent = poll[p].intent /\ r.intent # NONE)
  BY Answering DEF PaymentInv
<1>2. r.pc # "idle" => r.intent # NONE /\ AnswerIsTrue(r)
  BY <1>1 DEF PaymentInv, PaymentTypeOK, Polling, AnswerIsTrue
<1> QED BY <1>1, <1>2, PollMoves

\* A status is asked for.
LEMMA RequestStep ==
  ASSUME PaymentInv, NEW p \in Polls, NEW i \in Intents, Request(p, i)
  PROVE  PaymentInv'
<1> DEFINE r == [NoPoll EXCEPT !.pc = IF lapsed THEN "answered" ELSE "read", !.intent = i,
                           !.answer = IF lapsed THEN "gone" ELSE "none"]
<1>1. poll' = [poll EXCEPT ![p] = r] /\ UNCHANGED <<rowVars, hookVars, lapsed, bookVars, crashes>>
  BY IntentAssumption DEF Request, NoPoll, PaymentInv, PaymentTypeOK, Polling
<1>2. r \in Polling /\ (r.pc # "idle" => r.intent # NONE /\ AnswerIsTrue(r))
  BY IntentAssumption DEF Request, NoPoll, PaymentInv, PaymentTypeOK, Polling, PollPc, Answers, AnswersAreTrue, AnswerIsTrue, RowStatus, Callers
<1>3. crashes' \in 0..MaxCrashes
  BY <1>1 DEF PaymentInv, PaymentTypeOK
<1> HIDE DEF r
<1> QED BY <1>1, <1>2, <1>3, PollMoves

\* The row is read.
LEMMA ReadStep ==
  ASSUME PaymentInv, NEW p \in Polls, ReadStatus(p)
  PROVE  PaymentInv'
<1> USE DEF ReadStatus
<1>1. poll[p].pc # "idle" /\ crashes' \in 0..MaxCrashes
  BY DEF PaymentInv, PaymentTypeOK
<1>2. CASE row[poll[p].intent] = "pending" /\ poll[p].intent \in aged
  <2> DEFINE r == [poll[p] EXCEPT !.pc = "reread"]
  <2>1. poll' = [poll EXCEPT ![p] = r]
    BY <1>2 DEF PaymentInv, PaymentTypeOK, Polling
  <2>2. r \in Polling /\ r.intent # NONE /\ AnswerIsTrue(r)
    BY <1>1, <1>2 DEF PaymentInv, PaymentTypeOK, Polling, PollPc, Answers, RowStatus,
                      AnswersAreTrue, AnswerIsTrue
  <2> HIDE DEF r
  <2> QED BY <1>1, <2>1, <2>2, PollMoves
<1>3. CASE ~(row[poll[p].intent] = "pending" /\ poll[p].intent \in aged)
  <2> DEFINE a == row[poll[p].intent]
  <2>1. AnswerPoll(p, a)
    BY <1>3
  <2>2. a \in Answers /\ AnswerIsTrue([poll[p] EXCEPT !.pc = "answered", !.answer = a])
    BY <1>1, <1>3 DEF PaymentInv, PaymentTypeOK, Polling, Answers, RowStatus, Terminal,
                      AnswersAreTrue, AnswerIsTrue, RowsAreTrue
  <2> HIDE DEF a
  <2> QED BY <1>1, <2>1, <2>2, AnsweringOK
<1> QED BY <1>2, <1>3

\* It is read again before Stripe is asked.
LEMMA RereadStep ==
  ASSUME PaymentInv, NEW p \in Polls, refreshFromProvider(p)
  PROVE  PaymentInv'
<1> USE DEF refreshFromProvider
<1>1. poll[p].pc # "idle" /\ crashes' \in 0..MaxCrashes
  BY DEF PaymentInv, PaymentTypeOK
<1>2. CASE row[poll[p].intent] \notin Terminal
  <2> DEFINE r == [poll[p] EXCEPT !.pc = "retrieve", !.seen = row[poll[p].intent]]
  <2>1. poll' = [poll EXCEPT ![p] = r]
    BY <1>2 DEF PaymentInv, PaymentTypeOK, Polling
  <2>2. r \in Polling /\ r.intent # NONE /\ AnswerIsTrue(r)
    BY ZenonT(60), <1>1, <1>2 DEF PaymentInv, PaymentTypeOK, Polling, PollPc, Answers, RowStatus,
                      AnswersAreTrue, AnswerIsTrue
  <2> HIDE DEF r
  <2> QED BY <1>1, <2>1, <2>2, PollMoves
<1>3. CASE ~(row[poll[p].intent] \notin Terminal)
  <2> DEFINE a == row[poll[p].intent]
  <2>1. AnswerPoll(p, a)
    BY <1>3
  <2>2. a \in Answers /\ AnswerIsTrue([poll[p] EXCEPT !.pc = "answered", !.answer = a])
    BY <1>1, <1>3 DEF PaymentInv, PaymentTypeOK, Polling, Answers, RowStatus, Terminal,
                      AnswersAreTrue, AnswerIsTrue, RowsAreTrue
  <2> HIDE DEF a
  <2> QED BY <1>1, <2>1, <2>2, AnsweringOK
<1> QED BY <1>2, <1>3

\* Stripe answers.
LEMMA RetrieveStep ==
  ASSUME PaymentInv, NEW p \in Polls, Retrieve(p)
  PROVE  PaymentInv'
<1> USE DEF Retrieve
<1>1. poll[p].pc # "idle" /\ crashes' \in 0..MaxCrashes
  BY DEF PaymentInv, PaymentTypeOK
<1>2. CASE translate(stripe[poll[p].intent]) # poll[p].seen
  <2> DEFINE r == [poll[p] EXCEPT !.pc = "write", !.answer = translate(stripe[poll[p].intent])]
  <2>1. poll' = [poll EXCEPT ![p] = r]
    BY <1>2 DEF PaymentInv, PaymentTypeOK, Polling
  <2>2. r \in Polling /\ r.intent # NONE /\ AnswerIsTrue(r)
    BY ZenonT(60), <1>1, <1>2 DEF PaymentInv, PaymentTypeOK, Polling, PollPc, Answers, RowStatus,
                      AnswersAreTrue, AnswerIsTrue, translate
  <2> HIDE DEF r
  <2> QED BY <1>1, <2>1, <2>2, PollMoves
<1>3. CASE ~(translate(stripe[poll[p].intent]) # poll[p].seen)
  <2> DEFINE a == translate(stripe[poll[p].intent])
  <2>1. AnswerPoll(p, a)
    BY <1>3
  <2>2. a \in Answers /\ AnswerIsTrue([poll[p] EXCEPT !.pc = "answered", !.answer = a])
    BY <1>1, <1>3 DEF PaymentInv, PaymentTypeOK, Polling, Answers, RowStatus, Terminal,
                      AnswersAreTrue, AnswerIsTrue, RowsAreTrue, translate
  <2> HIDE DEF a
  <2> QED BY <1>1, <2>1, <2>2, AnsweringOK
<1> QED BY <1>2, <1>3

\* A request is lost.
LEMMA PollLostStep ==
  ASSUME PaymentInv, NEW p \in Polls, PollLost(p)
  PROVE  PaymentInv'
<1>1. /\ poll[p].pc # "idle" /\ AnswerPoll(p, "error") /\ crashes' \in 0..MaxCrashes
      /\ UNCHANGED <<rowVars, hookVars, lapsed, bookVars>>
  BY LimitAssumption DEF PollLost, PollPc, PaymentInv, PaymentTypeOK
<1>2. AnswerIsTrue([poll[p] EXCEPT !.pc = "answered", !.answer = "error"])
  BY DEF PaymentInv, PaymentTypeOK, Polling, AnswerIsTrue
<1>3. "error" \in Answers
  BY DEF Answers
<1> QED BY <1>1, <1>2, <1>3, AnsweringOK

\* The page takes an answer.
LEMMA CollectStep ==
  ASSUME PaymentInv, NEW p \in Polls, Collect(p)
  PROVE  PaymentInv'
<1> DEFINE r == NoPoll
<1>1. poll' = [poll EXCEPT ![p] = r] /\ UNCHANGED <<rowVars, hookVars, lapsed, bookVars, crashes>>
  BY DEF Collect, NoPoll, PaymentInv, PaymentTypeOK, Polling
<1>2. r \in Polling /\ (r.pc # "idle" => r.intent # NONE /\ AnswerIsTrue(r))
  BY DEF Collect, NoPoll, PaymentInv, PaymentTypeOK, Polling, PollPc, Answers, AnswersAreTrue, AnswerIsTrue, RowStatus, Callers
<1>3. crashes' \in 0..MaxCrashes
  BY <1>1 DEF PaymentInv, PaymentTypeOK
<1> HIDE DEF r
<1> QED BY <1>1, <1>2, <1>3, PollMoves

\* The page goes on to the confirmation.
LEMMA SendStep ==
  ASSUME PaymentInv, NEW p \in Polls, SendConfirmation(p)
  PROVE  PaymentInv'
<1> DEFINE r == [poll[p] EXCEPT !.pc = "confirm"]
<1>1. poll' = [poll EXCEPT ![p] = r] /\ UNCHANGED <<rowVars, hookVars, lapsed, bookVars, crashes>>
  BY DEF SendConfirmation, PaymentInv, PaymentTypeOK, Polling
<1>2. r \in Polling /\ (r.pc # "idle" => r.intent # NONE /\ AnswerIsTrue(r))
  BY DEF SendConfirmation, PaymentInv, PaymentTypeOK, Polling, PollPc, Answers, AnswersAreTrue, AnswerIsTrue
<1>3. crashes' \in 0..MaxCrashes
  BY <1>1 DEF PaymentInv, PaymentTypeOK
<1> HIDE DEF r
<1> QED BY <1>1, <1>2, <1>3, PollMoves

\* Stripe's answer is stored.
LEMMA StoreStep ==
  ASSUME PaymentInv, NEW p \in Polls, StoreRefreshed(p)
  PROVE  PaymentInv'
<1> USE DEF PaymentInv, hookVars, bookVars
<1> DEFINE a == poll[p].answer
<1> DEFINE j == poll[p].intent
<1>1. /\ a \in RowStatus \ {"none"} /\ j \in Intents
      /\ a = "succeeded" => stripe[j] = "succeeded"
      /\ a = "failed" => declines[j] > 0
      /\ a = "cancelled" => stripe[j] = "canceled"
  BY DEF StoreRefreshed, PaymentTypeOK, Polling, AnswersAreTrue, AnswerIsTrue
<1>2. PICK r \in Polling :
           /\ poll' = [poll EXCEPT ![p] = r]
           /\ r.pc = "idle" \/ (/\ r.pc = "answered" /\ r.answer = a
                               /\ r.intent = j /\ r.intent # NONE)
  <2>1. a \in Answers /\ poll[p].pc # "idle" /\ AnswerPoll(p, a)
    BY <1>1 DEF StoreRefreshed, Answers
  <2> QED BY <2>1, Answering
<1>3. /\ row' = [row EXCEPT ![j] = a]
      /\ UNCHANGED <<stripe, creating, known, aged, declines, hookVars, lapsed, bookVars, crashes>>
  BY DEF StoreRefreshed
<1> HIDE DEF a, j
<1>4. PaymentTypeOK'
  BY <1>1, <1>2, <1>3 DEF PaymentTypeOK
<1>5. EventsAreTrue' /\ NoFreeRooms'
  BY <1>3 DEF EventsAreTrue, NoFreeRooms
<1>6. HandlersAreSaved'
  BY <1>3 DEF HandlersAreSaved, OneHandlerPerEvent
<1>7. RowsAreTrue'
  BY <1>1, <1>3 DEF PaymentTypeOK, RowsAreTrue
<1>8. AnswersAreTrue'
  BY <1>1, <1>2, <1>3 DEF PaymentTypeOK, AnswersAreTrue, AnswerIsTrue, RowStatus
<1> QED BY <1>4, <1>5, <1>6, <1>7, <1>8

\* The page asks for the confirmation of an intent whose row says succeeded.
LEMMA ConfirmBookingStep ==
  ASSUME PaymentInv, NEW p \in Polls, ConfirmBooking(p)
  PROVE  PaymentInv'
<1> USE DEF PaymentInv, rowVars, hookVars, bookVars
<1> DEFINE j == poll[p].intent
<1>1. j \in Intents /\ UNCHANGED <<rowVars, hookVars, lapsed, crashes>>
  BY DEF ConfirmBooking, PaymentTypeOK, Polling
<1>2. /\ tried \subseteq tried' /\ tried' \subseteq tried \cup {j}
      /\ booked \subseteq booked' /\ booked' \subseteq booked \cup {j} /\ booked' \subseteq tried'
      /\ booked' # booked => row[j] = "succeeded"
  BY DEF ConfirmBooking, ConfirmReservation, PaymentTypeOK
<1>3. \E a \in {"ok", "error"} : AnswerPoll(p, a) /\ (a = "ok" => j \in booked')
  BY DEF ConfirmBooking
<1>4. PICK r \in Polling :
           /\ poll' = [poll EXCEPT ![p] = r]
           /\ r.pc # "idle" => /\ r.pc = "answered" /\ r.intent = j /\ r.intent # NONE
                               /\ r.answer = "error" \/ (r.answer = "ok" /\ j \in booked')
  <2>1. PICK a \in {"ok", "error"} : AnswerPoll(p, a) /\ (a = "ok" => j \in booked')
    BY <1>3
  <2>2. a \in Answers /\ poll[p].pc # "idle"
    BY DEF ConfirmBooking, Answers
  <2> QED BY <2>1, <2>2, Answering
<1> HIDE DEF j
<1>5. PaymentTypeOK'
  <2>1. /\ poll' \in [Polls -> Polling]
        /\ \A q \in Polls : poll'[q].pc # "idle" => poll'[q].intent # NONE
    BY <1>4 DEF PaymentTypeOK
  <2>2. tried' \subseteq Intents /\ booked' \subseteq tried'
    BY <1>1, <1>2 DEF PaymentTypeOK
  <2> QED BY <1>1, <2>1, <2>2 DEF PaymentTypeOK
<1>6. EventsAreTrue' /\ RowsAreTrue'
  BY <1>1 DEF EventsAreTrue, RowsAreTrue
<1>7. HandlersAreSaved'
  BY <1>1 DEF HandlersAreSaved, OneHandlerPerEvent
<1>8. NoFreeRooms'
  BY <1>1, <1>2 DEF NoFreeRooms, RowsAreTrue
<1>9. AnswersAreTrue'
  <2> SUFFICES ASSUME NEW q \in Polls, poll'[q].pc # "idle"
               PROVE  AnswerIsTrue(poll[q])'
    BY DEF AnswersAreTrue
  <2>1. CASE q = p
    BY <1>4, <2>1 DEF PaymentTypeOK, AnswerIsTrue
  <2>2. CASE q # p
    <3>1. poll'[q] = poll[q]
      BY <1>4, <2>2 DEF PaymentTypeOK
    <3> QED BY <1>1, <1>2, <3>1 DEF AnswersAreTrue, AnswerIsTrue
  <2> QED BY <2>1, <2>2
<1> QED BY <1>5, <1>6, <1>7, <1>8, <1>9

\* The page stops waiting.
LEMMA DetachStep ==
  ASSUME PaymentInv, NEW c \in Callers, Detach(c)
  PROVE  PaymentInv'
<1> USE DEF PaymentInv, rowVars, hookVars, bookVars
<1>1. UNCHANGED <<rowVars, hookVars, lapsed, bookVars, crashes>>
  BY DEF Detach
<1>2. /\ poll' \in [Polls -> Polling]
      /\ \A p \in Polls : poll'[p].pc # "idle" =>
            /\ poll'[p].pc = poll[p].pc /\ poll'[p].intent = poll[p].intent
            /\ poll'[p].answer = poll[p].answer
  <2> DEFINE next(p) == IF poll[p].caller = "closed" \/ poll[p].pc = "idle" THEN poll[p]
                        ELSE IF poll[p].pc = "answered" /\ c = "closed" THEN NoPoll
                        ELSE [poll[p] EXCEPT !.caller = c]
  <2>1. poll' = [p \in Polls |-> next(p)]
    BY DEF Detach
  <2>2. ASSUME NEW p \in Polls
        PROVE  /\ next(p) \in Polling
               /\ next(p).pc # "idle" =>
                    /\ next(p).pc = poll[p].pc /\ next(p).intent = poll[p].intent
                    /\ next(p).answer = poll[p].answer
    <3>1. poll[p] \in Polling
      BY DEF PaymentTypeOK
    <3>2. NoPoll \in Polling /\ NoPoll.pc = "idle"
      BY DEF NoPoll, Polling, RowStatus, Answers, Callers
    <3> QED BY <3>1, <3>2 DEF Polling
  <2> HIDE DEF next
  <2> QED BY <2>1, <2>2
<1>3. PaymentTypeOK'
  BY <1>1, <1>2 DEF PaymentTypeOK
<1>4. EventsAreTrue' /\ RowsAreTrue' /\ NoFreeRooms'
  BY <1>1 DEF EventsAreTrue, RowsAreTrue, NoFreeRooms
<1>5. HandlersAreSaved'
  BY <1>1 DEF HandlersAreSaved, OneHandlerPerEvent
<1>6. AnswersAreTrue'
  BY <1>1, <1>2 DEF AnswersAreTrue, AnswerIsTrue
<1> QED BY <1>3, <1>4, <1>5, <1>6

-----------------------------------------------------------------------------
(* Every step, and the theorems *)

\* The invariant holds at the start.
LEMMA PaymentInvInit ==
  ASSUME PaymentInit
  PROVE  PaymentInv
<1> USE DEF PaymentInit
<1>1. NoPoll \in Polling /\ NoPoll.pc = "idle"
  BY DEF NoPoll, Polling, RowStatus, Answers, Callers
<1>2. PaymentTypeOK
  <2>1. stripe \in [Intents -> StripeStatus] /\ row \in [Intents -> RowStatus]
    BY DEF StripeStatus, RowStatus
  <2>2. declines \in [Intents -> 0..MaxDeclines] /\ crashes \in 0..MaxCrashes
    BY LimitAssumption
  <2>3. /\ poll \in [Polls -> Polling]
        /\ \A p \in Polls : poll[p].pc # "idle" => poll[p].intent # NONE
    BY <1>1
  <2>4. /\ hook \in [Hooks -> Handling \cup {NoHook}]
        /\ \A h \in Hooks : hook[h] # NoHook => hook[h].event \in emitted
    OBVIOUS
  <2> QED BY <2>1, <2>2, <2>3, <2>4 DEF PaymentTypeOK
<1>3. EventsAreTrue /\ RowsAreTrue /\ NoFreeRooms
  BY DEF EventsAreTrue, RowsAreTrue, NoFreeRooms
<1>4. HandlersAreSaved
  BY DEF HandlersAreSaved, OneHandlerPerEvent, NoHook
<1>5. AnswersAreTrue
  BY <1>1 DEF AnswersAreTrue
<1> QED BY <1>2, <1>3, <1>4, <1>5 DEF PaymentInv

\* Every step of the module keeps it.
LEMMA PaymentInvStep ==
  ASSUME PaymentInv, [PaymentNext]_payVars
  PROVE  PaymentInv'
<1>1. CASE UNCHANGED payVars
  BY <1>1 DEF payVars, PaymentInv, PaymentTypeOK, EventsAreTrue, HandlersAreSaved,
              OneHandlerPerEvent, RowsAreTrue, AnswersAreTrue, AnswerIsTrue, NoFreeRooms
<1>2. CASE \E i \in Intents : Pay(i) \/ Cancel(i) \/ Age(i) \/ Create(i)
  BY <1>2, PayStep, CancelStep, AgeStep, CreateAtStripeStep, CreateRowStep, CreateLostStep
     DEF Create
<1>3. CASE \E h \in Hooks : Webhook(h)
  BY <1>3, DeliverStep, FindIntentStep, TransitionStep, ConfirmStep, HookLostStep
     DEF Webhook
<1>4. CASE \E p \in Polls : Status(p) \/ Collect(p) \/ SendConfirmation(p)
  BY <1>4, ReadStep, RereadStep, RetrieveStep, StoreStep, ConfirmBookingStep,
     PollLostStep, CollectStep, SendStep
     DEF Status
<1>5. CASE \E p \in Polls, i \in Intents : Request(p, i)
  BY <1>5, RequestStep
<1>6. CASE Lapse \/ Detach("unmounted") \/ Detach("closed")
  BY <1>6, LapseStep, DetachStep DEF Callers
<1> QED BY <1>1, <1>2, <1>3, <1>4, <1>5, <1>6 DEF PaymentNext

\* The invariant holds in every state of the payment module.
THEOREM PaymentInvariant == PaymentSpec => []PaymentInv
<1>1. PaymentInit => PaymentInv
  BY PaymentInvInit
<1>2. PaymentInv /\ [PaymentNext]_payVars => PaymentInv'
  BY PaymentInvStep
<1> QED BY <1>1, <1>2, PTL DEF PaymentSpec

\* What the invariant says of rooms, rows, charges and deliveries.
LEMMA PaymentInvMeans ==
  PaymentInv => /\ PaymentTypeOK /\ NoFreeRooms /\ SucceededIsCharged
                /\ ChargeIsRecorded /\ OneHandlerPerEvent
BY DEF PaymentInv, RowsAreTrue, HandlersAreSaved, SucceededIsCharged, ChargeIsRecorded

\* Intents, rows, events, handlers and requests keep their types.
THEOREM PaymentTypeCorrect == PaymentSpec => []PaymentTypeOK
BY PaymentInvariant, PaymentInvMeans, PTL

\* A reservation is confirmed only for an intent Stripe has charged, whatever
\* order the webhook's events, their retries and the page's requests arrive in.
THEOREM NoRoomIsFree == PaymentSpec => []NoFreeRooms
BY PaymentInvariant, PaymentInvMeans, PTL

\* payment_intents.status says succeeded only of a charge.
THEOREM RowsDoNotInvent == PaymentSpec => []SucceededIsCharged
BY PaymentInvariant, PaymentInvMeans, PTL

\* No charge is without its row: createIntent answers after its insert.
THEOREM ChargesHaveRows == PaymentSpec => []ChargeIsRecorded
BY PaymentInvariant, PaymentInvMeans, PTL

\* The unique index on event_id lets one delivery of an event be handled.
THEOREM EventsAreHandledAlone == PaymentSpec => []OneHandlerPerEvent
BY PaymentInvariant, PaymentInvMeans, PTL
=============================================================================
