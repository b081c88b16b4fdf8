------------------------------- MODULE Payment -------------------------------
(***************************************************************************)
(* The payment module: payment intents at Stripe and in the database, the  *)
(* Stripe webhook and GET /payment/status, for the intents of one booking  *)
(* session.                                                                *)
(*                                                                         *)
(* Nothing here runs in a transaction: every awaited statement is an       *)
(* action, and a crash or a failed statement may end a handler between any *)
(* two of them.  Stripe delivers an event again until it is answered with  *)
(* 2xx, in any order, also while an earlier delivery is still running.     *)
(***************************************************************************)
EXTENDS Integers

CONSTANTS
  Intents,      \* payment intents of the session
  Hooks,        \* webhook deliveries that can run at once
  Polls,        \* status requests that can be open at once
  NONE,         \* null
  ConfirmServed,\* TRUE: POST /booking/confirmation reaches its handler
  MaxDeclines,  \* bound: declined attempts per intent
  MaxCrashes    \* bound: handlers lost to a crash or a failed call

ASSUME IntentAssumption == NONE \notin Intents
ASSUME ServedAssumption == ConfirmServed \in BOOLEAN
ASSUME LimitAssumption == MaxDeclines \in Nat /\ MaxCrashes \in Nat

VARIABLES
  stripe,    \* the status of each intent at Stripe
  row,       \* the status of each payment_intents row
  creating,  \* intents made at Stripe whose row is being inserted
  known,     \* intents whose client secret was answered to the guest
  aged,      \* rows older than STALE_THRESHOLD_MS
  declines,  \* declined attempts of each intent
  emitted,   \* events Stripe has to deliver
  acked,     \* events answered with 2xx
  saved,     \* rows of webhook_events
  hook,      \* the delivery each webhook handler works on
  poll,      \* the status requests
  lapsed,    \* the session's expiresAt has passed
  tried,     \* intents ConfirmPayment was called for
  booked,    \* intents ConfirmPayment answered ok for
  cut,       \* intents whose succeeded event was lost after its row was saved
  crashes    \* handlers lost so far

payVars == <<stripe, row, creating, known, aged, declines, emitted, acked, saved, hook,
             poll, lapsed, tried, booked, cut, crashes>>
rowVars == <<stripe, row, creating, known, aged, declines>>
hookVars == <<emitted, acked, saved, hook, cut>>
bookVars == <<tried, booked>>

-----------------------------------------------------------------------------
(* Statuses and events *)

\* Processing stands for requires_action and requires_capture too.
StripeStatus == {"none", "requires_payment_method", "processing", "succeeded",
                 "canceled"}
RowStatus == {"none", "pending", "processing", "succeeded", "failed", "cancelled"}
Terminal  == {"succeeded", "failed", "cancelled"}

translateEager(s) == CASE s \in {"processing", "succeeded"} -> "succeeded"
                       [] s = "canceled"                    -> "cancelled"
                       [] OTHER                             -> "pending"

translate(s) == CASE s = "succeeded"  -> "succeeded"
                  [] s = "processing" -> "processing"
                  [] s = "canceled"   -> "cancelled"
                  [] OTHER            -> "pending"

\* n tells the declined attempts of an intent apart.
Event(i, type, n) == [intent |-> i, type |-> type, n |-> n]
Events == [intent : Intents, type : {"succeeded", "failed", "other"},
           n : 0..MaxDeclines]

ASSUME EventAssumption == NONE \notin Events

NoHook == [pc |-> "idle", event |-> NONE]
HookPc == {"find", "write", "confirm"}
NoPoll == [pc |-> "idle", intent |-> NONE, seen |-> "none", answer |-> "none",
           caller |-> "mounted"]
PollPc == {"read", "reread", "retrieve", "write", "answered", "confirm"}
Callers == {"mounted", "unmounted", "closed"}
Answers == RowStatus \cup {"gone", "error", "ok"}

PaymentInit ==
  /\ stripe = [i \in Intents |-> "none"]
  /\ row = [i \in Intents |-> "none"]
  /\ creating = {} /\ known = {} /\ aged = {}
  /\ declines = [i \in Intents |-> 0]
  /\ emitted = {} /\ acked = {} /\ saved = {}
  /\ hook = [h \in Hooks |-> NoHook]
  /\ poll = [p \in Polls |-> NoPoll]
  /\ lapsed = FALSE
  /\ tried = {} /\ booked = {} /\ cut = {}
  /\ crashes = 0

-----------------------------------------------------------------------------
(* Stripe and the clock *)

\* A card, Pix or wallet attempt on an intent: it succeeds, stays processing,
\* is declined, and a declined intent can be paid again.  It needs the client
\* secret.
Pay(i) ==
  /\ i \in known
  /\ stripe[i] \in {"requires_payment_method", "processing"}
  /\ \/ /\ stripe' = [stripe EXCEPT ![i] = "succeeded"]
        /\ emitted' = emitted \cup {Event(i, "succeeded", 0)}
        /\ UNCHANGED declines
     \/ /\ stripe[i] # "processing"
        /\ stripe' = [stripe EXCEPT ![i] = "processing"]
        /\ UNCHANGED <<emitted, declines>>
     \/ /\ declines[i] < MaxDeclines
        /\ stripe' = [stripe EXCEPT ![i] = "requires_payment_method"]
        /\ declines' = [declines EXCEPT ![i] = @ + 1]
        /\ emitted' = emitted \cup {Event(i, "failed", declines[i] + 1)}
  /\ UNCHANGED <<row, creating, known, aged, acked, saved, hook, poll, lapsed,
                 bookVars, cut, crashes>>

\* Stripe cancels an intent nobody pays; the webhook has no branch for it.
Cancel(i) ==
  /\ stripe[i] = "requires_payment_method"
  /\ stripe' = [stripe EXCEPT ![i] = "canceled"]
  /\ emitted' = emitted \cup {Event(i, "other", 0)}
  /\ UNCHANGED <<row, creating, known, aged, declines, acked, saved, hook, poll,
                 lapsed, bookVars, cut, crashes>>

Age(i) ==
  /\ row[i] # "none" /\ i \notin aged
  /\ aged' = aged \cup {i}
  /\ UNCHANGED <<stripe, row, creating, known, declines, hookVars, poll, lapsed,
                 bookVars, crashes>>

Lapse ==
  /\ ~lapsed /\ lapsed' = TRUE
  /\ UNCHANGED <<rowVars, hookVars, poll, bookVars, crashes>>

-----------------------------------------------------------------------------
(* PaymentIntentService.createIntent: Stripe first, then the row *)

\* The intent is answered before its row is there.
CreateAnsweringFirst(i) ==
  /\ ~lapsed /\ stripe[i] = "none"
  /\ stripe' = [stripe EXCEPT ![i] = "requires_payment_method"]
  /\ creating' = creating \cup {i} /\ known' = known \cup {i}
  /\ UNCHANGED <<row, aged, declines, hookVars, poll, lapsed, bookVars, crashes>>

\* The guard of the booking endpoints has let the session through.
CreateAtStripe(i) ==
  /\ ~lapsed /\ stripe[i] = "none"
  /\ stripe' = [stripe EXCEPT ![i] = "requires_payment_method"]
  /\ creating' = creating \cup {i}
  /\ UNCHANGED <<row, known, aged, declines, hookVars, poll, lapsed, bookVars, crashes>>

createFromStripe(i) ==
  /\ i \in creating
  /\ creating' = creating \ {i} /\ known' = known \cup {i}
  /\ row' = [row EXCEPT ![i] = translate(stripe[i])]
  /\ UNCHANGED <<stripe, aged, declines, hookVars, poll, lapsed, bookVars,
                 crashes>>

\* The insert fails or the process dies: Stripe keeps an intent nobody knows.
CreateLost(i) ==
  /\ i \in creating /\ crashes < MaxCrashes
  /\ creating' = creating \ {i}
  /\ crashes' = crashes + 1
  /\ UNCHANGED <<stripe, row, known, aged, declines, hookVars, poll, lapsed, bookVars>>

-----------------------------------------------------------------------------
(* WebhookController.handleWebhook *)

Answer2xx(h) == /\ acked' = acked \cup {hook[h].event}
                /\ hook' = [hook EXCEPT ![h] = NoHook]

\* Without the unique index on event_id every delivery is handled.
DeliverUnindexed(h, e) ==
  /\ hook[h] = NoHook /\ e \in emitted
  /\ saved' = saved \cup {e}
  /\ IF e.type = "other"
       THEN acked' = acked \cup {e} /\ UNCHANGED hook
       ELSE hook' = [hook EXCEPT ![h] = [pc |-> "find", event |-> e]]
            /\ UNCHANGED acked
  /\ UNCHANGED <<rowVars, emitted, poll, lapsed, bookVars, cut, crashes>>

\* A duplicate answered with an error is delivered for ever.
DeliverRejectingDuplicates(h, e) ==
  /\ hook[h] = NoHook /\ e \in emitted /\ e \notin saved
  /\ saved' = saved \cup {e}
  /\ IF e.type = "other"
       THEN acked' = acked \cup {e} /\ UNCHANGED hook
       ELSE hook' = [hook EXCEPT ![h] = [pc |-> "find", event |-> e]]
            /\ UNCHANGED acked
  /\ UNCHANGED <<rowVars, emitted, poll, lapsed, bookVars, cut, crashes>>

\* The event's row is inserted first; a duplicate is answered at once, and so
\* is an event of a type with no branch.
Deliver(h, e) ==
  /\ hook[h] = NoHook /\ e \in emitted
  /\ saved' = saved \cup {e}
  /\ IF e \in saved \/ e.type = "other"
       THEN acked' = acked \cup {e} /\ UNCHANGED hook
       ELSE hook' = [hook EXCEPT ![h] = [pc |-> "find", event |-> e]]
            /\ UNCHANGED acked
  /\ UNCHANGED <<rowVars, emitted, poll, lapsed, bookVars, cut, crashes>>

\* A row that says succeeded is taken for handled.
FindIntentOnce(h) ==
  /\ hook[h].pc = "find"
  /\ LET e == hook[h].event
     IN  IF row[e.intent] \in {"none", e.type}
           THEN Answer2xx(h)
           ELSE hook' = [hook EXCEPT ![h].pc = "write"] /\ UNCHANGED acked
  /\ UNCHANGED <<rowVars, emitted, saved, poll, lapsed, bookVars, cut, crashes>>

\* applyWebhookTransition: an unknown intent is logged, and the row that has
\* the target already is not written again.
FindIntent(h) ==
  /\ hook[h].pc = "find"
  /\ LET e == hook[h].event
         there == row[e.intent] = e.type
     IN  IF row[e.intent] = "none" \/ (there /\ e.type = "failed")
           THEN Answer2xx(h)
           ELSE hook' = [hook EXCEPT ![h].pc = IF there THEN "confirm" ELSE "write"]
                /\ UNCHANGED acked
  /\ UNCHANGED <<rowVars, emitted, saved, poll, lapsed, bookVars, cut, crashes>>

\* processFailed goes on to the confirmation, as processSucceeded does.
TransitionAndConfirm(h) ==
  /\ hook[h].pc = "write"
  /\ row' = [row EXCEPT ![hook[h].event.intent] = hook[h].event.type]
  /\ hook' = [hook EXCEPT ![h].pc = "confirm"]
  /\ UNCHANGED <<stripe, creating, known, aged, declines, emitted, acked, saved, poll,
                 lapsed, bookVars, cut, crashes>>

\* transitionStatus writes whatever the row has become meanwhile.
TransitionStatus(h) ==
  /\ hook[h].pc = "write"
  /\ LET e == hook[h].event
     IN  /\ row' = [row EXCEPT ![e.intent] = e.type]
         /\ IF e.type = "failed"
              THEN Answer2xx(h)
              ELSE hook' = [hook EXCEPT ![h].pc = "confirm"] /\ UNCHANGED acked
  /\ UNCHANGED <<stripe, creating, known, aged, declines, emitted, saved, poll, lapsed,
                 bookVars, cut, crashes>>

\* ConfirmPayment.handle of the reservation module: ok again for what it has
\* confirmed; for the rest Booking says when it is an error.
ConfirmReservation(i) ==
  /\ tried' = tried \cup {i}
  /\ booked' \in {booked, booked \cup {i}}

\* An error of the confirmation is logged and answered 204 like success.
Confirm(h) ==
  /\ hook[h].pc = "confirm"
  /\ ConfirmReservation(hook[h].event.intent)
  /\ Answer2xx(h)
  /\ UNCHANGED <<rowVars, emitted, saved, poll, lapsed, cut, crashes>>

\* A statement fails or the process dies: Stripe sees no 2xx.
HookLost(h) ==
  /\ hook[h] # NoHook /\ crashes < MaxCrashes
  /\ cut' = cut \cup (IF hook[h].event.type = "succeeded"
                        THEN {hook[h].event.intent} ELSE {})
  /\ hook' = [hook EXCEPT ![h] = NoHook]
  /\ crashes' = crashes + 1
  /\ UNCHANGED <<rowVars, emitted, acked, saved, poll, lapsed, bookVars>>

-----------------------------------------------------------------------------
(* GET /payment/status: ReservationTokenGuard, ResolvePaymentStatus and,    *)
(* for a pending row older than 90 s, refreshFromProvider                   *)

\* Nobody takes the answer to a page that was closed.
AnswerPoll(p, a) ==
  poll' = [poll EXCEPT ![p] =
             IF @.caller = "closed" THEN NoPoll
             ELSE [@ EXCEPT !.pc = "answered", !.answer = a, !.seen = "none"]]

Request(p, i) ==
  /\ poll[p] = NoPoll /\ i \in known
  /\ poll' = [poll EXCEPT ![p] =
       [NoPoll EXCEPT !.pc = IF lapsed THEN "answered" ELSE "read", !.intent = i,
                      !.answer = IF lapsed THEN "gone" ELSE "none"]]
  /\ UNCHANGED <<rowVars, hookVars, lapsed, bookVars, crashes>>

ReadStatus(p) ==
  /\ poll[p].pc = "read"
  /\ LET i == poll[p].intent
     IN  IF row[i] = "pending" /\ i \in aged
           THEN poll' = [poll EXCEPT ![p].pc = "reread"]
           ELSE AnswerPoll(p, row[i])
  /\ UNCHANGED <<rowVars, hookVars, lapsed, bookVars, crashes>>

refreshFromProvider(p) ==
  /\ poll[p].pc = "reread"
  /\ LET s == row[poll[p].intent]
     IN  IF s \in Terminal THEN AnswerPoll(p, s)
         ELSE poll' = [poll EXCEPT ![p].pc = "retrieve", ![p].seen = s]
  /\ UNCHANGED <<rowVars, hookVars, lapsed, bookVars, crashes>>

Retrieve(p) ==
  /\ poll[p].pc = "retrieve"
  /\ LET next == translate(stripe[poll[p].intent])
     IN  IF next = poll[p].seen THEN AnswerPoll(p, next)
         ELSE poll' = [poll EXCEPT ![p].pc = "write", ![p].answer = next]
  /\ UNCHANGED <<rowVars, hookVars, lapsed, bookVars, crashes>>

StoreRefreshed(p) ==
  /\ poll[p].pc = "write"
  /\ row' = [row EXCEPT ![poll[p].intent] = poll[p].answer]
  /\ AnswerPoll(p, poll[p].answer)
  /\ UNCHANGED <<stripe, creating, known, aged, declines, hookVars, lapsed, bookVars,
                 crashes>>

\* ConfirmBookingConsumer.handle: what the page's POST /booking/confirmation
\* is meant to reach; no controller has the route.
ConfirmBooking(p) ==
  /\ poll[p].pc = "confirm"
  /\ \/ /\ ConfirmServed /\ row[poll[p].intent] = "succeeded"
        /\ ConfirmReservation(poll[p].intent)
        /\ AnswerPoll(p, IF poll[p].intent \in booked' THEN "ok" ELSE "error")
     \/ /\ ~ConfirmServed \/ row[poll[p].intent] # "succeeded"
        /\ AnswerPoll(p, "error")
        /\ UNCHANGED bookVars
  /\ UNCHANGED <<rowVars, hookVars, lapsed, crashes>>

\* The request or its answer is lost, or its handler throws.
PollLost(p) ==
  /\ poll[p].pc \in PollPc \ {"answered"} /\ crashes < MaxCrashes
  /\ AnswerPoll(p, "error")
  /\ crashes' = crashes + 1
  /\ UNCHANGED <<rowVars, hookVars, lapsed, bookVars>>

\* The caller takes the answer, and may send the confirmation next.
Collect(p) ==
  /\ poll[p].pc = "answered"
  /\ poll' = [poll EXCEPT ![p] = NoPoll]
  /\ UNCHANGED <<rowVars, hookVars, lapsed, bookVars, crashes>>

SendConfirmation(p) ==
  /\ poll[p].pc = "answered" /\ poll[p].answer = "succeeded"
  /\ poll' = [poll EXCEPT ![p].pc = "confirm"]
  /\ UNCHANGED <<rowVars, hookVars, lapsed, bookVars, crashes>>

-----------------------------------------------------------------------------
Create(i)  == CreateAtStripe(i) \/ createFromStripe(i) \/ CreateLost(i)
Webhook(h) == \/ \E e \in emitted : Deliver(h, e)
              \/ FindIntent(h) \/ TransitionStatus(h) \/ Confirm(h) \/ HookLost(h)
Status(p)  == \/ ReadStatus(p) \/ refreshFromProvider(p) \/ Retrieve(p)
              \/ StoreRefreshed(p) \/ ConfirmBooking(p) \/ PollLost(p)

\* The component that waits for the open requests is unmounted, or its page
\* closed.
Detach(c) ==
  /\ poll' = [p \in Polls |->
                IF poll[p].caller = "closed" \/ poll[p].pc = "idle" THEN poll[p]
                ELSE IF poll[p].pc = "answered" /\ c = "closed" THEN NoPoll
                ELSE [poll[p] EXCEPT !.caller = c]]
  /\ UNCHANGED <<rowVars, hookVars, lapsed, bookVars, crashes>>

PaymentNext ==
  \/ \E i \in Intents : Pay(i) \/ Cancel(i) \/ Age(i) \/ Create(i)
  \/ \E h \in Hooks : Webhook(h)
  \/ \E p \in Polls : Status(p) \/ Collect(p) \/ SendConfirmation(p)
  \/ \E p \in Polls, i \in Intents : Request(p, i)
  \/ Lapse \/ Detach("unmounted") \/ Detach("closed")

PaymentSpec == PaymentInit /\ [][PaymentNext]_payVars

\* Stripe delivers an event until it is answered with 2xx, and a handler that
\* runs goes on.  Announced are the events Pay and Cancel can emit.
Retries(e) == e \in emitted \ acked /\ \E h \in Hooks : Deliver(h, e)
Announced ==
  {Event(i, t, 0) : i \in Intents, t \in {"succeeded", "other"}}
    \cup {Event(i, "failed", n) : i \in Intents, n \in 1..MaxDeclines}
Fairness ==
  /\ \A e \in Announced : SF_payVars(Retries(e))
  /\ \A h \in Hooks : WF_payVars(FindIntent(h) \/ TransitionStatus(h) \/ Confirm(h))

PaymentFairSpec == PaymentSpec /\ Fairness

-----------------------------------------------------------------------------
(* What holds *)

Handling == [pc : HookPc, event : {e \in Events : e.type # "other"}]
Polling  == [pc : PollPc \cup {"idle"}, intent : Intents \cup {NONE}, seen : RowStatus,
             answer : Answers, caller : Callers]

\* The rows and statuses keep their types; handlers work on events Stripe sent.
PaymentTypeOK ==
  /\ stripe \in [Intents -> StripeStatus]
  /\ row \in [Intents -> RowStatus]
  /\ creating \subseteq Intents /\ known \subseteq Intents /\ aged \subseteq Intents
  /\ declines \in [Intents -> 0..MaxDeclines]
  /\ emitted \subseteq Events /\ acked \subseteq saved /\ saved \subseteq emitted
  /\ hook \in [Hooks -> Handling \cup {NoHook}]
  /\ \A h \in Hooks : hook[h] # NoHook => hook[h].event \in emitted
  /\ poll \in [Polls -> Polling]
  /\ \A p \in Polls : poll[p].pc # "idle" => poll[p].intent # NONE
  /\ lapsed \in BOOLEAN
  /\ tried \subseteq Intents /\ booked \subseteq tried /\ cut \subseteq Intents
  /\ crashes \in 0..MaxCrashes

\* No room is given away: a reservation is confirmed only for an intent Stripe
\* has charged, whatever order events, retries and polls arrive in.
NoFreeRooms == \A i \in booked : stripe[i] = "succeeded"

\* A row that says succeeded is a charge: neither the webhook nor the polling
\* fallback makes one up.
SucceededIsCharged == \A i \in Intents : row[i] = "succeeded" => stripe[i] = "succeeded"

\* Every charge has its row: an intent whose insert failed is never paid,
\* because its client secret is answered only after the insert.
ChargeIsRecorded == \A i \in Intents : stripe[i] = "succeeded" => row[i] # "none"

\* webhook_events keeps two deliveries of one event from being handled at the
\* same time.
OneHandlerPerEvent ==
  \A g, h \in Hooks : hook[g].event = hook[h].event => g = h \/ hook[g] = NoHook

\* Every event Stripe sends is answered with 2xx in the end, after crashes and
\* duplicates too, so that Stripe stops sending it.
EventsSettle == \A e \in Announced : e \in emitted ~> e \in acked

\* A charge reaches ConfirmPayment unless the handler of its event was lost
\* after the event's row was saved: the retry is then taken for a duplicate.
ChargeIsTried ==
  \A i \in Intents : stripe[i] = "succeeded" ~> i \in tried \cup cut
=============================================================================
