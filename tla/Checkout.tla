------------------------------- MODULE Checkout ------------------------------
(***************************************************************************)
(* The booking page in the browser on top of the payment module: the       *)
(* wizard of BookingRoute, PaymentStep, the polling of usePaymentStatus    *)
(* and the countdown, with every answer of the server arriving late.       *)
(***************************************************************************)
EXTENDS Payment

CONSTANT Rooms  \* rooms the page offers

ASSUME RoomsAssumption == NONE \notin Rooms

VARIABLE page  \* the page of the session's link

vars == <<payVars, page>>

\* reserved is the context's reservationId, strayed a history flag: a
\* selection was answered after the guest had left its room's details.
NewPage == [route |-> "booking", step |-> "rooms", room |-> NONE,
            selecting |-> NONE, reserved |-> NONE, strayed |-> FALSE,
            create |-> "idle", waiting |-> NONE, intent |-> NONE,
            failed |-> FALSE, active |-> TRUE, submitting |-> FALSE]

Steps == {"rooms", "details", "guest", "pay"}

Init == PaymentInit /\ page = NewPage

\* Another route: the wizard's state goes with its components.
Gone(route) == [NewPage EXCEPT !.route = route]

On(step) == page.route = "booking" /\ page.step = step
Set(p)   == page' = p
Stay     == UNCHANGED payVars

-----------------------------------------------------------------------------
(* Choosing a room *)

\* RoomSelectionStep.handleSelect
ChooseRoom(r) ==
  /\ On("rooms")
  /\ Set([page EXCEPT !.room = r, !.step = "details"]) /\ Stay

\* RoomDetailsStep.handleReserve: POST /booking/select is on its way.
\* Bound: one selection at a time, also over two visits of the step.
Reserve ==
  /\ On("details") /\ page.selecting = NONE
  /\ Set([page EXCEPT !.selecting = page.room]) /\ Stay

SelectionAnsweredAnyway ==
  /\ page.selecting # NONE
  /\ \E ok \in BOOLEAN :
       Set([page EXCEPT !.selecting = NONE, !.step = "guest",
                        !.reserved = IF ok THEN page.selecting ELSE @,
                        !.strayed = @ \/ ~On("details") \/ page.room # page.selecting])
  /\ Stay

\* The answer: onNext moves the wizard wherever the guest is by then, an
\* error leaves it there, 410 ends the booking.
SelectionAnswered ==
  /\ page.selecting # NONE
  /\ \/ Set([page EXCEPT !.selecting = NONE, !.step = "guest",
                         !.reserved = page.selecting,
                         !.strayed = @ \/ ~On("details") \/ page.room # page.selecting])
     \/ Set([page EXCEPT !.selecting = NONE])
     \/ lapsed /\ Set(Gone("expired"))
  /\ Stay

-----------------------------------------------------------------------------
(* Paying *)

\* GuestDetailsStep.handleSubmit; PaymentStep mounts and asks for an intent.
EnterDetails ==
  /\ On("guest")
  /\ Set([page EXCEPT !.step = "pay", !.create = "pending", !.active = TRUE])
  /\ Stay

\* POST /booking/payment-intent gets past its guard, or is refused.
SendCreate ==
  /\ page.create = "pending" /\ page.waiting = NONE
  /\ \/ /\ On("pay")
        /\ \E i \in Intents : CreateAtStripe(i) /\ Set([page EXCEPT !.waiting = i])
     \/ Stay /\ Set([page EXCEPT !.create = "error"])
     \/ lapsed /\ Stay /\ Set(Gone("expired"))

\* The page does not wait for the row.
CreateAnsweredEarly ==
  /\ page.waiting # NONE
  /\ Set([page EXCEPT !.create = "idle", !.waiting = NONE, !.failed = FALSE,
                      !.intent = page.waiting, !.active = TRUE])
  /\ Stay

\* onSuccess stores the intent; the effect of usePaymentStatus starts polling.
CreateAnswered ==
  /\ page.waiting # NONE /\ page.waiting \notin creating
  /\ Set(IF page.waiting \in known
           THEN [page EXCEPT !.create = "idle", !.waiting = NONE,
                             !.intent = page.waiting, !.failed = FALSE,
                             !.active = TRUE, !.submitting = FALSE]
           ELSE [page EXCEPT !.create = "error", !.waiting = NONE])
  /\ Stay

\* handleRetry after a failed payment, or the button of the error screen.
Retry ==
  /\ On("pay")
  /\ \/ page.failed /\ page.create # "pending"
        /\ Set([page EXCEPT !.intent = NONE, !.failed = FALSE,
                            !.create = "pending", !.active = FALSE])
     \/ ~page.failed /\ page.create = "error"
        /\ Set([page EXCEPT !.create = "pending"])
  /\ Stay

\* What PaymentStep shows in place of the failure, the error and the loading
\* screens.
FormShown == /\ On("pay") /\ page.intent # NONE /\ page.create = "idle"
             /\ ~page.failed

\* StripeForm.handlePay: confirmPayment returns, and a declined card leaves
\* the form open for another try.
Submit ==
  /\ FormShown /\ ~page.submitting
  /\ Pay(page.intent)
  /\ Set([page EXCEPT !.submitting = stripe'[page.intent] # "requires_payment_method"])

\* PaymentStep unmounts: its polls find activeRef FALSE from now on.
Unmounted(p) == [p EXCEPT !.create = "idle", !.waiting = NONE, !.intent = NONE,
                          !.failed = FALSE, !.active = TRUE, !.submitting = FALSE]

Back ==
  /\ \/ On("details") /\ Set([page EXCEPT !.step = "rooms"]) /\ Stay
     \/ On("guest") /\ Set([page EXCEPT !.step = "details"]) /\ Stay
     \/ On("pay") /\ Set([Unmounted(page) EXCEPT !.step = "guest"])
        /\ Detach("unmounted")

\* The guest reloads, or Stripe comes back to return_url: the state is gone.
Reload == page.route = "booking" /\ Set(NewPage) /\ Detach("closed")

-----------------------------------------------------------------------------
(* usePaymentStatus and useCountdown *)

\* The interval fires; an earlier poll may still be open.
StartPoll(p) ==
  /\ On("pay") /\ page.intent # NONE /\ page.active
  /\ Request(p, page.intent)
  /\ UNCHANGED page

HeardAnyway(p) == poll[p].caller = "mounted" /\ page.route = "booking"

\* The component and the intent the poll was started for are still there.
Heard(p) == poll[p].caller = "mounted" /\ page.active /\ page.route = "booking"

\* Any answer but success or progress is taken for a failed payment.
PollAnsweredStrictly(p) ==
  /\ poll[p].pc = "answered"
  /\ LET a == poll[p].answer
     IN  \/ /\ Heard(p) /\ a = "succeeded"
            /\ SendConfirmation(p) /\ Set([page EXCEPT !.active = FALSE])
         \/ /\ Heard(p) /\ a \in {"failed", "cancelled", "error"}
            /\ Collect(p) /\ Set([page EXCEPT !.active = FALSE, !.failed = TRUE])
         \/ /\ a \in {"gone", "ok", "pending", "processing"}
            /\ Collect(p) /\ UNCHANGED page

\* An answered poll.  Only 410 is acted on without a look at activeRef, and
\* whoever started the poll.
PollAnswered(p) ==
  /\ poll[p].pc = "answered"
  /\ LET a == poll[p].answer
     IN  \/ /\ Heard(p) /\ a = "succeeded"
            /\ SendConfirmation(p) /\ Set([page EXCEPT !.active = FALSE])
         \/ /\ Heard(p) /\ a \in {"failed", "cancelled"}
            /\ Collect(p) /\ Set([page EXCEPT !.active = FALSE, !.failed = TRUE])
         \/ /\ a \in {"gone", "ok"}
            /\ Collect(p)
            /\ Set(Gone(IF a = "ok" THEN "confirmation" ELSE "expired"))
         \/ /\ a \in {"pending", "processing", "error"} \cup Terminal
            /\ a \in Terminal => ~Heard(p)
            /\ Collect(p) /\ UNCHANGED page

\* A token without exp counts as zero seconds left.
CountdownWithoutExpiry ==
  /\ page.route = "booking"
  /\ Set(Gone("expired")) /\ Detach("unmounted")

\* useCountdown: zero seconds left.
Countdown ==
  /\ lapsed /\ page.route = "booking"
  /\ Set(Gone("expired")) /\ Detach("unmounted")

-----------------------------------------------------------------------------
Server ==
  /\ \/ \E i \in Intents : \/ stripe[i] = "processing" /\ Pay(i)
                           \/ Cancel(i) \/ Age(i) \/ createFromStripe(i)
                           \/ CreateLost(i)
     \/ \E h \in Hooks : Webhook(h)
     \/ \E p \in Polls : Status(p)
     \/ Lapse
  /\ UNCHANGED page

Browser ==
  \/ \E r \in Rooms : ChooseRoom(r)
  \/ Reserve \/ SelectionAnswered \/ EnterDetails \/ SendCreate \/ CreateAnswered
  \/ Retry \/ Submit \/ Back \/ Reload \/ Countdown
  \/ \E p \in Polls : StartPoll(p) \/ PollAnswered(p)

Next == Server \/ Browser

Spec == Init /\ [][Next]_vars

-----------------------------------------------------------------------------
(* What holds *)

\* The page keeps its type on top of the server's.
CheckoutTypeOK ==
  /\ PaymentTypeOK
  /\ page \in [route : {"booking", "confirmation", "expired"}, step : Steps,
               room : Rooms \cup {NONE}, selecting : Rooms \cup {NONE},
               reserved : Rooms \cup {NONE}, strayed : BOOLEAN,
               create : {"idle", "pending", "error"},
               waiting : Intents \cup {NONE}, intent : Intents \cup {NONE},
               failed : BOOLEAN, active : BOOLEAN, submitting : BOOLEAN]
  /\ page.intent \in known \cup {NONE}

\* Overlapping polls that all see success send one confirmation.
OneConfirmation ==
  \A p, q \in Polls :
    poll[p].pc = "confirm" /\ poll[q].pc = "confirm"
      /\ poll[p].caller = "mounted" /\ poll[q].caller = "mounted" => p = q

\* The failure screen is shown only when an intent of the session was declined
\* or cancelled, never for a lost poll or a slow webhook.
FailureIsReal ==
  page.failed => \E i \in Intents : declines[i] > 0 \/ stripe[i] = "canceled"

\* The room shown while paying is the one reserved, as long as no selection
\* was answered after the guest had moved on.
ShownIsReserved ==
  On("guest") \/ On("pay") => page.strayed \/ page.room = page.reserved

Promise == INSTANCE Purchase WITH
             paid   <- {i \in Intents : stripe[i] = "succeeded"},
             over   <- lapsed,
             screen <- page.route

\* Page and server together keep what Purchase promises: nothing is booked
\* unpaid, nobody is thanked without a booking or sent away before time.
ImplementsPurchase == Promise!Spec

-----------------------------------------------------------------------------
(* What fails *)

\* The room shown while paying is the one reserved.  The answer to a selection
\* the guest has gone back from reserves one room while another is looked at,
\* and RoomDetailsStep moves the wizard on all the same.
LastChoiceStands == On("guest") \/ On("pay") => page.room = page.reserved
=============================================================================
