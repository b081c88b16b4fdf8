---------------------------- MODULE CheckoutProofs ---------------------------
(***************************************************************************)
(* Proofs about Checkout, for any number of intents, rooms, webhook        *)
(* handlers and status requests: what the payment module keeps it keeps    *)
(* under the page too, and page and server together implement Purchase.    *)
(***************************************************************************)
EXTENDS Checkout, PaymentProofs

-----------------------------------------------------------------------------
(* The inductive invariant *)

Pages == [route : {"booking", "confirmation", "expired"}, step : Steps,
          room : Rooms \cup {NONE}, selecting : Rooms \cup {NONE},
          reserved : Rooms \cup {NONE}, strayed : BOOLEAN,
          create : {"idle", "pending", "error"},
          waiting : Intents \cup {NONE}, intent : Intents \cup {NONE},
          failed : BOOLEAN, active : BOOLEAN, submitting : BOOLEAN]

\* What belongs to the payment step is gone with it, and a selection is
\* awaited only before the guest's details.
PageShape ==
  /\ page.selecting # NONE => page.step \in {"rooms", "details"}
  /\ page.step # "pay" => /\ page.intent = NONE /\ page.create = "idle"
                          /\ ~page.failed /\ page.active
  /\ page.create # "pending" => page.waiting = NONE
  /\ page.intent # NONE => page.create = "idle"
  /\ page.active => ~page.failed

Mounted(p) == poll[p].pc # "idle" /\ poll[p].caller = "mounted"

\* A poll somebody still waits for belongs to the payment step; once one has
\* sent the confirmation nobody listens to the others.
PollsShape ==
  page.route = "booking" =>
    \A p \in Polls : Mounted(p) =>
      /\ page.step = "pay"
      /\ page.active => page.create = "idle"
      /\ poll[p].pc = "confirm" => ~page.active /\ ~page.failed /\ page.create = "idle"

CheckoutInv == /\ PaymentInv /\ CheckoutTypeOK /\ PageShape /\ PollsShape
               /\ OneConfirmation /\ FailureIsReal /\ ShownIsReserved

-----------------------------------------------------------------------------
(* What the payment module may do to what the page knows *)

\* What was declined, cancelled, known or over stays so.
Lasting == /\ \A i \in Intents : /\ declines'[i] >= declines[i]
                                 /\ stripe[i] = "canceled" => stripe'[i] = "canceled"
           /\ known \subseteq known'

LEMMA PaymentLasts ==
  ASSUME PaymentTypeOK, [PaymentNext]_payVars
  PROVE  Lasting
<1> USE DEF PaymentTypeOK, Lasting, rowVars
<1>1. CASE UNCHANGED payVars
  BY <1>1, LimitAssumption DEF payVars
<1>2. ASSUME NEW i \in Intents, Pay(i) \/ Cancel(i) \/ Age(i) \/ Create(i)
      PROVE  Lasting
  BY <1>2, LimitAssumption
     DEF Pay, Cancel, Age, Create, CreateAtStripe, createFromStripe, CreateLost
<1>3. ASSUME NEW h \in Hooks, Webhook(h)
      PROVE  Lasting
  BY <1>3, LimitAssumption
     DEF Webhook, Deliver, FindIntent, TransitionStatus, Confirm, HookLost
<1>4. ASSUME NEW p \in Polls, Status(p) \/ Collect(p) \/ SendConfirmation(p)
      PROVE  Lasting
  BY <1>4, LimitAssumption
     DEF Status, ReadStatus, refreshFromProvider, Retrieve, StoreRefreshed, ConfirmBooking,
         PollLost, Collect, SendConfirmation
<1>5. CASE Lapse \/ Detach("unmounted") \/ Detach("closed")
  BY <1>5, LimitAssumption DEF Lapse, Detach
<1>6. CASE \E p \in Polls, i \in Intents : Request(p, i)
  BY <1>6, LimitAssumption DEF Request
<1> QED BY <1>1, <1>2, <1>3, <1>4, <1>5, <1>6 DEF PaymentNext

\* A step of the server is a step of the payment module, and no request is
\* sent or turned into a confirmation by it.
LEMMA ServerSteps ==
  ASSUME CheckoutInv, Server
  PROVE  /\ PaymentNext
         /\ \A p \in Polls : Mounted(p)' =>
              Mounted(p) /\ (poll'[p].pc = "confirm" => poll[p].pc = "confirm")
<1> DEFINE Quiet == \A p \in Polls : Mounted(p)' =>
              Mounted(p) /\ (poll'[p].pc = "confirm" => poll[p].pc = "confirm")
<1> USE DEF CheckoutInv, PaymentInv
<1>1. PaymentNext
  BY DEF Server, PaymentNext, Create
<1>2. ASSUME UNCHANGED poll
      PROVE  Quiet
  BY <1>2 DEF Mounted
<1>3. ASSUME NEW p \in Polls, NEW r, poll' = [poll EXCEPT ![p] = r], poll[p].pc # "idle",
             r.pc = "idle" \/ (r.pc # "confirm" /\ r.caller = poll[p].caller)
      PROVE  Quiet
  BY <1>3 DEF Mounted, PaymentTypeOK
<1>4. ASSUME NEW p \in Polls, NEW a \in Answers, poll[p].pc # "idle", AnswerPoll(p, a)
      PROVE  Quiet
  BY <1>3, <1>4, Answering
<1>5. ASSUME NEW p \in Polls, Status(p)
      PROVE  Quiet
  <2> DEFINE i == poll[p].intent
  <2>1. /\ poll[p] \in Polling /\ poll[p].pc # "idle" /\ i \in Intents
        /\ row[i] \in Answers /\ translate(stripe[i]) \in Answers
        /\ {"ok", "error"} \subseteq Answers
    BY <1>5 DEF Status, ReadStatus, refreshFromProvider, Retrieve, StoreRefreshed,
                ConfirmBooking, PollLost, PollPc, PaymentTypeOK, Polling, Answers, RowStatus,
                translate
  <2>2. CASE ReadStatus(p)
    <3>1. CASE poll' = [poll EXCEPT ![p] = [poll[p] EXCEPT !.pc = "reread"]]
      BY <1>3, <2>1, <3>1 DEF Polling
    <3>2. CASE AnswerPoll(p, row[i])
      BY <1>4, <2>1, <3>2
    <3> QED BY <2>2, <3>1, <3>2 DEF ReadStatus, PaymentTypeOK
  <2>3. CASE refreshFromProvider(p)
    <3>1. CASE poll' = [poll EXCEPT ![p] = [poll[p] EXCEPT !.pc = "retrieve", !.seen = row[i]]]
      BY <1>3, <2>1, <3>1 DEF Polling
    <3>2. CASE AnswerPoll(p, row[i])
      BY <1>4, <2>1, <3>2
    <3> QED BY <2>3, <3>1, <3>2 DEF refreshFromProvider, PaymentTypeOK
  <2>4. CASE Retrieve(p)
    <3> DEFINE a == translate(stripe[i])
    <3>1. CASE poll' = [poll EXCEPT ![p] = [poll[p] EXCEPT !.pc = "write", !.answer = a]]
      BY <1>3, <2>1, <3>1 DEF Polling
    <3>2. CASE AnswerPoll(p, a)
      BY <1>4, <2>1, <3>2
    <3> QED BY <2>4, <3>1, <3>2 DEF Retrieve, PaymentTypeOK
  <2>5. CASE StoreRefreshed(p)
    <3>1. poll[p].answer \in Answers
      BY <2>1 DEF Polling
    <3> QED BY <1>4, <2>1, <2>5, <3>1 DEF StoreRefreshed
  <2>6. CASE ConfirmBooking(p)
    <3>1. \E a \in Answers : AnswerPoll(p, a)
      BY <2>1, <2>6 DEF ConfirmBooking
    <3> QED BY <1>4, <2>1, <3>1
  <2>7. CASE PollLost(p)
    BY <1>4, <2>1, <2>7 DEF PollLost
  <2> QED BY <1>5, <2>2, <2>3, <2>4, <2>5, <2>6, <2>7 DEF Status
<1>6. CASE \E p \in Polls : Status(p)
  BY <1>1, <1>5, <1>6
<1>7. CASE ~ \E p \in Polls : Status(p)
  BY <1>1, <1>2, <1>7
     DEF Server, Pay, Cancel, Age, createFromStripe, CreateLost, Lapse, Webhook, Deliver,
         FindIntent, TransitionStatus, Confirm, HookLost
<1> QED BY <1>1, <1>6, <1>7

\* A page that is taken down waits for no request any more.
LEMMA DetachUnmounts ==
  ASSUME PaymentTypeOK, NEW c \in {"unmounted", "closed"}, Detach(c)
  PROVE  \A p \in Polls : ~Mounted(p)'
<1> SUFFICES ASSUME NEW p \in Polls
             PROVE  ~Mounted(p)'
  OBVIOUS
<1>1. poll[p] \in Polling
  BY DEF PaymentTypeOK
<1>2. poll'[p] = IF poll[p].caller = "closed" \/ poll[p].pc = "idle" THEN poll[p]
                 ELSE IF poll[p].pc = "answered" /\ c = "closed" THEN NoPoll
                 ELSE [poll[p] EXCEPT !.caller = c]
  BY DEF Detach
<1> QED BY <1>1, <1>2 DEF Mounted, Polling, NoPoll

-----------------------------------------------------------------------------
(* The steps *)

\* The server works while the page stays as it is.
LEMMA ServerKeeps ==
  ASSUME CheckoutInv, Server
  PROVE  CheckoutInv'
<1> USE DEF CheckoutInv
<1>1. PaymentNext /\ PaymentInv' /\ Lasting /\ UNCHANGED page
  BY ServerSteps, PaymentInvStep, PaymentLasts DEF Server, PaymentInv
<1>2. CheckoutTypeOK'
  BY <1>1 DEF CheckoutTypeOK, PaymentInv, Lasting
<1>3. PageShape' /\ ShownIsReserved'
  BY <1>1 DEF PageShape, ShownIsReserved, On
<1>4. PollsShape' /\ OneConfirmation'
  BY <1>1, ServerSteps DEF PollsShape, OneConfirmation, Mounted
<1>5. FailureIsReal'
  <2>1. \A i \in Intents : declines[i] \in Nat /\ declines'[i] \in Nat
    BY <1>1, LimitAssumption DEF PaymentInv, PaymentTypeOK
  <2> SUFFICES ASSUME page'.failed
               PROVE  (\E i \in Intents : declines[i] > 0 \/ stripe[i] = "canceled")'
    BY DEF FailureIsReal
  <2>2. PICK i \in Intents : declines[i] > 0 \/ stripe[i] = "canceled"
    BY <1>1 DEF FailureIsReal
  <2>3. declines'[i] >= declines[i] /\ (stripe[i] = "canceled" => stripe'[i] = "canceled")
    BY <1>1 DEF Lasting
  <2>4. declines[i] > 0 => declines'[i] > 0
    BY <2>1, <2>3
  <2> QED BY <2>2, <2>3, <2>4
<1> QED BY <1>1, <1>2, <1>3, <1>4, <1>5

\* What a step of the browser has to show, beside being the payment module's.
LEMMA BrowserKeeps ==
  ASSUME CheckoutInv, [PaymentNext]_payVars, page' \in Pages,
         page'.intent \in known \cup {NONE}, PageShape', PollsShape',
         OneConfirmation', ShownIsReserved',
         page'.failed => page.failed \/ \E i \in Intents : declines[i] > 0 \/ stripe[i] = "canceled"
  PROVE  CheckoutInv'
<1> USE DEF CheckoutInv
<1>1. PaymentInv' /\ Lasting
  BY PaymentInvStep, PaymentLasts DEF PaymentInv
<1>2. CheckoutTypeOK'
  BY <1>1 DEF CheckoutTypeOK, PaymentInv, Lasting, Pages
<1>3. FailureIsReal'
  <2>1. \A i \in Intents : declines[i] \in Nat /\ declines'[i] \in Nat
    BY <1>1, LimitAssumption DEF PaymentInv, PaymentTypeOK
  <2> SUFFICES ASSUME page'.failed
               PROVE  (\E i \in Intents : declines[i] > 0 \/ stripe[i] = "canceled")'
    BY DEF FailureIsReal
  <2>2. PICK i \in Intents : declines[i] > 0 \/ stripe[i] = "canceled"
    BY <1>1 DEF FailureIsReal
  <2>3. declines'[i] >= declines[i] /\ (stripe[i] = "canceled" => stripe'[i] = "canceled")
    BY <1>1 DEF Lasting
  <2>4. declines[i] > 0 => declines'[i] > 0
    BY <2>1, <2>3
  <2> QED BY <2>2, <2>3, <2>4
<1> QED BY <1>1, <1>2, <1>3

\* A room is chosen.
LEMMA ChooseRoomStep ==
  ASSUME CheckoutInv, NEW r \in Rooms, ChooseRoom(r)
  PROVE  CheckoutInv'
<1> USE DEF CheckoutInv, CheckoutTypeOK
<1>1. /\ page \in Pages /\ PaymentTypeOK
      /\ [PaymentNext]_payVars
  BY DEF ChooseRoom, Pages, Stay
<1>2. page' \in Pages /\ page'.intent \in known \cup {NONE}
  BY <1>1 DEF ChooseRoom, Set, On, Stay, payVars, Pages, Steps
<1>3. PageShape' /\ ShownIsReserved'
  BY <1>1, <1>2, RoomsAssumption DEF ChooseRoom, Set, On, Stay, payVars, Pages, PageShape, ShownIsReserved
<1>4. PollsShape' /\ OneConfirmation'
  BY <1>1, <1>2 DEF ChooseRoom, Set, On, Stay, payVars, PageShape, PollsShape, OneConfirmation, Mounted
<1>5. page'.failed => page.failed \/ \E i \in Intents : declines[i] > 0 \/ stripe[i] = "canceled"
  BY <1>1, <1>2 DEF ChooseRoom, Set, On, Stay, payVars, Pages
<1> QED BY <1>1, <1>2, <1>3, <1>4, <1>5, BrowserKeeps

\* The selection is sent.
LEMMA ReserveStep ==
  ASSUME CheckoutInv, Reserve
  PROVE  CheckoutInv'
<1> USE DEF CheckoutInv, CheckoutTypeOK
<1>1. /\ page \in Pages /\ PaymentTypeOK
      /\ [PaymentNext]_payVars
  BY DEF Reserve, Pages, Stay
<1>2. page' \in Pages /\ page'.intent \in known \cup {NONE}
  BY <1>1 DEF Reserve, Set, On, Stay, payVars, Pages, Steps
<1>3. PageShape' /\ ShownIsReserved'
  BY <1>1, <1>2, RoomsAssumption DEF Reserve, Set, On, Stay, payVars, Pages, PageShape, ShownIsReserved
<1>4. PollsShape' /\ OneConfirmation'
  BY <1>1, <1>2 DEF Reserve, Set, On, Stay, payVars, PageShape, PollsShape, OneConfirmation, Mounted
<1>5. page'.failed => page.failed \/ \E i \in Intents : declines[i] > 0 \/ stripe[i] = "canceled"
  BY <1>1, <1>2 DEF Reserve, Set, On, Stay, payVars, Pages
<1> QED BY <1>1, <1>2, <1>3, <1>4, <1>5, BrowserKeeps

\* The guest's details are complete.
LEMMA EnterDetailsStep ==
  ASSUME CheckoutInv, EnterDetails
  PROVE  CheckoutInv'
<1> USE DEF CheckoutInv, CheckoutTypeOK
<1>1. /\ page \in Pages /\ PaymentTypeOK
      /\ [PaymentNext]_payVars
  BY DEF EnterDetails, Pages, Stay
<1>2. page' \in Pages /\ page'.intent \in known \cup {NONE}
  BY <1>1 DEF EnterDetails, Set, On, Stay, payVars, Pages, Steps
<1>3. PageShape' /\ ShownIsReserved'
  BY <1>1, <1>2, RoomsAssumption DEF EnterDetails, Set, On, Stay, payVars, Pages, PageShape, ShownIsReserved
<1>4. PollsShape' /\ OneConfirmation'
  BY <1>1, <1>2 DEF EnterDetails, Set, On, Stay, payVars, PageShape, PollsShape, OneConfirmation, Mounted
<1>5. page'.failed => page.failed \/ \E i \in Intents : declines[i] > 0 \/ stripe[i] = "canceled"
  BY <1>1, <1>2 DEF EnterDetails, Set, On, Stay, payVars, Pages
<1> QED BY <1>1, <1>2, <1>3, <1>4, <1>5, BrowserKeeps

\* The intent is answered.
LEMMA CreateAnsweredStep ==
  ASSUME CheckoutInv, CreateAnswered
  PROVE  CheckoutInv'
<1> USE DEF CheckoutInv, CheckoutTypeOK
<1>1. /\ page \in Pages /\ PaymentTypeOK
      /\ [PaymentNext]_payVars
  BY DEF CreateAnswered, Pages, Stay
<1>2. page' \in Pages /\ page'.intent \in known \cup {NONE}
  BY ZenonT(60), <1>1 DEF CreateAnswered, Set, On, Stay, payVars, Pages, Steps
<1>3. PageShape' /\ ShownIsReserved'
  BY <1>1, <1>2, RoomsAssumption DEF CreateAnswered, Set, On, Stay, payVars, Pages, PageShape, ShownIsReserved
<1>4. PollsShape' /\ OneConfirmation'
  BY <1>1, <1>2 DEF CreateAnswered, Set, On, Stay, payVars, PageShape, PollsShape, OneConfirmation, Mounted
<1>5. page'.failed => page.failed \/ \E i \in Intents : declines[i] > 0 \/ stripe[i] = "canceled"
  BY <1>1, <1>2 DEF CreateAnswered, Set, On, Stay, payVars, Pages
<1> QED BY <1>1, <1>2, <1>3, <1>4, <1>5, BrowserKeeps

\* The guest tries again.
LEMMA RetryStep ==
  ASSUME CheckoutInv, Retry
  PROVE  CheckoutInv'
<1> USE DEF CheckoutInv, CheckoutTypeOK
<1>1. /\ page \in Pages /\ PaymentTypeOK
      /\ [PaymentNext]_payVars
  BY DEF Retry, Pages, Stay
<1>2. page' \in Pages /\ page'.intent \in known \cup {NONE}
  BY ZenonT(60), <1>1 DEF Retry, Set, On, Stay, payVars, Pages, Steps
<1>3. PageShape' /\ ShownIsReserved'
  <2>1. /\ page'.step = "pay" /\ page'.create = "pending" /\ ~page'.failed
        /\ page'.intent = NONE \/ page'.intent = page.intent
        /\ page'.active => page.active
        /\ \A f \in {"selecting", "room", "reserved", "strayed", "waiting"} :
             page'[f] = page[f]
    BY <1>1 DEF Retry, Set, On, Pages
  <2>2. page.step = "pay" /\ page.route = "booking" /\ page'.route = "booking"
    BY <1>1 DEF Retry, Set, On, Pages
  <2>3. page'.intent = NONE
    BY <1>1 DEF Retry, Set, On, Pages, PageShape
  <2> QED BY <2>1, <2>2, <2>3 DEF PageShape, ShownIsReserved, On
<1>4. PollsShape' /\ OneConfirmation'
  BY ZenonT(60), <1>1, <1>2 DEF Retry, Set, On, Stay, payVars, PageShape, PollsShape, OneConfirmation, Mounted
<1>5. page'.failed => page.failed \/ \E i \in Intents : declines[i] > 0 \/ stripe[i] = "canceled"
  BY <1>1, <1>2 DEF Retry, Set, On, Stay, payVars, Pages
<1> QED BY <1>1, <1>2, <1>3, <1>4, <1>5, BrowserKeeps

\* Another route ends the wizard; polls may still be open.
LEMMA GoneKeeps ==
  ASSUME CheckoutInv, [PaymentNext]_payVars, NEW r \in {"expired", "confirmation"},
         page' = Gone(r),
         \A p \in Polls : Mounted(p)' /\ poll'[p].pc = "confirm" =>
                            Mounted(p) /\ poll[p].pc = "confirm"
  PROVE  CheckoutInv'
<1> USE DEF CheckoutInv
<1>1. /\ page' \in Pages /\ page'.route = r /\ page'.step = "rooms" /\ page'.selecting = NONE
      /\ page'.intent = NONE /\ page'.create = "idle" /\ page'.waiting = NONE
      /\ ~page'.failed /\ page'.active
  BY DEF Gone, NewPage, Pages, Steps
<1>2. PageShape' /\ ShownIsReserved' /\ PollsShape'
  BY <1>1 DEF PageShape, ShownIsReserved, On, PollsShape
<1>3. OneConfirmation'
  BY DEF OneConfirmation, Mounted
<1> QED BY <1>1, <1>2, <1>3, BrowserKeeps

\* The selection is answered.
LEMMA SelectionStep ==
  ASSUME CheckoutInv, SelectionAnswered
  PROVE  CheckoutInv'
<1> USE DEF CheckoutInv, CheckoutTypeOK
<1>1. /\ page \in Pages /\ PaymentTypeOK /\ UNCHANGED payVars
      /\ [PaymentNext]_payVars
  BY DEF SelectionAnswered, Stay, Pages
<1>2. page.selecting # NONE /\ page.step \in {"rooms", "details"} /\ ~page.failed
      /\ page.intent = NONE /\ page.create = "idle" /\ page.waiting = NONE /\ page.active
  BY DEF SelectionAnswered, PageShape
<1>3. CASE page' = [page EXCEPT !.selecting = NONE, !.step = "guest",
                       !.reserved = page.selecting,
                       !.strayed = @ \/ ~On("details") \/ page.room # page.selecting]
  <2>1. page' \in Pages
    BY ZenonT(60), <1>1, <1>3 DEF Pages, Steps
  <2>2. /\ page'.selecting = NONE /\ page'.step = "guest" /\ page'.reserved = page.selecting
        /\ page'.strayed \/ (On("details") /\ page.room = page.selecting)
        /\ page'.room = page.room /\ page'.intent = NONE /\ page'.create = "idle"
        /\ page'.waiting = NONE /\ ~page'.failed /\ page'.active /\ page'.route = page.route
    BY <1>1, <1>2, <1>3 DEF Pages
  <2>3. PageShape' /\ ShownIsReserved'
    BY <2>2 DEF PageShape, ShownIsReserved
  <2>4. PollsShape' /\ OneConfirmation'
    BY <1>1, <1>2, <2>2 DEF PollsShape, OneConfirmation, Mounted, payVars
  <2> QED BY <1>1, <2>1, <2>2, <2>3, <2>4, BrowserKeeps
<1>4. CASE page' = [page EXCEPT !.selecting = NONE]
  <2>1. page' \in Pages
    BY <1>1, <1>4 DEF Pages, Steps
  <2>2. /\ page'.selecting = NONE /\ page'.step = page.step /\ page'.reserved = page.reserved
        /\ page'.strayed = page.strayed
        /\ page'.room = page.room /\ page'.intent = NONE /\ page'.create = "idle"
        /\ page'.waiting = NONE /\ ~page'.failed /\ page'.active /\ page'.route = page.route
    BY <1>1, <1>2, <1>4 DEF Pages
  <2>3. PageShape' /\ ShownIsReserved'
    BY <1>2, <2>2 DEF PageShape, ShownIsReserved, On
  <2>4. PollsShape' /\ OneConfirmation'
    BY <1>1, <1>2, <2>2 DEF PollsShape, OneConfirmation, Mounted, payVars
  <2> QED BY <1>1, <2>1, <2>2, <2>3, <2>4, BrowserKeeps
<1>5. CASE page' = Gone("expired")
  BY <1>1, <1>5, GoneKeeps DEF payVars, Mounted
<1> QED BY <1>3, <1>4, <1>5 DEF SelectionAnswered, Set

\* An intent is asked for.
LEMMA SendCreateStep ==
  ASSUME CheckoutInv, SendCreate
  PROVE  CheckoutInv'
<1> USE DEF CheckoutInv, CheckoutTypeOK
<1>1. page \in Pages /\ PaymentTypeOK
  BY DEF Pages
<1>2. /\ page.create = "pending" /\ page.waiting = NONE /\ page.step = "pay"
      /\ page.intent = NONE /\ page.selecting = NONE
  BY DEF SendCreate, PageShape
<1>3. CASE page' = Gone("expired") /\ UNCHANGED payVars
  BY <1>3, GoneKeeps DEF payVars, Mounted
<1>4. CASE UNCHANGED payVars /\ page' = [page EXCEPT !.create = "error"]
  <2>1. page' \in Pages
    BY <1>1, <1>4 DEF Pages
  <2>2. /\ page'.create = "error" /\ page'.waiting = NONE /\ page'.step = "pay"
        /\ page'.intent = NONE /\ page'.selecting = NONE /\ page'.failed = page.failed
        /\ page'.active = page.active /\ page'.route = page.route /\ page'.room = page.room
        /\ page'.reserved = page.reserved /\ page'.strayed = page.strayed
    BY <1>1, <1>2, <1>4 DEF Pages
  <2>3. PageShape' /\ ShownIsReserved'
    BY <1>2, <2>2 DEF PageShape, ShownIsReserved, On
  <2>4. PollsShape' /\ OneConfirmation'
    BY <1>2, <1>4, <2>2 DEF PollsShape, OneConfirmation, Mounted, payVars
  <2> QED BY <1>4, <2>1, <2>2, <2>3, <2>4, BrowserKeeps
<1>5. ASSUME NEW i \in Intents, CreateAtStripe(i), page' = [page EXCEPT !.waiting = i]
      PROVE  CheckoutInv'
  <2>1. page' \in Pages
    BY <1>1, <1>5 DEF Pages
  <2>2. /\ page'.create = "pending" /\ page'.waiting = i /\ page'.step = "pay"
        /\ page'.intent = NONE /\ page'.selecting = NONE /\ page'.failed = page.failed
        /\ page'.active = page.active /\ page'.route = page.route /\ page'.room = page.room
        /\ page'.reserved = page.reserved /\ page'.strayed = page.strayed
    BY <1>1, <1>2, <1>5 DEF Pages
  <2>3. PageShape' /\ ShownIsReserved'
    BY <1>2, <2>2 DEF PageShape, ShownIsReserved, On
  <2>4. PollsShape' /\ OneConfirmation'
    BY <1>2, <1>5, <2>2 DEF CreateAtStripe, PollsShape, OneConfirmation, Mounted
  <2>5. PaymentNext
    BY <1>5 DEF PaymentNext, Create
  <2> QED BY <2>1, <2>2, <2>3, <2>4, <2>5, BrowserKeeps
<1> QED BY <1>3, <1>4, <1>5 DEF SendCreate, Set, Stay

\* The guest pays.
LEMMA SubmitStep ==
  ASSUME CheckoutInv, Submit
  PROVE  CheckoutInv'
<1> USE DEF CheckoutInv, CheckoutTypeOK
<1>1. /\ page \in Pages /\ PaymentTypeOK
      /\ [PaymentNext]_payVars
  <2>1. page.intent \in Intents /\ Pay(page.intent)
    BY DEF Submit, FormShown, PaymentTypeOK
  <2> QED BY <2>1 DEF Pages, PaymentNext
<1>2. page' \in Pages /\ page'.intent \in known \cup {NONE}
  BY <1>1 DEF Submit, FormShown, Pay, Set, On, Pages, Steps
<1>3. PageShape' /\ ShownIsReserved'
  BY <1>1, <1>2, RoomsAssumption DEF Submit, FormShown, Pay, Set, On, Pages, PageShape, ShownIsReserved
<1>4. PollsShape' /\ OneConfirmation'
  BY <1>1, <1>2 DEF Submit, FormShown, Pay, Set, On, PageShape, PollsShape, OneConfirmation, Mounted
<1>5. page'.failed => page.failed \/ \E i \in Intents : declines[i] > 0 \/ stripe[i] = "canceled"
  BY <1>1, <1>2 DEF Submit, FormShown, Pay, Set, On, Pages
<1> QED BY <1>1, <1>2, <1>3, <1>4, <1>5, BrowserKeeps

\* A poll is sent.
LEMMA StartPollStep ==
  ASSUME CheckoutInv, NEW p \in Polls, StartPoll(p)
  PROVE  CheckoutInv'
<1> USE DEF CheckoutInv, CheckoutTypeOK
<1>1. /\ page \in Pages /\ PaymentTypeOK
      /\ On("pay") /\ page.intent # NONE /\ page.active /\ UNCHANGED page
      /\ page.intent \in Intents /\ Request(p, page.intent)
  BY DEF StartPoll, Pages, PaymentTypeOK
<1>2. /\ \A q \in Polls \ {p} : poll'[q] = poll[q]
      /\ poll'[p].pc # "confirm"
  BY <1>1 DEF Request, PaymentTypeOK, NoPoll
<1>3. PollsShape' /\ OneConfirmation'
  <2>1. page.create = "idle" /\ page.step = "pay"
    BY <1>1 DEF PageShape, On
  <2> QED BY <1>1, <1>2, <2>1 DEF PollsShape, OneConfirmation, Mounted
<1>4. PageShape' /\ ShownIsReserved' /\ page' \in Pages /\ page'.intent \in known \cup {NONE}
  BY <1>1 DEF PageShape, ShownIsReserved, On
<1>5. PaymentNext /\ (page'.failed => page.failed)
  BY <1>1 DEF PaymentNext
<1> QED BY <1>3, <1>4, <1>5, BrowserKeeps

\* A poll is answered.
LEMMA PollAnsweredStep ==
  ASSUME CheckoutInv, NEW p \in Polls, PollAnswered(p)
  PROVE  CheckoutInv'
<1> USE DEF CheckoutInv, CheckoutTypeOK
<1>1. page \in Pages /\ PaymentTypeOK /\ poll[p].pc = "answered" /\ AnswerIsTrue(poll[p])
      /\ poll[p].intent \in Intents
  BY DEF PollAnswered, Pages, PaymentInv, AnswersAreTrue, PaymentTypeOK, Polling
<1>2. ASSUME Heard(p), SendConfirmation(p), page' = [page EXCEPT !.active = FALSE]
      PROVE  CheckoutInv'
  <2>1. /\ page' \in Pages /\ ~page'.active /\ page'.route = page.route /\ page'.step = page.step
        /\ page'.selecting = page.selecting /\ page'.intent = page.intent
        /\ page'.create = page.create /\ page'.failed = page.failed
        /\ page'.waiting = page.waiting /\ page'.room = page.room
        /\ page'.reserved = page.reserved /\ page'.strayed = page.strayed
    BY <1>1, <1>2 DEF Pages
  <2>2. page.active /\ page.route = "booking" /\ Mounted(p)
    BY <1>1, <1>2 DEF Heard, Mounted
  <2>3. page.step = "pay" /\ page.create = "idle" /\ ~page.failed
    BY <2>2 DEF PollsShape, PageShape
  <2>4. /\ poll' = [poll EXCEPT ![p].pc = "confirm"]
        /\ \A q \in Polls : Mounted(q) => poll[q].pc # "confirm"
    BY <1>2, <2>2 DEF SendConfirmation, PollsShape
  <2>5. \A q \in Polls \ {p} : poll'[q] = poll[q]
    BY <2>4 DEF PaymentTypeOK
  <2>6. PageShape' /\ ShownIsReserved'
    BY <2>1, <2>3 DEF PageShape, ShownIsReserved, On
  <2>7. PollsShape' /\ OneConfirmation'
    BY <2>1, <2>3, <2>4, <2>5 DEF PollsShape, OneConfirmation, Mounted
  <2>8. PaymentNext
    BY <1>2 DEF PaymentNext
  <2> QED BY <2>1, <2>6, <2>7, <2>8, BrowserKeeps
<1>3. ASSUME Collect(p)
      PROVE  /\ PaymentNext
             /\ \A q \in Polls : Mounted(q)' => Mounted(q) /\ poll'[q] = poll[q]
  BY <1>3 DEF PaymentNext, Collect, PaymentTypeOK, Mounted, NoPoll
<1>4. ASSUME Heard(p), poll[p].answer \in {"failed", "cancelled"}, Collect(p),
             page' = [page EXCEPT !.active = FALSE, !.failed = TRUE]
      PROVE  CheckoutInv'
  <2>1. /\ page' \in Pages /\ ~page'.active /\ page'.route = page.route /\ page'.step = page.step
        /\ page'.selecting = page.selecting /\ page'.intent = page.intent
        /\ page'.create = page.create /\ page'.waiting = page.waiting
        /\ page'.room = page.room
        /\ page'.reserved = page.reserved /\ page'.strayed = page.strayed
    BY <1>1, <1>4 DEF Pages
  <2>2. page.active /\ page.route = "booking" /\ Mounted(p)
    BY <1>1, <1>4 DEF Heard, Mounted
  <2>3. page.step = "pay" /\ page.create = "idle"
        /\ \A q \in Polls : Mounted(q) => poll[q].pc # "confirm"
    BY <2>2 DEF PollsShape
  <2>4. PageShape' /\ ShownIsReserved'
    BY <2>1, <2>3 DEF PageShape, ShownIsReserved, On
  <2>5. PollsShape' /\ OneConfirmation'
    BY <1>3, <1>4, <2>1, <2>3 DEF PollsShape, OneConfirmation, Mounted
  <2>6. \E i \in Intents : declines[i] > 0 \/ stripe[i] = "canceled"
    BY <1>1, <1>4 DEF AnswerIsTrue
  <2> QED BY <1>3, <1>4, <2>1, <2>4, <2>5, <2>6, BrowserKeeps
<1>5. ASSUME Collect(p), NEW r \in {"expired", "confirmation"}, page' = Gone(r)
      PROVE  CheckoutInv'
  BY <1>3, <1>5, GoneKeeps DEF Mounted
<1>6. ASSUME Collect(p), UNCHANGED page
      PROVE  CheckoutInv'
  <2>1. PageShape' /\ ShownIsReserved' /\ page' \in Pages
    BY <1>1, <1>6 DEF PageShape, ShownIsReserved, On
  <2>2. PollsShape' /\ OneConfirmation'
    BY <1>3, <1>6 DEF PollsShape, OneConfirmation, Mounted
  <2> QED BY <1>3, <1>6, <2>1, <2>2, BrowserKeeps
<1> QED BY <1>2, <1>4, <1>5, <1>6 DEF PollAnswered, Set

\* The guest goes back.
LEMMA BackStep ==
  ASSUME CheckoutInv, Back
  PROVE  CheckoutInv'
<1> USE DEF CheckoutInv, CheckoutTypeOK
<1>1. page \in Pages /\ PaymentTypeOK
  BY DEF Pages
<1>2. ASSUME NEW st \in {"rooms", "details"}, page.step \in {"details", "guest"},
             page.route = "booking", page' = [page EXCEPT !.step = st], UNCHANGED payVars
      PROVE  CheckoutInv'
  <2>1. /\ page' \in Pages /\ page'.step = st /\ page'.route = page.route
        /\ page'.selecting = page.selecting /\ page'.intent = page.intent
        /\ page'.create = page.create /\ page'.failed = page.failed
        /\ page'.active = page.active /\ page'.waiting = page.waiting
    BY <1>1, <1>2 DEF Pages, Steps
  <2>2. PageShape' /\ ShownIsReserved'
    BY <1>2, <2>1 DEF PageShape, ShownIsReserved, On
  <2>3. PollsShape' /\ OneConfirmation'
    BY <1>2, <2>1 DEF PollsShape, OneConfirmation, Mounted, payVars
  <2> QED BY <1>2, <2>1, <2>2, <2>3, BrowserKeeps
<1>3. ASSUME On("pay"), page' = [Unmounted(page) EXCEPT !.step = "guest"], Detach("unmounted")
      PROVE  CheckoutInv'
  <2>1. /\ page' \in Pages /\ page'.step = "guest" /\ page'.selecting = page.selecting
        /\ page'.intent = NONE /\ page'.create = "idle" /\ ~page'.failed /\ page'.active
        /\ page'.waiting = NONE /\ page'.room = page.room
        /\ page'.reserved = page.reserved /\ page'.strayed = page.strayed
    BY <1>1, <1>3 DEF Unmounted, Pages, Steps
  <2>2. PageShape' /\ ShownIsReserved'
    BY <1>3, <2>1 DEF PageShape, ShownIsReserved, On
  <2>3. \A p \in Polls : ~Mounted(p)'
    BY <1>1, <1>3, DetachUnmounts
  <2>4. PollsShape' /\ OneConfirmation'
    BY <2>3 DEF PollsShape, OneConfirmation, Mounted
  <2>5. PaymentNext
    BY <1>3 DEF PaymentNext
  <2> QED BY <2>1, <2>2, <2>4, <2>5, BrowserKeeps
<1> QED BY <1>2, <1>3 DEF Back, Set, Stay, On

\* The page is loaded again.
LEMMA ReloadStep ==
  ASSUME CheckoutInv, Reload
  PROVE  CheckoutInv'
<1> USE DEF CheckoutInv, CheckoutTypeOK
<1>1. /\ page \in Pages /\ PaymentTypeOK
      /\ [PaymentNext]_payVars
  BY DEF Reload, Pages, PaymentNext
<1>2. page' \in Pages /\ page'.intent \in known \cup {NONE}
  BY <1>1 DEF Reload, Set, NewPage, Pages, Steps
<1>3. PageShape' /\ ShownIsReserved'
  BY <1>1, <1>2, RoomsAssumption DEF Reload, Set, NewPage, Pages, PageShape, ShownIsReserved
<1>4. PollsShape' /\ OneConfirmation'
  <2>1. \A p \in Polls : ~Mounted(p)'
    BY <1>1, DetachUnmounts DEF Reload
  <2> QED BY <1>1, <2>1 DEF Reload, PollsShape, OneConfirmation, Mounted
<1>5. page'.failed => page.failed \/ \E i \in Intents : declines[i] > 0 \/ stripe[i] = "canceled"
  BY <1>1, <1>2 DEF Reload, Set, NewPage, Pages
<1> QED BY <1>1, <1>2, <1>3, <1>4, <1>5, BrowserKeeps

\* The countdown ends.
LEMMA CountdownStep ==
  ASSUME CheckoutInv, Countdown
  PROVE  CheckoutInv'
<1> USE DEF CheckoutInv, CheckoutTypeOK
<1>1. PaymentNext /\ \A p \in Polls : ~Mounted(p)'
  BY DetachUnmounts DEF Countdown, PaymentNext, PaymentInv
<1> QED BY <1>1, GoneKeeps DEF Countdown, Set

-----------------------------------------------------------------------------
(* The invariants *)

\* The invariant holds when the link is opened.
LEMMA CheckoutInvInit ==
  ASSUME Init
  PROVE  CheckoutInv
<1> USE DEF Init
<1>1. PaymentInv
  BY PaymentInvInit
<1>2. page \in Pages /\ PageShape /\ page.intent = NONE /\ ~page.failed /\ page.step = "rooms"
  BY DEF NewPage, Pages, Steps, PageShape
<1>3. \A p \in Polls : poll[p].pc = "idle"
  BY DEF PaymentInit, NoPoll
<1> QED BY <1>1, <1>2, <1>3
        DEF CheckoutInv, PaymentInv, CheckoutTypeOK, Pages, PollsShape, OneConfirmation,
            Mounted, FailureIsReal, ShownIsReserved, On

\* Every step of server and browser keeps it.
LEMMA CheckoutInvStep ==
  ASSUME CheckoutInv, [Next]_vars
  PROVE  CheckoutInv'
<1>1. CASE Server
  BY <1>1, ServerKeeps
<1>2. CASE Browser
  BY <1>2, ChooseRoomStep, ReserveStep, SelectionStep, EnterDetailsStep, SendCreateStep,
     CreateAnsweredStep, RetryStep, SubmitStep, StartPollStep, PollAnsweredStep, BackStep,
     ReloadStep, CountdownStep
     DEF Browser
<1>3. CASE UNCHANGED vars
  <2>1. UNCHANGED payVars /\ UNCHANGED page
    BY <1>3 DEF vars
  <2>2. page' \in Pages /\ page'.intent \in known \cup {NONE}
    BY <2>1 DEF CheckoutInv, CheckoutTypeOK, Pages
  <2>3. PageShape' /\ PollsShape' /\ OneConfirmation' /\ ShownIsReserved'
    BY <2>1 DEF CheckoutInv, payVars, PageShape, PollsShape, OneConfirmation, Mounted,
                ShownIsReserved, On
  <2> QED BY <2>1, <2>2, <2>3, BrowserKeeps
<1> QED BY <1>1, <1>2, <1>3 DEF Next

\* The invariant holds in every state of page and server.
THEOREM CheckoutInvariant == Spec => []CheckoutInv
<1>1. Init => CheckoutInv
  BY CheckoutInvInit
<1>2. CheckoutInv /\ [Next]_vars => CheckoutInv'
  BY CheckoutInvStep
<1> QED BY <1>1, <1>2, PTL DEF Spec

\* What it says of the payment module is what PaymentProofs shows.
LEMMA CheckoutInvMeans ==
  CheckoutInv => /\ CheckoutTypeOK /\ NoFreeRooms /\ SucceededIsCharged /\ ChargeIsRecorded
                 /\ OneHandlerPerEvent /\ OneConfirmation /\ FailureIsReal /\ ShownIsReserved
BY PaymentInvMeans DEF CheckoutInv

\* The page and the payment module keep their types together.
THEOREM CheckoutTypeCorrect == Spec => []CheckoutTypeOK
BY CheckoutInvariant, CheckoutInvMeans, PTL

\* The composition keeps what the payment module keeps alone: the page's own
\* confirmation gives no room away, and no row or charge is made up or lost.
THEOREM CheckoutKeepsPayment ==
  Spec => [](NoFreeRooms /\ SucceededIsCharged /\ ChargeIsRecorded /\ OneHandlerPerEvent)
BY CheckoutInvariant, CheckoutInvMeans, PTL

\* Of the polls that overlap, one sends the confirmation (usePaymentStatus).
THEOREM ConfirmationIsSentOnce == Spec => []OneConfirmation
BY CheckoutInvariant, CheckoutInvMeans, PTL

\* The failure screen of PaymentStep is never shown for a lost answer.
THEOREM FailureIsNotInvented == Spec => []FailureIsReal
BY CheckoutInvariant, CheckoutInvMeans, PTL

\* The guest pays for the room the server has reserved, unless an answer came
\* after the guest had left its room.
THEOREM TheRoomShownIsReserved == Spec => []ShownIsReserved
BY CheckoutInvariant, CheckoutInvMeans, PTL

-----------------------------------------------------------------------------
(* Page and server implement Purchase *)

Paid == {i \in Intents : stripe[i] = "succeeded"}

\* What a step of the payment module is for Purchase.
Visible == \/ UNCHANGED <<Paid, booked, lapsed>>
           \/ /\ \E i \in Intents \ Paid : Paid' = Paid \cup {i}
              /\ UNCHANGED <<booked, lapsed>>
           \/ /\ \E i \in Paid \ booked : booked' = booked \cup {i}
              /\ UNCHANGED <<Paid, lapsed>>
           \/ ~lapsed /\ lapsed' /\ UNCHANGED <<Paid, booked>>

\* Only Pay charges, only a confirmation of a paid intent books, only the clock
\* ends the session.
LEMMA PaymentIsVisible ==
  ASSUME PaymentInv, PaymentInv', [PaymentNext]_payVars
  PROVE  Visible
<1> USE DEF PaymentInv, Visible, rowVars, bookVars
<1>1. ASSUME NEW i \in Intents, Pay(i)
      PROVE  Visible
  <2>1. i \notin Paid /\ Paid' \in {Paid, Paid \cup {i}}
    BY <1>1 DEF Pay, Paid, PaymentTypeOK
  <2> QED BY <1>1, <2>1 DEF Pay
<1>2. ASSUME NEW i \in Intents, Cancel(i) \/ Age(i) \/ Create(i)
      PROVE  Visible
  BY <1>2 DEF Cancel, Age, Create, CreateAtStripe, createFromStripe, CreateLost, Paid,
              PaymentTypeOK
<1>3. ASSUME NEW j \in Intents, ConfirmReservation(j), UNCHANGED <<stripe, lapsed>>
      PROVE  Visible
  <2>1. UNCHANGED Paid /\ (booked' # booked => booked' = booked \cup {j} /\ j \notin booked)
    BY <1>3 DEF ConfirmReservation, Paid
  <2>2. booked' # booked => j \in Paid
    BY <1>3, <2>1 DEF NoFreeRooms, Paid
  <2> QED BY <1>3, <2>1, <2>2
<1>4. ASSUME NEW h \in Hooks, Webhook(h)
      PROVE  Visible
  <2>1. CASE Confirm(h)
    <3>1. hook[h].event.intent \in Intents
      BY <2>1 DEF Confirm, PaymentTypeOK, Handling, NoHook, Events
    <3> QED BY <1>3, <2>1, <3>1 DEF Confirm
  <2>2. CASE ~Confirm(h)
    BY <1>4, <2>2 DEF Webhook, Deliver, FindIntent, TransitionStatus, HookLost, Paid
  <2> QED BY <2>1, <2>2
<1>5. ASSUME NEW p \in Polls, Status(p) \/ Collect(p) \/ SendConfirmation(p)
      PROVE  Visible
  <2>1. CASE ConfirmBooking(p)
    <3>1. poll[p].intent \in Intents
      BY <2>1 DEF ConfirmBooking, PaymentTypeOK, Polling
    <3> QED BY <1>3, <2>1, <3>1 DEF ConfirmBooking, Paid
  <2>2. CASE ~ConfirmBooking(p)
    BY <1>5, <2>2 DEF Status, ReadStatus, refreshFromProvider, Retrieve, StoreRefreshed,
                      PollLost, Collect, SendConfirmation, Paid
  <2> QED BY <2>1, <2>2
<1>6. ASSUME NEW p \in Polls, NEW i \in Intents, Request(p, i)
      PROVE  Visible
  BY <1>6 DEF Request, Paid
<1>7. CASE Lapse \/ Detach("unmounted") \/ Detach("closed")
  BY <1>7 DEF Lapse, Detach, Paid
<1>8. CASE UNCHANGED payVars
  BY <1>8 DEF payVars, Paid
<1> QED BY <1>1, <1>2, <1>4, <1>5, <1>6, <1>7, <1>8 DEF PaymentNext

\* The route changes only in steps Purchase does not see otherwise, to
\* "expired" when the session is over and to "confirmation" with a booking.
RouteOK == \/ page'.route = page.route
           \/ /\ UNCHANGED <<Paid, booked, lapsed>>
              /\ \/ page'.route = "expired" /\ lapsed
                 \/ page'.route = "confirmation" /\ booked # {}

LEMMA RoutesAreTrue ==
  ASSUME CheckoutInv, [Next]_vars
  PROVE  RouteOK
<1> USE DEF CheckoutInv, PaymentInv, CheckoutTypeOK
<1>1. page \in Pages
  BY DEF Pages
<1>2. \A r \in {"expired", "confirmation"} : Gone(r).route = r
  BY DEF Gone, NewPage
<1>3. CASE Server \/ UNCHANGED vars
  BY <1>3 DEF Server, vars, RouteOK
<1>4. CASE \E p \in Polls : PollAnswered(p)
  <2>1. PICK p \in Polls : PollAnswered(p)
    BY <1>4
  <2>2. AnswerIsTrue(poll[p]) /\ poll[p].pc = "answered"
    BY <2>1 DEF PollAnswered, AnswersAreTrue
  <2>3. UNCHANGED <<Paid, booked, lapsed>>
    BY <2>1 DEF PollAnswered, Collect, SendConfirmation, rowVars, bookVars, Paid
  <2>4. CASE poll[p].answer \in {"gone", "ok"}
    BY <1>1, <1>2, <2>1, <2>2, <2>3, <2>4 DEF PollAnswered, Set, AnswerIsTrue, RouteOK, Terminal
  <2>5. CASE poll[p].answer \notin {"gone", "ok"}
    BY <1>1, <2>1, <2>5 DEF PollAnswered, Set, RouteOK, Pages
  <2> QED BY <2>4, <2>5
<1>5. CASE SelectionAnswered \/ SendCreate \/ Countdown
  <2>1. page'.route = page.route \/ (page' = Gone("expired") /\ lapsed)
    BY <1>1, <1>5 DEF SelectionAnswered, SendCreate, Countdown, Set, Pages
  <2>2. page' = Gone("expired") => UNCHANGED <<Paid, booked, lapsed>> \/ page'.route = page.route
    BY <1>1, <1>5 DEF SelectionAnswered, SendCreate, Countdown, Set, Stay, payVars, Detach,
                      rowVars, bookVars, Paid, CreateAtStripe, Pages
  <2> QED BY <1>2, <2>1, <2>2 DEF RouteOK
<1>6. CASE Reload
  BY <1>6 DEF Reload, Set, NewPage, RouteOK
<1>7. CASE \/ \E r \in Rooms : ChooseRoom(r)
           \/ Reserve \/ EnterDetails \/ CreateAnswered \/ Retry \/ Submit \/ Back
           \/ \E p \in Polls : StartPoll(p)
  BY <1>1, <1>7 DEF ChooseRoom, Reserve, EnterDetails, CreateAnswered, Retry, Submit, FormShown,
                    Back, Unmounted, StartPoll, Set, RouteOK, Pages
<1> QED BY <1>3, <1>4, <1>5, <1>6, <1>7 DEF Next, Browser

\* Every step of page and server is one of the payment module or leaves it.
LEMMA StepsArePayments ==
  ASSUME CheckoutInv, [Next]_vars
  PROVE  [PaymentNext]_payVars
<1> USE DEF CheckoutInv, CheckoutTypeOK, PaymentInv
<1>1. CASE Server
  BY <1>1, ServerSteps
<1>2. CASE SendCreate \/ Back \/ Reload \/ Countdown
  BY <1>2 DEF SendCreate, Back, Reload, Countdown, Stay, PaymentNext, Create
<1>3. CASE Submit
  BY <1>3 DEF Submit, FormShown, PaymentTypeOK, PaymentNext
<1>4. CASE \E p \in Polls : StartPoll(p) \/ PollAnswered(p)
  BY <1>4 DEF StartPoll, PollAnswered, PaymentTypeOK, PaymentNext
<1>5. CASE \/ \E r \in Rooms : ChooseRoom(r)
           \/ Reserve \/ SelectionAnswered \/ EnterDetails \/ CreateAnswered \/ Retry
  BY <1>5 DEF ChooseRoom, Reserve, SelectionAnswered, EnterDetails, CreateAnswered, Retry, Stay
<1>6. CASE UNCHANGED vars
  BY <1>6 DEF vars
<1> QED BY <1>1, <1>2, <1>3, <1>4, <1>5, <1>6 DEF Next, Browser

\* Page and server implement Purchase: money before the room, the room before
\* the thanks, and nobody is sent away before the session is over.
THEOREM CheckoutImplementsPurchase == Spec => ImplementsPurchase
<1>1. Init => Promise!Init
  BY DEF Init, PaymentInit, NewPage, Promise!Init
<1>2. ASSUME CheckoutInv, CheckoutInv', [Next]_vars
      PROVE  [Promise!Next]_<<Paid, booked, lapsed, page.route>>
  <2>1. Visible
    BY <1>2, StepsArePayments, PaymentIsVisible DEF CheckoutInv
  <2>2. RouteOK
    BY <1>2, RoutesAreTrue
  <2>3. CASE page'.route # page.route
    BY <2>2, <2>3 DEF RouteOK, Paid, Promise!Next, Promise!Thank, Promise!SendAway
  <2>4. CASE page'.route = page.route
    <3>1. lapsed \in BOOLEAN /\ lapsed' \in BOOLEAN
      BY <1>2 DEF CheckoutInv, CheckoutTypeOK, PaymentTypeOK
    <3> QED BY <2>1, <2>4, <3>1
            DEF Visible, Paid, Promise!Next, Promise!Pay, Promise!Book, Promise!EndSession
  <2> QED BY <2>3, <2>4
<1>3. Spec => []CheckoutInv
  BY CheckoutInvariant
<1> QED BY <1>1, <1>2, <1>3, PTL DEF Spec, ImplementsPurchase, Promise!Spec, Paid
=============================================================================
