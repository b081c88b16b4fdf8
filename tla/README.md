# Verification of linked-reservation

TLA+ models of the program under `src/`: the reservation backend and the booking
page in the browser. TLC checks them on small instances, and TLAPS proves the
properties that matter most for every value of the constants.

## 1. Inventory

The program is a NestJS monolith over one PostgreSQL database, Redis and SQS,
with a React booking page. `src/backend/src` is written `B/` below, and
`src/frontend/src` `F/`.

| Component | State | Operations | Interacts by | Module |
|---|---|---|---|---|
| **Reservation** (`B/reservation`) | `reservation_sessions` (ACTIVE, COMPLETED, EXPIRED), `reservations` (HOLD, CONFIRMED, EXPIRED, soft-deleted), exclusion constraint on room and period, unique booking reference | `GenerateLink`, `SelectRoom`, `InitiateBookingPayment`, `ConfirmPayment`, `ExpireSessionConsumer` | database transactions; SQS for the expire message and the events; called by Payment and Conversation | `Booking` |
| **Payment** (`B/payment`) | `payment_intents`, `webhook_events` | create an intent, webhook (succeeded, failed), status request and refresh from Stripe | HTTP from Stripe and the page; calls `ConfirmPayment` | `Payment` |
| **Booking page** (`F`) | route, step of the wizard, reservation, intent, polling | choose and reserve a room, pay, retry, poll every 3 s, count down | HTTP | `Checkout` |
| **Conversation** (`B/conversation`) | state and processed-message marks in Redis, a lock per stay and phone | handle an inbound WhatsApp message: lock, agent, save, reply, mark | Twilio webhook, LLM, Reservation (`GenerateLink`), Notification | `Conversation`, `Dialogue` |
| **Messaging** (`B/common/messaging`) | SQS; an outbox table | publish at once; or insert a row that a job sends | used by all | `Bus` |
| **Notification** (`B/notification`) | `notifications` (PENDING, SENT, FAILED), routing rules | consume an event, route, deduplicate, send | SQS, Twilio, e-mail | `Notification` |
| **Identity** (`B/identity`) | properties (trial, active, suspended), staff, Auth0 users | provision, first login, invite, nightly trial job | HTTP, cron, Auth0, events | `Trials` |

What is hard, and what makes each component correct:

- **Reservation.** Every handler is a sequence of statements with an `await`
  between them, in a READ COMMITTED transaction: what one statement read may be
  stale in the next. Correct means: no room twice, no confirmed guest without a
  room, a room given up only for a reason, sessions that end.
- **Payment.** Stripe repeats and reorders webhooks; the deduplication mark is
  saved before the work is done, and nothing runs in a transaction. Correct means:
  no room without a charge, no status made up, every charge tried.
- **Booking page.** Every answer arrives late: after the guest has gone back,
  retried, reloaded or left, and several polls are open at once. Correct means: no
  thanks without a booking, no failure that did not happen, no second confirmation.
- **Conversation.** The lock has a time to live shorter than the work may take;
  crashes between save, reply and mark; a history that is cut and must stay
  acceptable to the model's provider. Correct means: one message at a time per
  guest, replies that are counted, a bot that stays silent when it should.
- **Notification and messaging.** At-least-once delivery against a deduplication by
  read-then-write, a publisher that overlaps itself, one transaction for several
  sends. Correct means: nothing lost, nothing sent more often than faults explain.
- **Identity.** A batch job against concurrent requests and missed nights. Correct
  means: nobody suspended early or unwarned, no trial without end.

`PROJECT.json` lists the hazards at their lines with the properties that cover
them. A hazard without one has a note: the code does not keep the property
(section 4, *Claims that fail*), or nothing in the repository says what should
happen.

## 2. Plan

Done, in this order: `Booking` with `RoomLedger` and the proofs of its types,
exclusion and finality; `Payment` and its proofs; `Checkout` on top of it, with
`Purchase` as the promise and the refinement proved; `Conversation` and its proofs;
`Bus`, `Notification` and `Trials`; `Dialogue`; then the proofs about
`Notification`, `Trials` and `Dialogue`, and the rest of those about `Booking`, its
refinement of `RoomLedger` included. Every safety invariant, action property and
refinement that a passing run checks is also a theorem.

Left, in the order of what it would add:

1. What liveness rests on, as theorems: that a delivery or a job run that is taken
   leaves the event nearer to its end (`EventsAreHandled`), that a run of the trial
   job has read every trial that is over (`TrialsEnd`), that the transactions which
   may wait for each other are a confirmation and an expiry (`TransactionsEnd`). The
   liveness properties themselves stay with TLC.
2. What the links between modules promise: that the assumptions `Payment` makes of
   `ConfirmPayment` are what `Booking` proves of it, and `Dialogue`'s one step for a
   message what `Conversation` proves.
3. The pure functions without a module: quiet hours, the availability query, the
   amount of a stay, against reference definitions.

## 3. Modules

| Module | Role |
|---|---|
| `Booking` | the reservation module, one action per awaited statement |
| `RoomLedger` | its promise: claims on rooms, every operation one step |
| `BookingLedger` | the refinement mapping from `Booking` to `RoomLedger` |
| `Payment` | intents at Stripe and in the database, webhook, status requests |
| `Checkout` | EXTENDS `Payment`: the page in the browser and its requests |
| `Purchase` | the promise of page and server: money, then the room, then thanks |
| `Conversation` | the messages of one guest on several processes, Redis, the reply |
| `Dialogue` | the history sent to the model, the checks of the stay, `Period` |
| `Bus` | `SqsEventBus`, `OutboxEventBus`, `OutboxPublisherJob` and SQS |
| `Notification` | EXTENDS `Bus`: consumers and `NotificationService.dispatch` |
| `Trials` | EXTENDS `Notification`: properties, accounts, the trial job |
| `BookingProofs`, `ConfirmationProofs` | theorems about `Booking`; the second EXTENDS the first and `BookingLedger` |
| `PaymentProofs`, `CheckoutProofs` | theorems about `Payment` and `Checkout`; the second EXTENDS the first |
| `ConversationProofs`, `DialogueProofs` | theorems about `Conversation` and about `Dialogue` |
| `NotificationProofs`, `TrialsProofs` | theorems about `Bus` and `Notification` and about `Trials`; the second EXTENDS the first |
| `MCBooking`, `MCCheckout`, `MCConversation`, `MCDialogue`, `MCNotification`, `MCTrials` | small instances and symmetry |

In the backend's modules an action stands for one awaited statement of a handler,
because other handlers run between two of them; in `Checkout` for one event of the
page; in `Dialogue` for one message of the guest. Beside some actions stands a variant with
the plausible bug its comment names (`DeliverUnindexed`, `ReleaseAnyLock`); no
specification uses it, and it shows that the properties notice the bug.

### Booking and the code

| Variable | Code |
|---|---|
| `sess`, `resv` | committed rows of `reservation_sessions` and `reservations` |
| `sdraft`, `draft` | the uncommitted version of a row and the transaction that holds the row's lock |
| `tx` | for each connection: the handler that runs on it, the statement it is at and its local variables |
| `lapsed` | the wall clock passed `expiresAt` |
| `expireMsg`, `sent` | messages in SQS |
| `intentOf` | `payment_intents.reservation_id` |
| `reply` | what `ConfirmPayment` answered last for each intent |
| `crashes` | how often a transaction was lost (bounded) |

A handler's actions follow its `await`s: `SelectRead`, `SelectFind`, `SelectDrop`,
`SelectInsert`, `Commit` are `SelectRoom.handle`; `ExpireRead` to `ExpirePublish`
the consumer; `ConfirmFind` to `ConfirmPublish` the confirmation; `LinkSave` to
`LinkPublish` the link. Early returns are disjuncts of the action that reads the
value they test. Where a statement fails (exclusion constraint `23P01`, unique
index `23505`) PostgreSQL has aborted the transaction, so the action is a
rollback, whatever the `catch` answers; this is also why the retry in
`BookingReferenceService` cannot succeed. An `UPDATE` with a `WHERE` clause on
many rows (`ExpireScan`, `ExpireRelease`) chooses its rows from the snapshot at its
start and re-evaluates the clause once it has their locks, as READ COMMITTED does.
The exclusion constraint makes a writer wait for an open transaction whose
outcome decides the answer (`Blockers`). Deadlocks are broken by failing one of
the transactions in a cycle (`DeadlockVictim`).

Early returns that leave no trace (an absent or expired session, a room of
another stay) are no step. Guest names, amounts and message texts are left out.

Three constants stand for facts of the deployment:

- `IntentsLinked`: something stores `payment_intent_id` on the reservation. No code
  under `src/` does; the tests of `ConfirmPayment` start from rows where it is
  stored. With TRUE the external action `LinkIntent` does it.
- `ExpiryWired`: the expire consumer receives its queue. It is not a provider of
  its module, so as wired it does not.
- `FindSeesDeleted`: whether a find without `withDeleted` returns soft-deleted rows.
  The entity redeclares a `DeleteDateColumn` as a plain column. FALSE in the runs
  except `references`; the proofs hold for both, but for those of serial
  transactions.

The model takes `@Transactional()` to wrap the repositories' statements. The
persistence module registers one DataSource under two names, and if the
repositories were bound to the other one there would be no transaction at all;
every violation below would remain and more would appear.

### Payment and the code

| Variable | Code |
|---|---|
| `stripe`, `row` | an intent's status at Stripe and in `payment_intents` |
| `creating`, `known` | `createIntent` between Stripe's answer and the insert; client secrets answered |
| `aged` | rows older than `STALE_THRESHOLD_MS` (90 s) |
| `emitted`, `acked`, `saved` | events Stripe sends, those answered 2xx, rows of `webhook_events` |
| `hook`, `poll` | running webhook handlers and status requests: the statement they are at, what they have read |
| `lapsed` | the session token has expired, which the guard answers 410 |
| `tried`, `booked` | intents `ConfirmPayment` was called for and answered ok for |
| `cut` | intents whose succeeded event was lost after its row was saved (history) |

`Deliver`, `FindIntent`, `TransitionStatus` and `Confirm` are the webhook: the
event's row first, then `applyWebhookTransition`, then `ConfirmPayment`, whose
answer is logged and never reported. `ReadStatus`, `refreshFromProvider`,
`Retrieve` and `StoreRefreshed` are `GET /payment/status`. Both write whatever
the row has become meanwhile, so a late failure may overwrite `succeeded` and a
stale refresh may write `processing` over it; a row left `processing` is not
refreshed again. `NoFreeRooms` and `SucceededIsCharged` hold in spite of this.
`ConfirmPayment` is one step here that may or may not succeed; what it does is
`Booking`'s subject.

`ChargeIsTried` says how far the handling of charges goes: the row of the event is
saved first and outside a transaction, so a handler lost after it leaves a charge
that no retry confirms. Only the polling fallback then shows it to the page, and
that does not call `ConfirmPayment`.

### Checkout and the code

`page` is the state of `BookingRoute`, `BookingContext`, `PaymentStep`,
`StripeForm`, `usePaymentStatus` and `useCountdown` in one record; `Browser` lists
the guest's and the timers' events, `Server` what goes on meanwhile. `active` is
`activeRef`. Each poll of `Payment` knows whether its component is still mounted
(`caller`), because 410 is acted on without a look at `activeRef` and navigates
from any route. `strayed` is a history variable: a selection was answered when
the guest no longer looked at its room's details (`RoomDetailsStep.tsx:41`);
`onNext` then moves the wizard on with the earlier reservation, while another room
is shown. The code does not keep this case: `ShownIsReserved` excuses exactly it and
covers every other order of answers over two rooms, and `LastChoiceStands`, which
excuses nothing, fails (section 4). `waiting` and `selecting` bound the requests under
way to one of each kind.

`POST /booking/confirmation` has no route in any controller. `ConfirmServed` says
whether it reaches `ConfirmBookingConsumer.handle`, what it is meant to reach. The
`checkout` run takes TRUE, because with FALSE the page never thanks anyone; `webhook`
takes FALSE; the proofs hold for both.

Two facts of the page are covered by allowing more: the session token has two
parts and `SessionContext` decodes an expiry only from three, so the countdown may
never show (`Countdown` is a step that need not happen); and the filters answer
`{error: ...}` where the client reads `body.code`, so every refused selection or
creation looks the same.

### Conversation and the code

| Variable | Code |
|---|---|
| `tries`, `answered` | Twilio's deliveries and those answered 2xx |
| `state`, `processed`, `lock` | `conv:state`, `conv:msg` and `lock:conversation` in Redis |
| `work` | each delivery: its call, the agent's decision, the state to save, the answer |
| `noted`, `replies`, `unsent` | rows of the notification module, messages sent, sends that failed |
| `linked` | a booking link has reached the guest |
| `overdue` | workers whose lock expired while they worked |

`Receive` to `Release` are the calls of `ConversationService.handle` in their order.
The reply is the notification module's dispatch for one recipient under the
message's id (`ReplyInsert`, `ReplySend`, `ReplyCommit`); `Notification` models it
for several. `Throw` is a call that throws, so that `finally` releases the lock,
and `Crash` a process that dies. `handleReady` saves LINK_SENT although the reply
may have failed, and the model does so.

`OneReplyPerCrash` is what the idempotency key gives, for any number of processes
and deliveries and also when the lock has expired under a worker: the reply is a
send inside a transaction, so each crash may repeat it once. `BlockedStaysBlocked`
is what the lock alone gives, hence its condition `slow = 0`: a worker that has
outlived its lock may write an old state back.

The comment at `B/conversation/core/contract/conversation-lock.ts:8` and ADR 0002 let
callers go on without a lock when Redis fails; the code answers LOCK_UNAVAILABLE.
The model follows the code (`Crash` in step `acquire`).

### Dialogue and the code

One message is one step, which `Conversation!OneAtATime` justifies while locks
last. A turn of the history is its role, the calls of `confirm_booking` in it and
the calls it holds results for; `Accepts` is what the provider asks of a request:
the guest's turn first, roles in turn, and each call answered by the next turn. It
is external: the repository has it only as what `LlmExtractorService` is careful
about. Days are half-days here, because `new Date('YYYY-MM-DD')` is midnight UTC,
21:00 of the day before at the hotel: `Period` refuses a check-in today, and after
21:00 one tomorrow, that the agent's own checks have accepted.

`RetriesAreAccepted` has two conditions, and without either it fails:

- `maxHistory >= 2 * maxMessages`: a shorter history may be cut between a call and
  its result. The defaults (20 and 8) satisfy it, the configuration does not check it.
- `~booked`: an accepted call gets no result. If no link follows it (INIT after a
  failed link, READY without a BOT staff member), the next request is refused and
  the conversation goes to a human.

The fields of a call are merged as the code does it, by `incoming ?? existing`: a
field that is left out or wrong keeps the earlier value, but an empty text is
reported as missing, not as wrong, and takes the earlier value's place
(`EmptyText`, `PreserveValid`). `CollectedDatesStay` states the code's comment
against it and fails (section 4). Guests are counted in halves, because the checks
let a fractional number through and the integer column of the session refuses it:
then no link follows and the state stays READY (`Book`).

The model assumes at most one `confirm_booking` call in a response of the LLM.

### Bus, Notification, Trials and the code

`binding` is the implementation EVENT_BUS is bound to: `sqs` as wired, `outbox` as
the README describes. `OutboxPublisherJob` is registered in no module; the model
shows what it does when it is. `run` is an open transaction of the job with the
rows it has locked by FOR UPDATE SKIP LOCKED; `queue` counts visible copies. The
job reads by raw SQL, which answers `snake_case` columns, while the publisher asks
for `externalId` and `delaySeconds` (`outbox.repository.ts:22`,
`outbox-publisher.job.ts:66-68`): both are undefined, so a row's delay is not sent and
SQS never drops a copy. The model has no delays and counts every copy, so it
describes the job with these columns as well as without them.

`Consumed` names the types of events whose queue has a consumer with its handler
attached, and `Deliver` needs one. As wired it is empty: `notification.module.ts:33-57`
registers consumers under the queues' names (`property_trial_expiring`), the
handlers are decorated with the events' names (`property.trial.expiring`), and the
SQS library joins the two by equal names. `conversation.reply` has no consumer at
all; it goes by the queue only under `AsyncConversationNotifier`, while the bound
`SyncConversationNotifier` calls the dispatch directly, as `Conversation` models
it. The runs `notices` and `handled` take both types as consumed, which is what the
handlers are written for; the proofs hold for any set.

`work` holds for each handler the event and, per recipient, the statement its
`dispatchToRecipient` is at: they run at the same time on one connection, in one
transaction. After a failed statement (`aborted`) each later one throws,
`allSettled` swallows that, COMMIT is a rollback, and SQS deletes the message: the
recipients that were sent to leave no row and the others are never sent to. The rules
and quiet hours select any subset of an event's recipients (`Routes`). Staff are
never told of `session.expired` (no destination), and the trial warning has no
template: both end in `done`, and `handled` means that a handler returned, not that
somebody was told.

`Trials` counts time in midnights. `@Cron` starts `TrialExpirationJob` on every
process that is up, and nothing keeps the runs of a night apart: `job` is one run for
each of `Processes`, and their statements interleave with each other and with
requests. A run reads expired and expiring properties at the same time, suspends by
id, looks for admins and publishes; an event names the property, the night and the
process, since each process publishes a warning of its own. The runs of one night
share one calendar (`NightIsOver`). The code runs the job at midnight for two days,
while `src/README.md:347-350` says 09:00 and 24 hours. `UpsertStaff` is the guard's
row at a first login: without it no admin is known and no warning goes out, which
is why `SuspendedWasWarned` mentions `unheard`. `Activate` is external: nothing in the
repository activates a property.

`TrialsSpec` takes the bus as wired: it keeps what is published, and neither publisher
nor consumers act. `AttachedSpec` adds them. It is what the invariant is proved for,
so that `TrialsKeepNotices` says what `Notification` promises of the warnings of any
number of processes; TLC has no run of it (with one process, one publisher and no
fault it checks in seconds, with two processes and a fault it is too large).

## 4. Runs

| Run | Instance | Shows |
|---|---|---|
| `safety` | 2 sessions touching at one instant, 2 rooms, 3 rows, 1 intent, 1 reference, 2 connections | the invariants and action properties of `Booking` |
| `references` | 2 sessions, 2 rows, 2 intents, 2 references, 2 connections, 1 crash, no expiry, deleted rows seen | references are unique under concurrent confirmations |
| `liveness` | 1 session, 1 room, 2 rows, 2 connections, 1 crash | every session and every handler ends, crashes and deadlocks included |
| `serial` | 2 sessions, 2 rooms, 3 rows, 1 connection, 1 crash | serial transactions implement `RoomLedger` |
| `webhook` | 1 intent, 2 webhook deliveries and 1 status request at once, 1 decline, 1 crash | rows and charges agree, one handler per event, every event settles, every charge is tried unless its handler was lost |
| `checkout` | 1 intent, 2 rooms, 1 webhook delivery and 2 polls at once, 1 decline, 1 crash | page and server implement `Purchase`; failures shown are real, one confirmation, the room shown is the one reserved unless a selection was answered late |
| `conversation` | 2 messages, 3 workers, 2 deliveries each, 1 crash, 1 lock that expires under its worker | serialisation, replies per crash, marks, silence of the bot |
| `dialogue` | 4 messages, histories of 1, 2, 3 and 8 turns, dates over 4 days, empty and wrong ones, guests in halves | requests the provider accepts, a sound stay |
| `notices` | a routed event to 2 recipients and a reply, both buses, 2 job runs, 2 handlers, 2 faults | nothing lost, nothing sent more often than the faults explain |
| `handled` | a routed event and a reply to one recipient each, both buses, 1 job run, 2 handlers, 1 fault, consumers attached | what is published is handled in the end |
| `trials` | 1 property, a trial of 2 days, 2 processes, both buses, 1 fault | suspensions warned of, no account without its property, trials end |

One run is expected to find a violation, the disagreement between the code and
the repository's README that matters most; `PROJECT.json` quotes it. In
`confirmed_twice` a change of rooms soft-deletes a row confirmed meanwhile, and the
paid room goes to a second confirmed guest.

`serial` and `confirmed_twice` belong together: one at a time the handlers keep
the ledger's promises (proved: `SerialImplementsLedger`,
`SerialRoomsAreConfirmedOnce`), and overlapping they do not. What holds in spite of overlap
is what the database enforces (`NoDoubleBooking`, `ReferencesUnique`) or what a row
lock orders (`ConfirmedIsCompleted`, `OkMeansConfirmed`, `ConfirmedIsFinal`). Note the
distance between `NoDoubleBooking`, which holds, and `NoRoomConfirmedTwice`, which
does not: the constraint speaks of rows that are not soft-deleted.

### Claims that fail

The modules also state claims of the repository's comments, tests and README, and
liveness properties that need a consumer, which do not hold of the code. They have
no run of their own; each is reproduced in seconds. For those of `Booking`, take
`MCBooking_liveness.cfg` with the changes below (without the two PROPERTIES it names;
MaxCrashes 0, SPECIFICATION `Spec` and 2 connections unless said otherwise):

| Claim | Instance | What TLC finds |
|---|---|---|
| INVARIANT `OneRoomPerSession` | Rooms {rA, rB} | two concurrent selections both find no earlier hold and leave a session with two rooms |
| INVARIANT `ExpiryReleasesHolds` | Rooms {rA, rB} | a selection that read the session before its expiry commits a hold after it; nothing releases it |
| PROPERTY `ExpiredIsFinal` | Reservations {h1} | a confirmation overwrites an expiry that committed after its check |
| INVARIANT `OneConfirmedEvent` | Reservations {h1}, Refs {f1, f2} | two concurrent confirmations publish two events with two references |
| INVARIANT `EventsAreAtomic` | Reservations {h1}, Txs {t1}, MaxCrashes 1 | events are sent before COMMIT; a crash leaves an event with no change |
| PROPERTY `SessionsEnd` under `FairSpec` | Reservations {h1}, Txs {t1}, ExpiryWired FALSE | as wired, the expire consumer is not a provider of its module, and an unpaid session never ends |
| INVARIANT `PaidReservationIsFound` | IntentsLinked FALSE | as wired nothing stores `payment_intent_id`, and every paid intent is RESERVATION_NOT_FOUND, although `src/README.md:339` goes on to CONFIRMED |

For the others, take the cfg named, with the claim in place of its properties and
without SYMMETRY:

| Claim | Instance | What TLC finds |
|---|---|---|
| INVARIANT `LastChoiceStands` | `MCCheckout_checkout.cfg` | the guest goes back and chooses another room while a selection is under way; its answer moves the wizard on with the first room (`RoomDetailsStep.tsx:41`) |
| INVARIANT `WarnedInTime` | `MCTrials_trials.cfg`, MaxFaults 0 | one process's run warns a property that another's has just suspended: it had read it as expiring, and when it reads the expired ones the property is no longer on trial. `B/identity/__test__/integrations/trial-expiration.spec.ts:93` says that no warning goes out for an expired one |
| PROPERTY `CollectedDatesStay` | `MCDialogue_dialogue.cfg` | an empty date in a later call takes away the date collected before, although `conversation-agent.service.ts:103-104` keeps "any fields it did extract correctly" |
| PROPERTY `EventsAreHandled` | `MCNotification_handled.cfg`, Consumed = {} | as wired no handler is attached to a queue, although `src/README.md:341` and `:351` let `NotificationModule` notify staff and the admin |

### Bounds

Two connections, deliveries, polls, handlers or job runs suffice for a race of
two; a third one's effect is that of one that ran before or after. In
`conversation` a third worker is there because one may have outlived its lock and
another may wait for it. Named bounds: `MaxCrashes`, `MaxFaults`, `MaxDeclines`,
`MaxTries`, `MaxSlow`, `MaxDay`; `RowLeft` lets a selection start only while a row is
left to insert; `SelectionAnswered` and `CreateAnswered` answer one request of their
kind at a time; `NightIsOver` lets requests and runs end before the next midnight.

- `Booking`: three rows are needed for a change of rooms (two rows) next to another
  session's reservation. Two stays that share one instant exercise the closed ends
  of the ranges; `confirmed_twice` takes two stays that share a night. `LinkedSpec`
  starts `references` and `confirmed_twice` in the state after both links were sent,
  which `Spec` reaches. The liveness instance has one session and one room: it keeps
  the deadlock of a confirmation with an expiry and the redelivery after a crash,
  and leaves out changes of rooms.
- `Payment`, `Checkout`: one intent already has every order of success, failure,
  refresh and confirmation. `webhook` takes two deliveries at once and one status
  request, `checkout` one delivery and two polls, so each race of two is in one of
  them; `checkout` takes two rooms, so that the room shown may differ from the one
  reserved; the theorems hold for any number of each. Retries on a second intent are
  not in these instances: `FailureIsReal` and `ImplementsPurchase` are proved for them.
  `ConfirmServed` is FALSE in `webhook`, so
  that no poll can make up for a lost handler.
- `Notification`: two recipients are the smallest dispatch in which one's failure
  rolls back another's row; two faults let a duplicated message meet a crash.
  `handled` has one recipient for each event, so that liveness is checked over
  dispatches that insert, send and mark, over both buses and with one fault. The
  reply has a recipient of its own, so that the two of the routed event are
  symmetric.
- `Trials`: two midnights are the shortest trial with both warnings; the third shows
  the suspension. Two processes show every race of two runs of a night; the proofs
  take any number. One fault lets a night be missed, or one run be lost while the
  other goes on. One property is enough because the job treats
  them apart, except for the batch that a lost run leaves undone, which one property
  shows too.
- `Dialogue`: histories of 1, 2 and 3 turns are cut in the middle of a call and at
  an odd and an even place, and 8 holds the four messages. Two nights and two
  guests, counted in halves, put every limit within reach of the inputs.

Deadlock checking is off where a finished system stops: every session ended and
every row used, every message answered, every trial over. It is on in `dialogue`.

Reservations, rooms, references, connections, polls, workers, messages, publisher
runs and equal recipients are symmetric sets in the safety runs (no property or
constant tells their members apart); liveness is checked without symmetry.

### Fairness

- **Handlers.** Weak fairness of each handler's next statement: Node runs every ready
  continuation and PostgreSQL every statement that can run, and it detects
  deadlocks. In `Payment` a handler may still be lost instead, as a crash is no
  statement.
- **Deadlocks.** Strong fairness of the two statements of `Booking` that can deadlock:
  PostgreSQL's lock queues are first come, first served, so when one of them is the
  victim the other, which waits already, gets the row before a redelivery can.
  Without it the two handlers may deadlock again and again with alternating victims.
- **SQS and Stripe.** Strong fairness of the delivery of each expire message and of
  each event of Stripe: both redeliver until a delivery ends normally, and a delivery
  needs a free connection or handler now and then. In `Notification` a consumer that
  is attached (`Consumed`) keeps polling, and weak fairness of its delivery is enough
  because a message stays visible until it is taken. A queue without one delivers
  nothing: `EventsAreHandled` is a statement about the handlers, not about the
  wiring, under which it fails.
- **The outbox job** runs every ten seconds: weak fairness of each of its runs.
- **The trial job.** Days pass, the scheduler starts the job on the processes that are
  up, and each process's run and a request that has saved a property go on: weak
  fairness of each. A night may be missed only
  as one of the faults.

Nothing makes a session lapse or guests select, pay or talk, nothing makes an
admin log in or anybody activate a property, and no fault is ever forced.
`SessionsEnd` does not need the first: SQS keeps its own clock for the delay of the
expire message.

## 5. Proofs

The proofs hold for any sets the constants name. Their assumptions are the named
ones of the modules: NONE is none of the constants' members and no record
(`NullAssumption`), bounds are natural numbers, a stay begins before it ends, a trial
has at least two days (`TRIAL_DAYS` is 7), a history holds at least one
turn. TLC evaluates each in every run that uses the module.

`BookingProofs`, for any sets of sessions, rooms, rows, intents, references and
connections:

- `TypeCorrect`: `Spec => []TypeOK`. `TypeOK` is inductive because it also says who
  may hold a lock: an open transaction past its first write, on an existing row.
  Without that a handler that returns early could leave its locks behind, and a
  soft-delete could turn an absent row into no row at all.
- `ExclusionHolds`: `Spec => []ExclusionInv`, and from it
  `NoDoubleBookingHolds`: `Spec => []NoDoubleBooking`. `NoDoubleBooking` speaks of
  committed rows and is not inductive: a commit publishes versions about which it
  says nothing. `ExclusionInv` adds that an uncommitted version conflicts neither
  with another uncommitted version nor with a committed row unless the same
  transaction has rewritten that row. `DraftStep` shows that a write which keeps
  this for the rows it writes keeps it for all; `CheckedWrite`, that waiting for
  `Blockers` and failing on `Excluded` is enough; `CommitStep` and `RollbackStep`,
  that the end of a transaction keeps it.
- `ConfirmedIsFinalHolds`: `Spec => ConfirmedIsFinal`, from `FinalInv`: nobody holds
  a version of a confirmed row in which it is not confirmed.

`ConfirmationProofs`, for the same sets and for both values of `FindSeesDeleted`:

- `WorkHolds`: `Spec => []WorkInv`, the invariant under the others. None of the
  properties below is inductive, because a COMMIT publishes versions they do not
  mention. `WorkInv` says, for every open transaction, what it has written at each
  of its statements (`HandlerInv`: a confirmation past `assign` holds its row with a
  reference, past `confirm` with status CONFIRMED, past `complete` the session too),
  and for every uncommitted version, which handler it comes from and how it differs
  from the committed row (`VersionInv`). No step of another transaction disturbs
  either, because it cannot write a row whose lock it has not.
- `ConfirmedAreCompleted`: with `CompletedIsKept` (nobody holds a version of a
  completed session in which it is not completed), which is where the session's row
  lock orders a confirmation and an expiry.
- `ReferencesAreUnique`: from `RefsDiffer`, the unique index on versions as well as
  on rows: a collision waits for the other transaction or fails.
- `OkIsConfirmed`: a confirmed row stays confirmed and keeps its intent
  (`StandingStays`), so an answer once true stays true.
- `SwitchesAreAtomic`: a drop is committed only together with its insert
  (`CommitReplaces`).
- `SerialImplementsLedger`: with one connection (`Serial`) `Spec => ImplementsLedger`.
  `SerialInv` says that what a handler has read is still true: the hold it drops is
  the only one of its session, an expiry has rewritten all of them, a confirmation's
  row is a hold of an ACTIVE session. Hence each COMMIT has one of four effects
  (`Opened`, `Switched`, `Lapsed`, `Settled`), each of which is a step of `RoomLedger`;
  all other steps, crashes and deadlocks included, leave the ledger as it is. The
  hypothesis is what the run `serial` instantiates, and it cannot be dropped: with
  two connections `OneRoomPerSession` and `ExpiryReleasesHolds` fail (section 4). It
  also needs `FindSeesDeleted` FALSE: otherwise a confirmation finds the row of a
  room that was given up.
- `SerialRoomsAreConfirmedOnce` and `SerialExpiryIsComplete`: of the claims that
  fail, `NoRoomConfirmedTwice`, `ExpiryReleasesHolds` and `ExpiredIsFinal` hold with
  one connection. It is the overlap of transactions that breaks them and nothing in
  a handler taken alone.

`PaymentProofs`, for any sets of intents, webhook handlers and status requests:
`PaymentInvariant`, `PaymentSpec => []PaymentInv`, and from it `NoRoomIsFree`,
`RowsDoNotInvent`, `ChargesHaveRows` and `EventsAreHandledAlone`. `NoFreeRooms` alone
is not inductive: who confirms relies on a row or an event. `PaymentInv` says what
each carrier of a status may claim: events have happened (`EventsAreTrue`), rows
with a final status and the order of insert and client secret (`RowsAreTrue`),
handlers and the rows of their events (`HandlersAreSaved`), what a request has read
or answers (`AnswersAreTrue`). Each is a claim about the past that Stripe never
takes back, which is why stale reads and overwritten rows do no harm.

`CheckoutProofs` extends it to the page. Every step of `Checkout` is a step of
`Payment` or leaves it unchanged (`StepsArePayments`), so `PaymentInv` carries over
(`CheckoutKeepsPayment`). `CheckoutInv` adds the shape of the page (`PageShape`:
what belongs to the payment step is gone with it) and of the polls somebody waits
for (`PollsShape`: once one has sent the confirmation nobody listens to the
others). From it follow `ConfirmationIsSentOnce`, `FailureIsNotInvented` and
`TheRoomShownIsReserved`. `CheckoutImplementsPurchase` proves the refinement under
the mapping of `Checkout!Promise`: initial states map to initial states and every
step to a step of `Purchase` or a stutter.

`ConversationProofs`, for any sets of messages and workers and any bounds:
`ConversationInvariant`, and from it `MessagesAreSerialised`, `RepliesAreCounted`,
`MarkedMeansReplied` and `BlockedConversationsStay`. The count of replies needs
`DispatchOnce` (one open dispatch per message, none after its row) and
`RepliesCounted` (a reply that no open or committed dispatch accounts for has cost
a crash); the marks need `TriedBeforeMarked`; the silence of the bot needs
`StateIsKnown`: while no worker has outlived its lock, the one at work knows the
state that is stored.

`NotificationProofs`, for any sets of events, recipients, job runs and handlers, both
buses and any number of faults: `NotificationInvariant`, `Spec => []NotificationInv`.

- `PublishedIsKept` (`NothingIsLost`) from `OutboxIsKept`: a run holds unpublished
  rows alone, and what it sent is in the queue, with a handler or handled, so the
  mark `published` never overtakes the message.
- `SendsAreCounted` (`SendsPerFault`) from two counts. `CopiesCounted`, for all
  events: messages sent, copies in the queue, handlers that have yet to send and the
  row no run has sent are together at most one, plus one for each crash and each
  copy SQS adds. `KeyedCounted`, for events with an idempotency key: one handler at
  most holds the row (`KeyIsUnique`, the partial unique index with its waits), and a
  message no row accounts for was lost with its transaction to a crash.
- `CommittedRowsAreTrue` (`RowsAreTrue`) from `HandlersOK`, which says what a
  handler's row contains at each of its statements, after a failed one too.

`TrialsProofs`, for any sets of properties and processes and any length of the trial:
`TrialsInvariant`. Each step is a step of `Notification`, a publication, or leaves
it unchanged, so `NotificationInv` carries over (`TrialsKeepNotices`); the invariant
is proved with publisher and consumers at work (`AttachedSpec`), which the wired bus
is a case of (`WiredIsAttached`). The rest is
about runs that overlap and see each other's suspensions:

- `RunOK` says of each run alone what its reads contain: what it read as expired was
  over, what it read as expiring at most a day from it, whatever became of either
  meanwhile, and every trial that is still so is among them.
- `WarnedOnce`: no process publishes a night's warning before the night or twice in
  it, which is what a `Publish` asks for.
- `WasTold`, unless all runs of a night were lost: for a property that is suspended or
  that a run may still suspend (`Owed`), the warnings of the nights behind it are
  out or were unheard; tonight's is so once a run has ended, and a run that
  publishes has it out or still to publish.

From them follow `SuspendedWereWarned` and `NoAccountWithoutProperty`. Nothing of the
kind holds for `WarnedInTime` (section 4).

`DialogueProofs`, for any limits of messages, history, guests and nights:
`DialogueInvariant`, and from it `RequestsDoAlternate`, `RetriesAreTaken` and
`LinksAreSound`. A call is accepted only if none of its own fields is missing or wrong
(`AcceptedIsComplete`), so that an empty text collected earlier never reaches a link;
`Period` checks the dates again, and the column takes whole guests alone. The lemmas
on the history (`UserBlock`, `AssistantTurn`, `CutAtUser`, `AnsweredIsAccepted`) say
what each operator keeps of an alternating history.
`RetriesAreAccepted` needs `HistoryIsKept`: until a call is accepted the history has
at most two turns a message, and so none is cut away from its result.

Only model-checked: liveness under fairness, which is out of the prover's reach
(`SessionsEnd`, `TransactionsEnd`, `EventsSettle`, `ChargeIsTried`,
`EventsAreHandled`, `TrialsEnd`).

## 6. Not modelled

- **Payment events consumer** (`B/payment/jobs/payment-events.consumer.ts`): nothing
  publishes the events it consumes.
- **Confirmation page** and other presentation: `Checkout` ends where the page
  begins. It receives no token: the wizard sets `?token=` and then navigates without
  it, so the page shows its token error. This is a fact of one line that a model
  would only repeat.
- **Availability query, tokens, confirmation view**: they read and compute, and no
  state changes; `Payment`'s `lapsed` stands for the expiry of a token.
- **Guards, configuration, database plumbing, health checks, the in-memory bus**: no
  state of their own beyond what the models take from them.
- **Legacy `ConfirmReservation`**: always throws.
- **Prompts, templates, texts, amounts, names.** No property is about them, and what
  the LLM says is any choice the agent's code accepts.
