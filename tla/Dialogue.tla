------------------------------ MODULE Dialogue -------------------------------
(***************************************************************************)
(* What one guest and the model say to each other: the history             *)
(* LlmExtractorService keeps and sends with every request, the checks of   *)
(* ConversationAgentService on a confirm_booking call, and Period.create,  *)
(* which GenerateLink asks for the stay the agent has accepted.            *)
(*                                                                         *)
(* Messages are handled one at a time (Conversation!OneAtATime), so one    *)
(* message is one step.  A turn of the history is its role, the calls of   *)
(* confirm_booking in it and the calls it holds results for.               *)
(***************************************************************************)
EXTENDS Integers, SequencesExt

CONSTANTS
  NONE,         \* undefined
  MaxMessages,  \* conversation.maxMessages
  Histories,    \* values conversation.maxHistory may have
  MaxGuests,    \* conversation.maxGuests
  MaxNights,    \* Period's maxStayingDays
  MaxDay        \* bound: days that pass, and dates the guest may name

ASSUME MessagesAssumption == MaxMessages \in Nat
ASSUME HistoriesAssumption == Histories \subseteq Nat \ {0}

VARIABLES
  maxHistory,  \* conversation.maxHistory, read from the environment at the start
  now,         \* half-days: day d begins at 2d, 2d + 1 is its 21:00, midnight UTC
  step,        \* state.step
  count,       \* state.messageCount
  history,     \* state.messageHistory
  stay,        \* state.checkIn, checkOut and guests
  booked       \* a confirm_booking call of this conversation was accepted

vars == <<maxHistory, now, step, count, history, stay, booked>>
state == <<step, count, history, stay, booked>>

BlockedSteps == {"REQUIRES_HUMAN", "LINK_SENT"}
NoStay == [checkIn |-> NONE, checkOut |-> NONE, guests |-> NONE]
Today  == now \div 2

\* What the model may pass: a field missing, an empty text, a text that is no
\* date, or a date; guests are any number, counted in halves.
BadDate   == -1
EmptyText == -2
Dates   == 0..MaxDay
Guests  == 0..2 * MaxGuests + 1
Inputs  == [checkIn  : Dates \cup {NONE, BadDate, EmptyText},
            checkOut : Dates \cup {NONE, BadDate, EmptyText},
            guests   : Guests \cup {NONE}]

-----------------------------------------------------------------------------
(* LlmExtractorService: the history *)

User(results)   == [role |-> "user", calls |-> {}, results |-> results]
Assistant(calls) == [role |-> "assistant", calls |-> calls, results |-> {}]

AppendUserBlock(h, results) ==
  IF h = <<>> \/ Last(h).role # "user" THEN Append(h, User(results))
  ELSE ReplaceAt(h, Len(h), [Last(h) EXCEPT !.results = @ \cup results])

\* slice(-maxHistory) alone.
AppendAndSlice(h, calls) ==
  LET updated == Append(AppendUserBlock(h, {}), Assistant(calls))
      from    == Len(updated) - maxHistory + 1
  IN  IF from <= 1 THEN updated ELSE SubSeq(updated, from, Len(updated))

AppendToHistory(h, calls) ==
  LET updated == Append(AppendUserBlock(h, {}), Assistant(calls))
      from    == Len(updated) - maxHistory + 1
  IN  IF from <= 1 THEN updated
      ELSE SubSeq(updated, IF updated[from].role = "assistant" THEN from + 1 ELSE from,
                  Len(updated))

\* The provider's terms: the guest's turn comes first and turns alternate, ...
Alternating(h) ==
  \A i \in 1..Len(h) : h[i].role = IF i % 2 = 1 THEN "user" ELSE "assistant"

\* ... and every call has its result in the next turn, every result its call.
Accepts(h) ==
  /\ Alternating(h)
  /\ \A i \in 1..Len(h) - 1 : h[i].calls = h[i + 1].results
  /\ h # <<>> => h[1].results = {} /\ Last(h).calls = {}

-----------------------------------------------------------------------------
(* ConversationAgentService: the fields of a call *)

IsDate(d) == d \notin {NONE, BadDate, EmptyText}

\* undefined, an empty text and 0 are missing.
FindMissing(input) ==
  {f \in DOMAIN input : \/ input[f] \in {NONE, EmptyText}
                        \/ f = "guests" /\ input[f] = 0}

FindInvalid(input) ==
  {f \in DOMAIN input :
     \/ f # "guests" /\ input[f] = BadDate
     \/ f = "checkIn" /\ IsDate(input[f]) /\ input[f] < Today
     \/ /\ f = "checkOut" /\ IsDate(input.checkIn) /\ IsDate(input.checkOut)
        /\ input.checkOut <= input.checkIn
     \/ f = "guests" /\ input[f] # NONE /\ input[f] \notin 2..2 * MaxGuests}

PreserveInput(input) ==
  [f \in DOMAIN input |-> IF input[f] = NONE THEN stay[f] ELSE input[f]]

\* A later call that leaves a field out, or gets it wrong, keeps the earlier one;
\* an empty text is neither and takes its place.
PreserveValid(input) ==
  [f \in DOMAIN input |-> IF f \in FindInvalid(input) \/ input[f] = NONE
                          THEN stay[f] ELSE input[f]]

\* new Date('YYYY-MM-DD') is midnight UTC, 21:00 of the day before in
\* HOTEL_TZ: today is always in the past, tomorrow is from 21:00 on.
Period(s) ==
  /\ 2 * s.checkIn - 1 > now
  /\ s.checkOut - s.checkIn \in 1..MaxNights

-----------------------------------------------------------------------------
Init ==
  /\ maxHistory \in Histories /\ now = 0
  /\ step = "INIT" /\ count = 0 /\ history = <<>> /\ stay = NoStay /\ booked = FALSE

Handoff ==
  /\ step' = "REQUIRES_HUMAN"
  /\ UNCHANGED <<count, history, stay, booked>>

\* The model's answer is text and is forwarded.
Reply ==
  /\ history' = AppendToHistory(history, {})
  /\ count' = count + 1
  /\ UNCHANGED <<step, stay, booked>>

\* A call the model cannot see the failure of.
AskAgainSilently(input) ==
  /\ history' = AppendToHistory(history, {count})
  /\ stay' = PreserveValid(input)
  /\ count' = count + 1
  /\ UNCHANGED <<step, booked>>

\* CONFIRM_BOOKING_INCOMPLETE, BOOKING_FIELDS_INVALID: the guest is asked again
\* and the model will see why.
AskAgain(input) ==
  /\ history' = AppendUserBlock(AppendToHistory(history, {count}), {count})
  /\ stay' = PreserveValid(input)
  /\ count' = count + 1
  /\ UNCHANGED <<step, booked>>

\* handleReady after the READY state was saved: no link, a link, or READY still,
\* without a BOT staff member, when the process dies first, or when the integer
\* column reservation_sessions.guests refuses half a guest.
Book(input) ==
  /\ history' = AppendToHistory(history, {count})
  /\ count' = count + 1 /\ booked' = TRUE
  /\ \/ step' = "INIT" /\ stay' = NoStay
     \/ step' = "LINK_SENT" /\ stay' = input /\ Period(input) /\ input.guests % 2 = 0
     \/ step' = "READY" /\ stay' = input

ConfirmBooking(input) ==
  IF FindMissing(input) \cup FindInvalid(input) = {} THEN Book(input) ELSE AskAgain(input)

\* One message of the guest, from process to the saved state.  The provider
\* refuses a request that is not on its terms: LLM_CALL_FAILED.
Message ==
  /\ step \notin BlockedSteps
  /\ \/ Handoff
     \/ /\ count < MaxMessages /\ Accepts(AppendUserBlock(history, {}))
        /\ Reply \/ \E input \in Inputs : ConfirmBooking(input)
  /\ UNCHANGED <<maxHistory, now>>

\* STATE_TTL
StateExpires ==
  /\ step' = "INIT" /\ count' = 0 /\ history' = <<>> /\ stay' = NoStay /\ booked' = FALSE
  /\ UNCHANGED <<maxHistory, now>>

Tick ==
  /\ now < 2 * MaxDay /\ now' = now + 1
  /\ UNCHANGED <<maxHistory, state>>

Next == Message \/ StateExpires \/ Tick

Spec == Init /\ [][Next]_vars

-----------------------------------------------------------------------------
(* What holds *)

\* Whatever the history is cut to, a request starts with the guest and roles
\* alternate, across calls that failed and calls that were accepted.
RequestsAlternate == Alternating(AppendUserBlock(history, {}))

\* However many calls of confirm_booking are incomplete or invalid, the model
\* can be asked again: until a call is accepted the provider takes the next
\* request, if the history holds all the messages a conversation may have.
RetriesAreAccepted ==
  ~booked /\ maxHistory >= 2 * MaxMessages => Accepts(AppendUserBlock(history, {}))

\* What is collected from calls that failed is never a text that is no date or
\* a number of guests the stay does not take, and a link is sent only for all of
\* it: nights in order, not too many, and whole guests.
StayIsSound ==
  /\ {stay.checkIn, stay.checkOut} \subseteq Dates \cup {NONE, EmptyText}
  /\ stay.guests \in (2..2 * MaxGuests) \cup {NONE}
  /\ step = "LINK_SENT" =>
       /\ {stay.checkIn, stay.checkOut} \subseteq Dates
       /\ stay.checkOut - stay.checkIn \in 1..MaxNights
       /\ stay.guests \in 2..2 * MaxGuests /\ stay.guests % 2 = 0

-----------------------------------------------------------------------------
(* What fails *)

\* A call that fails takes no date away that an earlier one has given.
CollectedDatesStay ==
  [][count' > count /\ ~booked' =>
       \A f \in {"checkIn", "checkOut"} : stay[f] \in Dates => stay'[f] \in Dates]_vars
=============================================================================
