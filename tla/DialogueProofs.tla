---------------------------- MODULE DialogueProofs ----------------------------
(***************************************************************************)
(* Proofs about Dialogue, for any limits of conversation and history: the  *)
(* requests to the model alternate, calls that fail can be retried, and a  *)
(* link is sent for a stay that is complete.                               *)
(***************************************************************************)
EXTENDS Dialogue, TLAPS

-----------------------------------------------------------------------------
(* The history *)

Turns == [role : {"user", "assistant"}, calls : SUBSET Nat, results : SUBSET Nat]

\* An alternating history ends with the guest's turn when its length is odd.
LEMMA LastRole ==
  ASSUME NEW h \in Seq(Turns), Alternating(h), h # <<>>
  PROVE  /\ Len(h) \in Nat \ {0} /\ Last(h) = h[Len(h)] /\ Last(h) \in Turns
         /\ Last(h).role = "user" <=> Len(h) % 2 = 1
<1>1. Len(h) \in Nat \ {0}
  OBVIOUS
<1>2. Last(h) = h[Len(h)] /\ Last(h) \in Turns
  BY <1>1 DEF Last
<1>3. h[Len(h)].role = IF Len(h) % 2 = 1 THEN "user" ELSE "assistant"
  BY <1>1 DEF Alternating
<1> QED BY <1>1, <1>2, <1>3

\* The guest's block joins the guest's turn, or begins one.
LEMMA UserBlock ==
  ASSUME NEW h \in Seq(Turns), Alternating(h), NEW r \in SUBSET Nat
  PROVE  /\ AppendUserBlock(h, r) \in Seq(Turns)
         /\ Alternating(AppendUserBlock(h, r))
         /\ Len(AppendUserBlock(h, r)) % 2 = 1
         /\ Len(AppendUserBlock(h, r)) = IF Len(h) % 2 = 1 THEN Len(h) ELSE Len(h) + 1
<1>1. User(r) \in Turns /\ User(r).role = "user"
  BY DEF User, Turns
<1>2. CASE h = <<>> \/ Last(h).role # "user"
  <2> DEFINE b == Append(h, User(r))
  <2>1. Len(h) \in Nat /\ Len(h) % 2 = 0
    BY <1>2, LastRole
  <2>2. b \in Seq(Turns) /\ Len(b) = Len(h) + 1 /\ b[Len(h) + 1] = User(r)
        /\ \A i \in 1..Len(h) : b[i] = h[i]
    BY <1>1, <2>1
  <2>3. (Len(h) + 1) % 2 = 1
    BY <2>1
  <2>4. Alternating(b)
    BY <1>1, <2>1, <2>2, <2>3 DEF Alternating
  <2>5. AppendUserBlock(h, r) = b
    BY <1>2 DEF AppendUserBlock
  <2> QED BY <2>1, <2>2, <2>3, <2>4, <2>5
<1>3. CASE ~(h = <<>> \/ Last(h).role # "user")
  <2> DEFINE t == [Last(h) EXCEPT !.results = @ \cup r]
             b == ReplaceAt(h, Len(h), t)
  <2>1. Len(h) \in Nat \ {0} /\ Len(h) % 2 = 1 /\ Last(h) \in Turns /\ Last(h) = h[Len(h)]
    BY <1>3, LastRole
  <2>2. t \in Turns /\ t.role = "user"
    BY <1>3, <2>1 DEF Turns
  <2> HIDE DEF t
  <2>3. b \in Seq(Turns) /\ Len(b) = Len(h)
        /\ \A i \in 1..Len(h) : b[i] = IF i = Len(h) THEN t ELSE h[i]
    BY <2>1, <2>2 DEF ReplaceAt
  <2>4. Alternating(b)
    BY <2>1, <2>2, <2>3 DEF Alternating
  <2>5. AppendUserBlock(h, r) = b
    BY <1>3 DEF AppendUserBlock, t
  <2> QED BY <2>1, <2>3, <2>4, <2>5
<1> QED BY <1>2, <1>3

\* A guest's turn that is there already takes no results in and stays as it is.
LEMMA SameBlock ==
  ASSUME NEW h \in Seq(Turns), Alternating(h), Len(h) % 2 = 1
  PROVE  AppendUserBlock(h, {}) = h
<1>1. h # <<>>
  OBVIOUS
<1>2. Len(h) \in Nat \ {0} /\ Last(h) = h[Len(h)] /\ Last(h) \in Turns /\ Last(h).role = "user"
  BY <1>1, LastRole
<1>3. [Last(h) EXCEPT !.results = @ \cup {}] = Last(h)
  BY <1>2 DEF Turns
<1>4. ReplaceAt(h, Len(h), Last(h)) = h
  BY <1>2 DEF ReplaceAt
<1> QED BY <1>1, <1>2, <1>3, <1>4 DEF AppendUserBlock

\* The model's turn follows the guest's.
LEMMA AssistantTurn ==
  ASSUME NEW u \in Seq(Turns), Alternating(u), Len(u) % 2 = 1, NEW c \in SUBSET Nat
  PROVE  LET b == Append(u, Assistant(c))
         IN  /\ b \in Seq(Turns) /\ Alternating(b)
             /\ Len(b) = Len(u) + 1 /\ Len(b) % 2 = 0
             /\ b[Len(b)] = Assistant(c) /\ \A i \in 1..Len(u) : b[i] = u[i]
<1> DEFINE b == Append(u, Assistant(c))
<1>1. Assistant(c) \in Turns /\ Assistant(c).role = "assistant"
  BY DEF Assistant, Turns
<1>2. Len(u) \in Nat /\ (Len(u) + 1) % 2 = 0
  OBVIOUS
<1>3. b \in Seq(Turns) /\ Len(b) = Len(u) + 1 /\ b[Len(u) + 1] = Assistant(c)
      /\ \A i \in 1..Len(u) : b[i] = u[i]
  BY <1>1, <1>2
<1> HIDE DEF b
<1>4. Alternating(b)
  <2>1. \A i \in 1..Len(u) : b[i].role = IF i % 2 = 1 THEN "user" ELSE "assistant"
    BY <1>3 DEF Alternating
  <2>2. b[Len(u) + 1].role = IF (Len(u) + 1) % 2 = 1 THEN "user" ELSE "assistant"
    BY <1>1, <1>2, <1>3
  <2> QED BY <1>2, <1>3, <2>1, <2>2 DEF Alternating
<1> QED BY <1>2, <1>3, <1>4 DEF b

\* The end of an alternating history that begins at a turn of the guest alternates.
LEMMA CutAtUser ==
  ASSUME NEW h \in Seq(Turns), Alternating(h), Len(h) % 2 = 0,
         NEW from \in 1..Len(h) + 1, from % 2 = 1
  PROVE  LET b == SubSeq(h, from, Len(h))
         IN  b \in Seq(Turns) /\ Alternating(b) /\ Len(b) % 2 = 0
<1> DEFINE b == SubSeq(h, from, Len(h))
<1>1. Len(h) \in Nat /\ from \in Nat \ {0}
  OBVIOUS
<1>2. b \in Seq(Turns) /\ Len(b) = Len(h) - from + 1
      /\ \A i \in 1..Len(h) - from + 1 : b[i] = h[i + from - 1]
  BY <1>1
<1>3. Len(b) % 2 = 0
  BY <1>1, <1>2
<1>4. \A i \in 1..Len(b) : i + from - 1 \in 1..Len(h) /\ (i + from - 1) % 2 = i % 2
  BY <1>1, <1>2
<1>5. Alternating(b)
  BY <1>2, <1>4 DEF Alternating
<1> QED BY <1>2, <1>3, <1>5

\* appendToHistory keeps a history that begins with the guest and alternates,
\* whatever the history is cut to, and leaves one that is short enough alone.
LEMMA HistoryAppended ==
  ASSUME NEW h \in Seq(Turns), Alternating(h), NEW c \in SUBSET Nat,
         maxHistory \in Nat \ {0}
  PROVE  /\ AppendToHistory(h, c) \in Seq(Turns) /\ Alternating(AppendToHistory(h, c))
         /\ Len(AppendToHistory(h, c)) % 2 = 0
         /\ Len(AppendUserBlock(h, {})) < maxHistory
              => AppendToHistory(h, c) = Append(AppendUserBlock(h, {}), Assistant(c))
<1> DEFINE u == AppendUserBlock(h, {})
           updated == Append(u, Assistant(c))
           from == Len(updated) - maxHistory + 1
           start == IF updated[from].role = "assistant" THEN from + 1 ELSE from
<1>1. u \in Seq(Turns) /\ Alternating(u) /\ Len(u) % 2 = 1
  BY UserBlock
<1> HIDE DEF u
<1>2. /\ updated \in Seq(Turns) /\ Alternating(updated)
      /\ Len(updated) = Len(u) + 1 /\ Len(updated) % 2 = 0
  BY <1>1, AssistantTurn
<1>3. Len(u) \in Nat /\ Len(updated) \in Nat /\ from \in Int
  BY <1>1, <1>2
<1> HIDE DEF updated
<1>4. CASE from <= 1
  <2>1. AppendToHistory(h, c) = updated
    BY <1>4 DEF AppendToHistory, updated, u
  <2> QED BY <1>2, <2>1 DEF updated, u
<1>5. CASE from > 1
  <2>1. from \in 1..Len(updated)
    BY <1>3, <1>5
  <2>2. updated[from].role = IF from % 2 = 1 THEN "user" ELSE "assistant"
    BY <1>2, <2>1 DEF Alternating
  <2>3. start \in 1..Len(updated) + 1 /\ start % 2 = 1
    <3>1. CASE from % 2 = 1
      BY <2>1, <2>2, <3>1, <1>3
    <3>2. CASE from % 2 # 1
      <4>1. start = from + 1
        BY <2>2, <3>2
      <4>2. (from + 1) % 2 = 1 /\ from + 1 \in 1..Len(updated) + 1
        BY <1>3, <2>1, <3>2
      <4> QED BY <4>1, <4>2
    <3> QED BY <3>1, <3>2
  <2>4. AppendToHistory(h, c) = SubSeq(updated, start, Len(updated))
    <3>1. ~(from <= 1)
      BY <1>3, <1>5
    <3> QED BY <3>1, Zenon DEF AppendToHistory, updated, u
  <2> HIDE DEF start
  <2>5. /\ SubSeq(updated, start, Len(updated)) \in Seq(Turns)
        /\ Alternating(SubSeq(updated, start, Len(updated)))
        /\ Len(SubSeq(updated, start, Len(updated))) % 2 = 0
    BY <1>2, <2>3, CutAtUser
  <2>6. ~(Len(u) < maxHistory)
    BY <1>2, <1>3, <1>5
  <2> QED BY <2>4, <2>5, <2>6 DEF u
<1> QED BY <1>3, <1>4, <1>5

\* A request on the provider's terms, the model's turn and the results of its
\* calls make the next request one on the provider's terms.
LEMMA AnsweredIsAccepted ==
  ASSUME NEW u \in Seq(Turns), Accepts(u), Len(u) % 2 = 1, NEW c \in SUBSET Nat
  PROVE  LET b == Append(u, Assistant(c))
         IN  /\ Accepts(AppendUserBlock(b, c))
             /\ Len(AppendUserBlock(b, c)) = Len(u) + 2
             /\ Len(AppendUserBlock(b, c)) % 2 = 1
<1> DEFINE b == Append(u, Assistant(c))
           v == AppendUserBlock(b, c)
<1>1. Alternating(u) /\ Len(u) \in Nat \ {0} /\ u # <<>> /\ u[1].results = {} /\ u[Len(u)].calls = {}
  <2>1. Alternating(u) /\ Len(u) \in Nat \ {0} /\ u # <<>>
    BY DEF Accepts
  <2> QED BY <2>1, LastRole DEF Accepts
<1>2. /\ b \in Seq(Turns) /\ Alternating(b)
      /\ Len(b) = Len(u) + 1 /\ Len(b) % 2 = 0
      /\ b[Len(b)] = Assistant(c) /\ \A i \in 1..Len(u) : b[i] = u[i]
  BY <1>1, AssistantTurn
<1> HIDE DEF b
<1>3. b # <<>> /\ Last(b).role # "user"
  BY <1>1, <1>2, LastRole
<1>4. v = Append(b, User(c))
  BY <1>3 DEF AppendUserBlock
<1>5. v \in Seq(Turns) /\ Alternating(v) /\ Len(v) % 2 = 1
  BY <1>2, UserBlock
<1> HIDE DEF v
<1>6. Len(v) = Len(u) + 2 /\ v[Len(u) + 1] = Assistant(c) /\ v[Len(u) + 2] = User(c)
      /\ \A i \in 1..Len(u) : v[i] = u[i]
  <2>1. User(c) \in Turns
    BY DEF User, Turns
  <2> QED BY <1>1, <1>2, <1>4, <2>1
<1>7. \A i \in 1..Len(v) - 1 : v[i].calls = v[i + 1].results
  <2> SUFFICES ASSUME NEW i \in 1..Len(v) - 1 PROVE v[i].calls = v[i + 1].results
    OBVIOUS
  <2>1. CASE i < Len(u)
    <3>1. i \in 1..Len(u) - 1 /\ i + 1 \in 1..Len(u)
      BY <1>1, <2>1
    <3>2. u[i].calls = u[i + 1].results
      BY <3>1 DEF Accepts
    <3> QED BY <1>6, <3>1, <3>2
  <2>2. CASE i = Len(u)
    <3>1. v[i].calls = {}
      BY <1>1, <1>6, <2>2
    <3>2. v[i + 1].results = {}
      BY <1>6, <2>2 DEF Assistant
    <3> QED BY <3>1, <3>2
  <2>3. CASE i = Len(u) + 1
    <3>1. i + 1 = Len(u) + 2
      BY <1>1, <2>3
    <3> QED BY <1>6, <2>3, <3>1 DEF Assistant, User
  <2> QED BY <1>1, <1>6, <2>1, <2>2, <2>3
<1>8. v # <<>> => v[1].results = {} /\ Last(v).calls = {}
  <2>1. v[1].results = {}
    BY <1>1, <1>6
  <2>2. Last(v).calls = {}
    <3>1. v # <<>>
      BY <1>1, <1>6
    <3>2. Last(v) = v[Len(v)]
      BY <1>5, <3>1, LastRole
    <3> QED BY <1>6, <3>2 DEF User
  <2> QED BY <2>1, <2>2
<1> QED BY <1>5, <1>6, <1>7, <1>8 DEF Accepts, v, b

-----------------------------------------------------------------------------
(* The stay *)

Collected == Dates \cup {NONE, EmptyText}

Stays == [checkIn : Collected, checkOut : Collected, guests : (2..2 * MaxGuests) \cup {NONE}]

Fields == {"checkIn", "checkOut", "guests"}

\* What is kept of a call that failed is right field by field.
LEMMA ValidIsKept ==
  ASSUME NEW input \in Inputs, stay \in Stays
  PROVE  PreserveValid(input) \in Stays
<1> DEFINE p == PreserveValid(input)
<1>1. DOMAIN input = Fields
  BY DEF Inputs, Fields
<1>2. p = [f \in Fields |-> IF f \in FindInvalid(input) \/ input[f] = NONE
                            THEN stay[f] ELSE input[f]]
  BY <1>1 DEF PreserveValid
<1>3. stay["checkIn"] \in Collected /\ stay["checkOut"] \in Collected
      /\ stay["guests"] \in (2..2 * MaxGuests) \cup {NONE}
  BY DEF Stays
<1>4. /\ input["checkIn"] \in Collected \cup {BadDate}
      /\ input["checkOut"] \in Collected \cup {BadDate}
  BY DEF Inputs, Collected
<1>5. p["checkIn"] \in Collected
  <2>1. "checkIn" \in Fields
    BY DEF Fields
  <2>2. input["checkIn"] = BadDate => "checkIn" \in FindInvalid(input)
    BY <1>1, <2>1 DEF FindInvalid
  <2> QED BY <1>2, <1>3, <1>4, <2>1, <2>2
<1>6. p["checkOut"] \in Collected
  <2>1. "checkOut" \in Fields
    BY DEF Fields
  <2>2. input["checkOut"] = BadDate => "checkOut" \in FindInvalid(input)
    BY <1>1, <2>1 DEF FindInvalid
  <2> QED BY <1>2, <1>3, <1>4, <2>1, <2>2
<1>7. p["guests"] \in (2..2 * MaxGuests) \cup {NONE}
  <2>1. "guests" \in Fields
    BY DEF Fields
  <2>2. input["guests"] # NONE /\ input["guests"] \notin 2..2 * MaxGuests
          => "guests" \in FindInvalid(input)
    BY <1>1, <2>1 DEF FindInvalid
  <2> QED BY <1>2, <1>3, <2>1, <2>2
<1>8. p = [checkIn |-> p["checkIn"], checkOut |-> p["checkOut"], guests |-> p["guests"]]
  BY <1>2 DEF Fields
<1> HIDE DEF p
<1>9. p \in Stays
  BY <1>5, <1>6, <1>7, <1>8 DEF Stays
<1> QED BY <1>9 DEF p

\* A call that is accepted names dates, and a number of guests that is allowed.
LEMMA AcceptedIsComplete ==
  ASSUME NEW input \in Inputs, FindMissing(input) \cup FindInvalid(input) = {}
  PROVE  /\ input \in Stays /\ input.checkIn \in Dates /\ input.checkOut \in Dates
         /\ input.guests \in 2..2 * MaxGuests
<1>1. DOMAIN input = Fields
  BY DEF Inputs, Fields
<1>2. \A f \in Fields : input[f] \notin {NONE, EmptyText} /\ f \notin FindInvalid(input)
  BY <1>1 DEF FindMissing
<1>3. "checkIn" \in Fields /\ "checkOut" \in Fields /\ "guests" \in Fields
  BY DEF Fields
<1>4. input["checkIn"] # BadDate /\ input["checkOut"] # BadDate
  BY <1>1, <1>2, <1>3 DEF FindInvalid
<1>5. input["guests"] \in 2..2 * MaxGuests
  BY <1>1, <1>2, <1>3 DEF FindInvalid
<1>6. input["checkIn"] \in Dates /\ input["checkOut"] \in Dates
  BY <1>2, <1>3, <1>4 DEF Inputs
<1>7. input \in Stays
  BY <1>5, <1>6 DEF Inputs, Stays, Collected
<1> QED BY <1>5, <1>6, <1>7

-----------------------------------------------------------------------------
(* The invariant *)

TypesOK ==
  /\ history \in Seq(Turns)
  /\ count \in Nat
  /\ maxHistory \in Nat \ {0}
  /\ stay \in Stays

\* Until a call is accepted, no message leaves more than two turns and the next
\* request is one the provider takes.
HistoryIsKept ==
  ~booked /\ maxHistory >= 2 * MaxMessages =>
    /\ Accepts(AppendUserBlock(history, {}))
    /\ Len(history) <= 2 * count + 1

LinkIsComplete ==
  step = "LINK_SENT" => /\ stay.checkIn \in Dates /\ stay.checkOut \in Dates
                        /\ stay.checkOut - stay.checkIn \in 1..MaxNights
                        /\ stay.guests \in 2..2 * MaxGuests /\ stay.guests % 2 = 0

DialogueInv ==
  /\ TypesOK
  /\ Alternating(history)
  /\ HistoryIsKept
  /\ LinkIsComplete

\* A conversation without a word.
LEMMA NewConversation ==
  /\ <<>> \in Seq(Turns) /\ Alternating(<<>>) /\ Len(<<>>) = 0
  /\ Accepts(AppendUserBlock(<<>>, {}))
  /\ NoStay \in Stays
<1>1. <<>> \in Seq(Turns) /\ Alternating(<<>>) /\ Len(<<>>) = 0
  BY DEF Alternating
<1>2. NoStay \in Stays
  BY DEF NoStay, Stays, Collected
<1>3. Accepts(AppendUserBlock(<<>>, {}))
  <2> DEFINE u == <<User({})>>
  <2>1. AppendUserBlock(<<>>, {}) = u
    BY DEF AppendUserBlock
  <2>2. Alternating(u)
    BY <2>1, <1>1, UserBlock
  <2>3. Len(u) = 1 /\ u[1] = User({}) /\ Last(u) = User({})
    BY DEF Last
  <2>4. User({}).results = {} /\ User({}).calls = {}
    BY DEF User
  <2> HIDE DEF u
  <2> QED BY <2>1, <2>2, <2>3, <2>4 DEF Accepts
<1> QED BY <1>1, <1>2, <1>3

\* The history after the model's turn: nothing is cut while the limits agree.
LEMMA RequestAnswered ==
  ASSUME DialogueInv, count < MaxMessages, NEW c \in SUBSET Nat
  PROVE  /\ AppendToHistory(history, c) \in Seq(Turns)
         /\ Alternating(AppendToHistory(history, c))
         /\ Len(AppendToHistory(history, c)) % 2 = 0
         /\ ~booked /\ maxHistory >= 2 * MaxMessages =>
              /\ Accepts(AppendUserBlock(AppendToHistory(history, c), c))
              /\ Len(AppendToHistory(history, c)) <= 2 * count + 2
              /\ Len(AppendUserBlock(AppendToHistory(history, c), c)) <= 2 * count + 3
<1> DEFINE u == AppendUserBlock(history, {})
           h == AppendToHistory(history, c)
<1>1. history \in Seq(Turns) /\ Alternating(history) /\ maxHistory \in Nat \ {0} /\ count \in Nat
  BY DEF DialogueInv, TypesOK
<1>2. u \in Seq(Turns) /\ Len(u) % 2 = 1 /\ Alternating(u)
      /\ Len(u) = IF Len(history) % 2 = 1 THEN Len(history) ELSE Len(history) + 1
  BY <1>1, UserBlock
<1>3. h \in Seq(Turns) /\ Alternating(h) /\ Len(h) % 2 = 0
      /\ (Len(u) < maxHistory => h = Append(u, Assistant(c)))
  BY <1>1, HistoryAppended
<1>4. ASSUME ~booked, maxHistory >= 2 * MaxMessages
      PROVE  /\ Accepts(AppendUserBlock(h, c))
             /\ Len(h) <= 2 * count + 2 /\ Len(AppendUserBlock(h, c)) <= 2 * count + 3
  <2>1. Accepts(u) /\ Len(history) <= 2 * count + 1
    BY <1>4 DEF DialogueInv, HistoryIsKept
  <2> HIDE DEF u, h
  <2>2. Len(u) <= 2 * count + 1 /\ Len(u) \in Nat
    BY <1>1, <1>2, <2>1
  <2>3. Len(u) < maxHistory
    BY <1>1, <1>4, <2>2, MessagesAssumption
  <2>4. h = Append(u, Assistant(c))
    BY <1>3, <2>3
  <2>5. Accepts(AppendUserBlock(h, c)) /\ Len(AppendUserBlock(h, c)) = Len(u) + 2
    BY <1>2, <2>1, <2>4, AnsweredIsAccepted
  <2>6. Len(h) = Len(u) + 1
    BY <1>2, <2>4, AssistantTurn
  <2> QED BY <1>1, <2>2, <2>5, <2>6
<1> QED BY <1>3, <1>4

\* The model's text is forwarded.
LEMMA ReplyStep ==
  ASSUME DialogueInv, Reply, count < MaxMessages, UNCHANGED <<maxHistory, now>>
  PROVE  DialogueInv'
<1>1. /\ history' \in Seq(Turns) /\ Alternating(history') /\ Len(history') % 2 = 0
      /\ ~booked /\ maxHistory >= 2 * MaxMessages =>
           Accepts(AppendUserBlock(history', {})) /\ Len(history') <= 2 * count + 2
  BY RequestAnswered DEF Reply
<1>2. TypesOK'
  BY <1>1 DEF Reply, DialogueInv, TypesOK, Stays, Collected, Dates
<1>3. HistoryIsKept'
  BY <1>1 DEF Reply, HistoryIsKept, DialogueInv, TypesOK
<1>4. LinkIsComplete'
  BY DEF Reply, LinkIsComplete, DialogueInv
<1> QED BY <1>1, <1>2, <1>3, <1>4 DEF DialogueInv

\* A call the guest is asked about again is answered with its result.
LEMMA AskAgainStep ==
  ASSUME DialogueInv, NEW input \in Inputs, AskAgain(input), count < MaxMessages,
         step # "LINK_SENT", UNCHANGED <<maxHistory, now>>
  PROVE  DialogueInv'
<1> PICK c : c = {count}
  OBVIOUS
<1>1. c \in SUBSET Nat /\ history' = AppendUserBlock(AppendToHistory(history, c), c)
  BY DEF AskAgain, DialogueInv, TypesOK
<1> PICK h : h = AppendToHistory(history, c)
  OBVIOUS
<1>2. /\ h \in Seq(Turns) /\ Alternating(h) /\ Len(h) % 2 = 0
      /\ ~booked /\ maxHistory >= 2 * MaxMessages =>
           Accepts(AppendUserBlock(h, c)) /\ Len(AppendUserBlock(h, c)) <= 2 * count + 3
  BY <1>1, RequestAnswered
<1>3. /\ AppendUserBlock(h, c) \in Seq(Turns) /\ Alternating(AppendUserBlock(h, c))
      /\ Len(AppendUserBlock(h, c)) % 2 = 1
  BY <1>1, <1>2, UserBlock
<1>4. history' = AppendUserBlock(h, c)
  BY <1>1
<1>5. AppendUserBlock(history', {}) = history'
  BY <1>3, <1>4, SameBlock
<1>6. PreserveValid(input) \in Stays
  BY ValidIsKept DEF DialogueInv, TypesOK
<1>7. TypesOK'
  BY <1>3, <1>4, <1>6 DEF AskAgain, DialogueInv, TypesOK, Stays, Collected, Dates
<1>8. HistoryIsKept'
  <2>1. count \in Nat /\ count' = count + 1 /\ booked' = booked /\ maxHistory' = maxHistory
    BY DEF AskAgain, DialogueInv, TypesOK
  <2> SUFFICES ASSUME ~booked, maxHistory >= 2 * MaxMessages
               PROVE  Accepts(history') /\ Len(history') <= 2 * count' + 1
    BY <1>5, <2>1 DEF HistoryIsKept
  <2> QED BY <1>2, <1>4, <2>1
<1>9. LinkIsComplete'
  BY DEF AskAgain, LinkIsComplete
<1> QED BY <1>3, <1>4, <1>7, <1>8, <1>9 DEF DialogueInv

\* An accepted call is the end of what can be retried.
LEMMA BookStep ==
  ASSUME DialogueInv, NEW input \in Inputs, Book(input), count < MaxMessages,
         FindMissing(input) \cup FindInvalid(input) = {}, UNCHANGED <<maxHistory, now>>
  PROVE  DialogueInv'
<1> PICK c : c = {count}
  OBVIOUS
<1>1. c \in SUBSET Nat /\ history' = AppendToHistory(history, c)
  BY DEF Book, DialogueInv, TypesOK
<1>2. history' \in Seq(Turns) /\ Alternating(history')
  BY <1>1, RequestAnswered
<1>3. /\ input \in Stays /\ input.checkIn \in Dates /\ input.checkOut \in Dates
      /\ input.guests \in 2..2 * MaxGuests
  BY AcceptedIsComplete
<1>4. stay' \in Stays
  BY <1>3, NewConversation DEF Book
<1>5. TypesOK'
  BY <1>2, <1>4 DEF Book, DialogueInv, TypesOK, Stays, Collected, Dates
<1>6. HistoryIsKept'
  BY DEF Book, HistoryIsKept
<1>7. LinkIsComplete'
  BY <1>3 DEF Book, Period, LinkIsComplete
<1> QED BY <1>2, <1>5, <1>6, <1>7 DEF DialogueInv

\* One message of the guest.
LEMMA MessageStep ==
  ASSUME DialogueInv, Message
  PROVE  DialogueInv'
<1>1. UNCHANGED <<maxHistory, now>> /\ step # "LINK_SENT"
  BY DEF Message, BlockedSteps
<1>2. CASE Handoff
  BY <1>1, <1>2 DEF Handoff, DialogueInv, TypesOK, HistoryIsKept, LinkIsComplete, Stays, Dates
<1>3. CASE count < MaxMessages /\ Reply
  BY <1>1, <1>3, ReplyStep
<1>4. ASSUME count < MaxMessages, NEW input \in Inputs, ConfirmBooking(input)
      PROVE  DialogueInv'
  <2>1. CASE FindMissing(input) \cup FindInvalid(input) = {}
    BY <1>1, <1>4, <2>1, BookStep DEF ConfirmBooking
  <2>2. CASE FindMissing(input) \cup FindInvalid(input) # {}
    BY <1>1, <1>4, <2>2, AskAgainStep DEF ConfirmBooking
  <2> QED BY <2>1, <2>2
<1> QED BY <1>2, <1>3, <1>4 DEF Message

\* The invariant of Dialogue: the history is a sequence of alternating turns
\* that begins with the guest, it holds the request the provider takes until a
\* call of confirm_booking is accepted (appendToHistory cuts nothing that is
\* still paired), and a link stands for a complete stay.
THEOREM DialogueInvariant == Spec => []DialogueInv
<1>1. Init => DialogueInv
  <2> SUFFICES ASSUME Init PROVE DialogueInv
    OBVIOUS
  <2>1. TypesOK
    BY NewConversation, HistoriesAssumption DEF Init, TypesOK
  <2>2. HistoryIsKept
    BY NewConversation DEF Init, HistoryIsKept
  <2> QED BY <2>1, <2>2, NewConversation DEF Init, DialogueInv, LinkIsComplete
<1>2. DialogueInv /\ [Next]_vars => DialogueInv'
  <2> SUFFICES ASSUME DialogueInv, [Next]_vars PROVE DialogueInv'
    OBVIOUS
  <2>1. CASE Message
    BY <2>1, MessageStep
  <2>2. CASE StateExpires
    <3>1. TypesOK'
      BY <2>2, NewConversation DEF StateExpires, DialogueInv, TypesOK, Stays, Collected, Dates
    <3>2. HistoryIsKept'
      BY <2>2, NewConversation DEF StateExpires, HistoryIsKept
    <3>3. Alternating(history') /\ LinkIsComplete'
      BY <2>2, NewConversation DEF StateExpires, LinkIsComplete
    <3> QED BY <3>1, <3>2, <3>3 DEF DialogueInv
  <2>3. CASE Tick \/ UNCHANGED vars
    BY <2>3 DEF Tick, vars, state, DialogueInv, TypesOK, HistoryIsKept, LinkIsComplete,
                Stays, Dates
  <2> QED BY <2>1, <2>2, <2>3 DEF Next
<1> QED BY <1>1, <1>2, PTL DEF Spec

\* Every request begins with the guest and roles alternate, for every
\* conversation.maxHistory of 1 or more: appendToHistory steps over an
\* assistant turn at the cut.
THEOREM RequestsDoAlternate == Spec => []RequestsAlternate
<1>1. DialogueInv => RequestsAlternate
  BY UserBlock DEF DialogueInv, TypesOK, RequestsAlternate
<1> QED BY <1>1, DialogueInvariant, PTL

\* Until a call of confirm_booking is accepted the provider takes the next
\* request, however many calls failed: each got its tool_result and none was cut
\* from its result, if maxHistory holds two turns of each message.
THEOREM RetriesAreTaken == Spec => []RetriesAreAccepted
<1>1. DialogueInv => RetriesAreAccepted
  BY DEF DialogueInv, HistoryIsKept, RetriesAreAccepted
<1> QED BY <1>1, DialogueInvariant, PTL

\* What is kept from calls that failed is a date, nothing or an empty text, and a
\* number of guests a stay takes; a link is sent for a stay that has them all, in
\* order and for as many nights as Period.create admits, and for whole guests.
THEOREM LinksAreSound == Spec => []StayIsSound
<1>1. DialogueInv => StayIsSound
  <2> SUFFICES ASSUME DialogueInv PROVE StayIsSound
    OBVIOUS
  <2>1. stay \in Stays
    BY DEF DialogueInv, TypesOK
  <2>2. /\ stay.checkIn \in Collected /\ stay.checkOut \in Collected
        /\ stay.guests \in (2..2 * MaxGuests) \cup {NONE}
    BY <2>1 DEF Stays
  <2> QED BY <2>2 DEF DialogueInv, LinkIsComplete, StayIsSound, Collected
<1> QED BY <1>1, DialogueInvariant, PTL
=============================================================================
