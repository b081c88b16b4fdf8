---------------------------- MODULE Conversation -----------------------------
(***************************************************************************)
(* The WhatsApp conversation of one guest with one stay: ConversationService *)
(* on several processes, the Redis lock that serialises them, the state and *)
(* the processed ids in Redis, and the reply sent through the notification *)
(* module under the message's id.                                          *)
(*                                                                         *)
(* Twilio delivers a message again, also while an earlier delivery is      *)
(* still being worked on, until it is answered 2xx or it gives up.  Every  *)
(* awaited call is an action; the process may die between any two.         *)
(***************************************************************************)
EXTENDS Integers

CONSTANTS
  Messages,     \* the guest's messages
  Workers,      \* deliveries that can be worked on at once
  NONE,         \* null
  MaxMessages,  \* conversation.maxMessages
  MaxTries,     \* bound: deliveries of one message
  MaxCrashes,   \* bound: deliveries lost to a crash or a failed call
  MaxSlow       \* bound: locks that expire under a worker still at work

ASSUME NamesAssumption == NONE \notin Workers \cup Messages
ASSUME BoundsAssumption == /\ MaxMessages \in Nat /\ MaxTries \in Nat
                           /\ MaxCrashes \in Nat /\ MaxSlow \in Nat

VARIABLES
  tries,      \* deliveries of each message so far
  answered,   \* messages answered 2xx
  state,      \* conv:state, or NONE once it has expired
  processed,  \* conv:msg ids
  lock,       \* the worker whose token lock:conversation holds
  work,       \* what each worker does
  noted,      \* message ids with a committed notification row
  replies,    \* replies sent to the guest for each message
  unsent,     \* messages a reply of which failed
  linked,     \* a booking link has reached the guest
  overdue,    \* workers whose lock expired while they worked
  crashes, slow

vars == <<tries, answered, state, processed, lock, work, noted, replies, unsent,
          linked, overdue, crashes, slow>>
redis == <<state, processed>>
sends == <<noted, replies, unsent, linked>>
counts == <<crashes, slow>>

-----------------------------------------------------------------------------
BlockedSteps == {"REQUIRES_HUMAN", "LINK_SENT"}
Initial == [step |-> "INIT", count |-> 0]
States  == [step : {"INIT", "READY"} \cup BlockedSteps, count : 0..MaxMessages]

\* kind is what the agent decided, next the state it leaves, ok the answer.
Idle  == [pc |-> "idle", msg |-> NONE, kind |-> "none", next |-> Initial, ok |-> FALSE]
Kinds == {"none", "reply", "handoff", "booking", "nobot", "nolink", "link"}
Before == {"idle", "acquire"}
Inside == {"recheck", "read", "agent", "save", "ready", "reply", "send", "commit",
           "after", "mark", "release"}

At(w, pc)   == work[w].pc = pc
Goto(w, pc) == work' = [work EXCEPT ![w].pc = pc]

Init ==
  /\ tries = [m \in Messages |-> 0] /\ answered = {}
  /\ state = NONE /\ processed = {}
  /\ lock = NONE /\ work = [w \in Workers |-> Idle]
  /\ noted = {} /\ replies = [m \in Messages |-> 0] /\ unsent = {} /\ linked = FALSE
  /\ overdue = {} /\ crashes = 0 /\ slow = 0

-----------------------------------------------------------------------------
(* ConversationService.handle and RedisConversationLock *)

\* Delivery, enrich and the first look at the processed ids.
Receive(w, m) ==
  /\ At(w, "idle") /\ m \notin answered /\ tries[m] < MaxTries
  /\ tries' = [tries EXCEPT ![m] = @ + 1]
  /\ IF m \in processed
       THEN answered' = answered \cup {m} /\ UNCHANGED work
       ELSE work' = [work EXCEPT ![w] = [Idle EXCEPT !.pc = "acquire", !.msg = m]]
            /\ UNCHANGED answered
  /\ UNCHANGED <<redis, lock, sends, overdue, counts>>

\* SET key token PX NX, three times: MESSAGE_BUSY when all find the key.
Acquire(w) ==
  /\ At(w, "acquire")
  /\ IF lock = NONE
       THEN lock' = w /\ Goto(w, "recheck")
       ELSE work' = [work EXCEPT ![w] = Idle] /\ UNCHANGED lock
  /\ UNCHANGED <<tries, answered, redis, sends, overdue, counts>>

\* The process that waited may find the message handled meanwhile.
Recheck(w) ==
  /\ At(w, "recheck")
  /\ work' = [work EXCEPT ![w] =
       IF work[w].msg \in processed THEN [@ EXCEPT !.pc = "release", !.ok = TRUE]
       ELSE [@ EXCEPT !.pc = "read"]]
  /\ UNCHANGED <<tries, answered, redis, lock, sends, overdue, counts>>

ReleaseAnyLock(w) ==
  /\ At(w, "release")
  /\ lock' = NONE
  /\ work' = [work EXCEPT ![w] = Idle]
  /\ answered' = IF work[w].ok THEN answered \cup {work[w].msg} ELSE answered
  /\ overdue' = overdue \ {w}
  /\ UNCHANGED <<tries, redis, sends, counts>>

\* finally: compare-and-delete, then the answer.
Release(w) ==
  /\ At(w, "release")
  /\ lock' = IF lock = w THEN NONE ELSE lock
  /\ work' = [work EXCEPT ![w] = Idle]
  /\ answered' = IF work[w].ok THEN answered \cup {work[w].msg} ELSE answered
  /\ overdue' = overdue \ {w}
  /\ UNCHANGED <<tries, redis, sends, counts>>

\* The key's 30 s are over: after a crash, or under a worker still at work.
LockExpires ==
  /\ lock # NONE /\ lock' = NONE
  /\ IF work[lock].pc \in Inside /\ lock \notin overdue
       THEN slow < MaxSlow /\ slow' = slow + 1 /\ overdue' = overdue \cup {lock}
       ELSE UNCHANGED <<slow, overdue>>
  /\ UNCHANGED <<tries, answered, redis, work, sends, crashes>>

\* STATE_TTL: half an hour without a message.
StateExpires ==
  /\ state # NONE /\ \A w \in Workers : work[w].pc \in Before
  /\ state' = NONE
  /\ UNCHANGED <<tries, answered, processed, lock, work, sends, overdue, counts>>

-----------------------------------------------------------------------------
(* runCriticalSection *)

ReadStateUnlessSent(w) ==
  /\ At(w, "read")
  /\ LET st == IF state = NONE THEN Initial ELSE state
     IN  work' = [work EXCEPT ![w] =
           IF st.step = "LINK_SENT" THEN [@ EXCEPT !.pc = "release", !.ok = TRUE]
           ELSE [@ EXCEPT !.pc = "agent", !.next = st]]
  /\ UNCHANGED <<tries, answered, redis, lock, sends, overdue, counts>>

\* A message in a blocked step is answered 200 and nothing else.
ReadState(w) ==
  /\ At(w, "read")
  /\ LET st == IF state = NONE THEN Initial ELSE state
     IN  work' = [work EXCEPT ![w] =
           IF st.step \in BlockedSteps THEN [@ EXCEPT !.pc = "release", !.ok = TRUE]
           ELSE [@ EXCEPT !.pc = "agent", !.next = st]]
  /\ UNCHANGED <<tries, answered, redis, lock, sends, overdue, counts>>

ProcessPastLimit(w) ==
  /\ At(w, "agent")
  /\ LET st == work[w].next
         talked == [st EXCEPT !.count = @ + 1]
         Decide(kind, next) ==
           work' = [work EXCEPT ![w] = [@ EXCEPT !.pc = "save", !.kind = kind, !.next = next]]
     IN  \/ Decide("handoff", [st EXCEPT !.step = "REQUIRES_HUMAN"])
         \/ st.count <= MaxMessages /\ Decide("reply", talked)
  /\ UNCHANGED <<tries, answered, redis, lock, sends, overdue, counts>>

\* ConversationAgentService.process: over the limit, or without an answer of
\* the model in time, a human takes over; else the model replies (asks for
\* missing or invalid fields too), or calls confirm_booking.
Process(w) ==
  /\ At(w, "agent")
  /\ LET st == work[w].next
         talked == [st EXCEPT !.count = @ + 1]
         Decide(kind, next) ==
           work' = [work EXCEPT ![w] = [@ EXCEPT !.pc = "save", !.kind = kind, !.next = next]]
     IN  \/ Decide("handoff", [st EXCEPT !.step = "REQUIRES_HUMAN"])
         \/ st.count < MaxMessages /\ Decide("reply", talked)
         \/ st.count < MaxMessages /\ Decide("booking", [talked EXCEPT !.step = "READY"])
  /\ UNCHANGED <<tries, answered, redis, lock, sends, overdue, counts>>

SaveAndMark(w) ==
  /\ At(w, "save")
  /\ state' = work[w].next /\ processed' = processed \cup {work[w].msg}
  /\ Goto(w, IF work[w].kind = "booking" THEN "ready" ELSE "reply")
  /\ UNCHANGED <<tries, answered, lock, sends, overdue, counts>>

Save(w) ==
  /\ At(w, "save")
  /\ state' = work[w].next
  /\ Goto(w, IF work[w].kind = "booking" THEN "ready" ELSE "reply")
  /\ UNCHANGED <<tries, answered, processed, lock, sends, overdue, counts>>

\* handleReady: no BOT staff member, no link, or a link (Booking!GenerateLink).
HandleReady(w) ==
  /\ At(w, "ready")
  /\ \E kind \in {"nobot", "nolink", "link"} :
       work' = [work EXCEPT ![w].kind = kind, ![w].pc = "reply"]
  /\ UNCHANGED <<tries, answered, redis, lock, sends, overdue, counts>>

-----------------------------------------------------------------------------
(* notifier.reply: NotificationService.dispatch in one transaction, with the *)
(* message's id as idempotency key                                           *)

ReplyInsertUnkeyed(w) ==
  /\ At(w, "reply")
  /\ Goto(w, "send")
  /\ UNCHANGED <<tries, answered, redis, lock, sends, overdue, counts>>

\* A row of any status with the key ends the dispatch; a row not yet committed
\* makes the insert wait at the unique index.
ReplyInsert(w) ==
  /\ At(w, "reply")
  /\ \A u \in Workers \ {w} : work[u].msg = work[w].msg => work[u].pc \notin {"send", "commit"}
  /\ Goto(w, IF work[w].msg \in noted THEN "after" ELSE "send")
  /\ UNCHANGED <<tries, answered, redis, lock, sends, overdue, counts>>

\* The channel sends, or fails and the row says FAILED for ever.
ReplySend(w) ==
  /\ At(w, "send")
  /\ \/ /\ replies' = [replies EXCEPT ![work[w].msg] = @ + 1]
        /\ linked' = (linked \/ work[w].kind = "link")
        /\ UNCHANGED unsent
     \/ /\ unsent' = unsent \cup {work[w].msg}
        /\ UNCHANGED <<replies, linked>>
  /\ Goto(w, "commit")
  /\ UNCHANGED <<tries, answered, redis, lock, noted, overdue, counts>>

ReplyCommit(w) ==
  /\ At(w, "commit")
  /\ noted' = noted \cup {work[w].msg}
  /\ Goto(w, "after")
  /\ UNCHANGED <<tries, answered, redis, lock, replies, unsent, linked, overdue, counts>>

\* What is left after the reply: LINK_SENT after a link, INIT after none.
AfterReply(w) ==
  /\ At(w, "after")
  /\ state' = CASE work[w].kind = "link"   -> [work[w].next EXCEPT !.step = "LINK_SENT"]
                [] work[w].kind = "nolink" -> [work[w].next EXCEPT !.step = "INIT"]
                [] OTHER                   -> state
  /\ Goto(w, "mark")
  /\ UNCHANGED <<tries, answered, processed, lock, sends, overdue, counts>>

MarkProcessed(w) ==
  /\ At(w, "mark")
  /\ processed' = processed \cup {work[w].msg}
  /\ work' = [work EXCEPT ![w].pc = "release", ![w].ok = TRUE]
  /\ UNCHANGED <<tries, answered, state, lock, sends, overdue, counts>>

-----------------------------------------------------------------------------
\* A call throws: finally releases the lock, and the answer is an error.
Throw(w) ==
  /\ work[w].pc \in Inside \ {"release"} /\ crashes < MaxCrashes
  /\ crashes' = crashes + 1 /\ Goto(w, "release")
  /\ UNCHANGED <<tries, answered, redis, lock, sends, overdue, slow>>

\* The process dies, or Redis does not answer SET (LOCK_UNAVAILABLE); an open
\* transaction of the notification module is rolled back.
Crash(w) ==
  /\ ~At(w, "idle") /\ crashes < MaxCrashes
  /\ crashes' = crashes + 1
  /\ work' = [work EXCEPT ![w] = Idle] /\ overdue' = overdue \ {w}
  /\ UNCHANGED <<tries, answered, redis, lock, sends, slow>>

Step(w) ==
  \/ Acquire(w) \/ Recheck(w) \/ ReadState(w) \/ Process(w) \/ Save(w)
  \/ HandleReady(w) \/ ReplyInsert(w) \/ ReplySend(w) \/ ReplyCommit(w)
  \/ AfterReply(w) \/ MarkProcessed(w) \/ Release(w)

Next == \/ \E w \in Workers : \/ \E m \in Messages : Receive(w, m)
                              \/ Step(w) \/ Throw(w) \/ Crash(w)
        \/ LockExpires \/ StateExpires

Spec == Init /\ [][Next]_vars

-----------------------------------------------------------------------------
(* What holds *)

\* Redis, the rows and the workers keep their types; whoever holds the lock
\* has not been given up as overdue.
TypeOK ==
  /\ tries \in [Messages -> 0..MaxTries] /\ answered \subseteq Messages
  /\ state \in States \cup {NONE} /\ processed \subseteq Messages
  /\ lock \in Workers \cup {NONE} /\ lock \notin overdue
  /\ work \in [Workers -> [pc : Before \cup Inside, msg : Messages \cup {NONE},
                           kind : Kinds, next : States, ok : BOOLEAN]]
  /\ \A w \in Workers : At(w, "idle") \/ work[w].msg \in Messages
  /\ noted \subseteq Messages /\ replies \in [Messages -> Nat]
  /\ unsent \subseteq Messages /\ linked \in BOOLEAN
  /\ overdue \subseteq Workers /\ \A w \in overdue : work[w].pc \in Inside
  /\ crashes \in 0..MaxCrashes /\ slow \in 0..MaxSlow

\* One message at a time: a worker in the critical section that is not overdue
\* has the lock, so there is only one; an overdue one releases nobody's lock.
OneAtATime ==
  \A w \in Workers : work[w].pc \in Inside => w \in overdue \/ lock = w

\* However often a message is delivered and whoever works on it at the same
\* time, the guest gets one reply, and another only for each crash.
OneReplyPerCrash == \A m \in Messages : replies[m] <= 1 + crashes

\* A message marked processed was answered, or its reply failed; redeliveries
\* may ignore it.
ProcessedIsAnswered == \A m \in processed : replies[m] > 0 \/ m \in unsent

\* The bot stays silent once a human is asked for or a link is sent, until the
\* conversation expires, as long as no worker has outlived its lock.
BlockedStaysBlocked ==
  [][(/\ state # NONE /\ state.step \in BlockedSteps
      /\ slow = 0 /\ state' # state) => state' = NONE]_vars

=============================================================================
