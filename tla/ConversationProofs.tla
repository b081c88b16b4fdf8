-------------------------- MODULE ConversationProofs -------------------------
(***************************************************************************)
(* Proofs about Conversation, for any number of messages and workers and   *)
(* any limits: the lock keeps messages apart, replies are counted against  *)
(* crashes, and a blocked conversation stays blocked.                      *)
(***************************************************************************)
EXTENDS Conversation, TLAPS

-----------------------------------------------------------------------------
(* The inductive invariant *)

\* A dispatch is open between the insert and the commit of its row.
Dispatching(w) == work[w].pc \in {"send", "commit"}

\* A message is dispatched by one worker at a time, and never again once its
\* row is committed.
DispatchOnce ==
  /\ \A v, w \in Workers :
       Dispatching(v) /\ Dispatching(w) /\ work[v].msg = work[w].msg => v = w
  /\ \A w \in Workers : Dispatching(w) => work[w].msg \notin noted

\* A reply that no open or committed dispatch accounts for was lost to a crash.
RepliesCounted ==
  \A m \in Messages :
    /\ replies[m] <= 1 + crashes
    /\ m \notin noted /\ (\A w \in Workers : At(w, "commit") => work[w].msg # m)
         => replies[m] <= crashes

Tried(m) == replies[m] > 0 \/ m \in unsent

\* Whatever is marked or about to be has been replied to, or failed to be.
TriedBeforeMarked ==
  /\ \A m \in noted \cup processed : Tried(m)
  /\ \A w \in Workers : work[w].pc \in {"commit", "after", "mark"} => Tried(work[w].msg)

Booking == {"booking", "nobot", "nolink", "link"}

\* As long as no worker outlived its lock, the one at work knows the state.
StateIsKnown ==
  slow = 0 =>
    /\ overdue = {}
    /\ \A w \in Workers :
         /\ work[w].pc \in {"agent", "save"} =>
              state = NONE \/ state.step \notin BlockedSteps
         /\ At(w, "save") /\ work[w].kind \in Booking => work[w].next.step = "READY"
         /\ work[w].pc \in {"ready", "reply", "send", "commit", "after"}
              /\ work[w].kind \in Booking => state.step = "READY"

ConversationInv == /\ TypeOK /\ OneAtATime /\ DispatchOnce /\ RepliesCounted
                   /\ TriedBeforeMarked /\ StateIsKnown

-----------------------------------------------------------------------------
(* The steps *)

Jobs == [pc : Before \cup Inside, msg : Messages \cup {NONE},
         kind : Kinds, next : States, ok : BOOLEAN]

WorkOK == /\ work \in [Workers -> Jobs]
          /\ \A w \in Workers : At(w, "idle") \/ work[w].msg \in Messages
          /\ overdue \subseteq Workers /\ \A w \in overdue : work[w].pc \in Inside

\* A worker gets on with its job.
LEMMA WorkMoves ==
  ASSUME TypeOK, NEW w \in Workers, NEW j \in Jobs, work' = [work EXCEPT ![w] = j],
         j.pc = "idle" \/ j.msg \in Messages,
         overdue' \subseteq overdue, w \in overdue' => j.pc \in Inside
  PROVE  WorkOK'
<1>1. work' \in [Workers -> Jobs]
  BY DEF TypeOK, Jobs
<1>2. \A u \in Workers : work'[u] = IF u = w THEN j ELSE work[u]
  BY DEF TypeOK
<1>3. overdue' \subseteq Workers /\ \A u \in overdue' : work'[u].pc \in Inside
  BY <1>2 DEF TypeOK
<1>4. \A u \in Workers : At(u, "idle")' \/ work'[u].msg \in Messages
  BY <1>2 DEF TypeOK, At
<1> QED BY <1>1, <1>3, <1>4 DEF WorkOK

LEMMA IdleIsJob == Idle \in Jobs /\ Idle.pc = "idle"
BY BoundsAssumption DEF Idle, Jobs, Before, Kinds, States, Initial, BlockedSteps

\* A message is delivered.
LEMMA ReceiveStep ==
  ASSUME ConversationInv, NEW w \in Workers, NEW m \in Messages, Receive(w, m)
  PROVE  ConversationInv'
<1> USE DEF ConversationInv
<1> DEFINE j == [Idle EXCEPT !.pc = "acquire", !.msg = m]
<1>1. j \in Jobs /\ j.pc = "acquire" /\ j.msg = m /\ ~At(w, "commit") /\ work[w].pc = "idle"
  BY IdleIsJob DEF Jobs, Before, Receive, At
<1>2. /\ UNCHANGED work \/ work' = [work EXCEPT ![w] = j]
      /\ tries' \in [Messages -> 0..MaxTries] /\ answered' \subseteq Messages
      /\ UNCHANGED <<redis, lock, sends, overdue, counts>>
  BY BoundsAssumption DEF Receive, TypeOK
<1> HIDE DEF j
<1>3. \A u \in Workers : work'[u] = work[u] \/ (u = w /\ work'[u] = j)
  BY <1>2 DEF TypeOK
<1>4. TypeOK'
  <2>1. WorkOK
    BY DEF TypeOK, WorkOK, Jobs
  <2>2. w \notin overdue
    BY <1>1 DEF TypeOK, Inside
  <2>3. WorkOK'
    <3>1. CASE UNCHANGED work
      BY <1>2, <2>1, <3>1 DEF WorkOK, At
    <3>2. CASE work' = [work EXCEPT ![w] = j]
      BY <1>1, <1>2, <2>2, <3>2, WorkMoves
    <3> QED BY <1>2, <3>1, <3>2
  <2> QED BY <1>2, <2>3 DEF redis, sends, counts, TypeOK, WorkOK, Jobs
<1>5. OneAtATime'
  BY <1>1, <1>2, <1>3 DEF OneAtATime, Inside
<1>6. DispatchOnce'
  BY <1>1, <1>2, <1>3 DEF DispatchOnce, Dispatching, sends
<1>7. RepliesCounted'
  BY <1>1, <1>2, <1>3 DEF RepliesCounted, At, sends, counts
<1>8. TriedBeforeMarked'
  BY <1>1, <1>2, <1>3 DEF TriedBeforeMarked, Tried, redis, sends
<1>9. StateIsKnown'
  BY <1>1, <1>2, <1>3 DEF StateIsKnown, At, redis, counts
<1> QED BY <1>4, <1>5, <1>6, <1>7, <1>8, <1>9

\* The lock is taken or busy.
LEMMA AcquireStep ==
  ASSUME ConversationInv, NEW w \in Workers, Acquire(w)
  PROVE  ConversationInv'
<1> USE DEF ConversationInv
<1>1. TypeOK'
  <2> DEFINE j == IF lock = NONE THEN [work[w] EXCEPT !.pc = "recheck"] ELSE Idle
  <2>1. work' = [work EXCEPT ![w] = j] /\ lock' \in {w, lock} /\ overdue' = overdue
    BY DEF Acquire, Goto, TypeOK
  <2>2. j \in Jobs /\ (j.pc = "idle" \/ j.msg \in Messages) /\ w \notin overdue
    BY IdleIsJob DEF Acquire, At, TypeOK, Jobs, Inside
  <2> HIDE DEF j
  <2>3. WorkOK'
    BY <2>1, <2>2, WorkMoves
  <2> QED BY <2>1, <2>2, <2>3 DEF Acquire, redis, sends, counts, TypeOK, WorkOK, Jobs
<1>2. OneAtATime'
  BY NamesAssumption DEF Acquire, Goto, Idle, redis, sends, counts, TypeOK, OneAtATime, Inside, At
<1>3. DispatchOnce'
  BY DEF Acquire, Goto, Idle, redis, sends, counts, TypeOK, DispatchOnce, Dispatching, At
<1>4. RepliesCounted'
  BY BoundsAssumption DEF Acquire, Goto, Idle, redis, sends, counts, TypeOK, RepliesCounted, At
<1>5. TriedBeforeMarked'
  BY DEF Acquire, Goto, Idle, redis, sends, counts, TypeOK, TriedBeforeMarked, Tried, At
<1>6. StateIsKnown'
  BY DEF Acquire, Goto, Idle, redis, sends, counts, TypeOK, StateIsKnown, At, BlockedSteps, Booking, OneAtATime, Inside
<1> QED BY <1>1, <1>2, <1>3, <1>4, <1>5, <1>6

\* The processed ids are looked at again.
LEMMA RecheckStep ==
  ASSUME ConversationInv, NEW w \in Workers, Recheck(w)
  PROVE  ConversationInv'
<1> USE DEF ConversationInv
<1>1. TypeOK'
  <2> DEFINE j == IF work[w].msg \in processed THEN [work[w] EXCEPT !.pc = "release", !.ok = TRUE]
                  ELSE [work[w] EXCEPT !.pc = "read"]
  <2>1. work' = [work EXCEPT ![w] = j]
    BY DEF Recheck, Goto, TypeOK
  <2>2. j \in Jobs /\ (j.pc = "idle" \/ j.msg \in Messages) /\ j.pc \in Inside
    BY DEF Recheck, At, TypeOK, Jobs, Inside
  <2>3. overdue' = overdue
    BY DEF Recheck
  <2> HIDE DEF j
  <2>4. WorkOK'
    BY <2>1, <2>2, <2>3, WorkMoves
  <2> QED BY <2>4, BoundsAssumption DEF Recheck, redis, sends, counts, TypeOK, WorkOK, Jobs
<1>2. OneAtATime'
  BY NamesAssumption DEF Recheck, redis, sends, counts, TypeOK, OneAtATime, Inside, At
<1>3. DispatchOnce'
  BY DEF Recheck, redis, sends, counts, TypeOK, DispatchOnce, Dispatching, At
<1>4. RepliesCounted'
  BY BoundsAssumption DEF Recheck, redis, sends, counts, TypeOK, RepliesCounted, At
<1>5. TriedBeforeMarked'
  BY DEF Recheck, redis, sends, counts, TypeOK, TriedBeforeMarked, Tried, At
<1>6. StateIsKnown'
  BY DEF Recheck, redis, sends, counts, TypeOK, StateIsKnown, At, BlockedSteps, Booking
<1> QED BY <1>1, <1>2, <1>3, <1>4, <1>5, <1>6

\* The lock is given back.
LEMMA ReleaseStep ==
  ASSUME ConversationInv, NEW w \in Workers, Release(w)
  PROVE  ConversationInv'
<1> USE DEF ConversationInv
<1>1. TypeOK'
  BY BoundsAssumption, NamesAssumption DEF Release, Idle, redis, sends, counts, TypeOK, Before, Inside, At, Initial, States, Kinds, BlockedSteps
<1>2. OneAtATime'
  BY NamesAssumption DEF Release, Idle, redis, sends, counts, TypeOK, OneAtATime, Inside, At
<1>3. DispatchOnce'
  BY DEF Release, Idle, redis, sends, counts, TypeOK, DispatchOnce, Dispatching, At
<1>4. RepliesCounted'
  BY BoundsAssumption DEF Release, Idle, redis, sends, counts, TypeOK, RepliesCounted, At
<1>5. TriedBeforeMarked'
  BY DEF Release, Idle, redis, sends, counts, TypeOK, TriedBeforeMarked, Tried, At
<1>6. StateIsKnown'
  BY DEF Release, Idle, redis, sends, counts, TypeOK, StateIsKnown, At, BlockedSteps, Booking
<1> QED BY <1>1, <1>2, <1>3, <1>4, <1>5, <1>6

\* The lock's time is up.
LEMMA LockExpiresStep ==
  ASSUME ConversationInv, LockExpires
  PROVE  ConversationInv'
<1> USE DEF ConversationInv
<1>1. TypeOK'
  BY BoundsAssumption, NamesAssumption DEF LockExpires, redis, sends, counts, TypeOK, Before, Inside, At
<1>2. OneAtATime'
  BY NamesAssumption DEF LockExpires, redis, sends, counts, TypeOK, OneAtATime, Inside, At
<1>3. DispatchOnce'
  BY DEF LockExpires, redis, sends, counts, TypeOK, DispatchOnce, Dispatching, At
<1>4. RepliesCounted'
  BY BoundsAssumption DEF LockExpires, redis, sends, counts, TypeOK, RepliesCounted, At
<1>5. TriedBeforeMarked'
  BY DEF LockExpires, redis, sends, counts, TypeOK, TriedBeforeMarked, Tried, At
<1>6. StateIsKnown'
  BY DEF LockExpires, redis, sends, counts, TypeOK, StateIsKnown, At, BlockedSteps, Booking
<1> QED BY <1>1, <1>2, <1>3, <1>4, <1>5, <1>6

\* The conversation's state is gone.
LEMMA StateExpiresStep ==
  ASSUME ConversationInv, StateExpires
  PROVE  ConversationInv'
<1> USE DEF ConversationInv
<1>1. TypeOK'
  BY BoundsAssumption, NamesAssumption DEF StateExpires, Before, redis, sends, counts, TypeOK, Before, Inside, At
<1>2. OneAtATime'
  BY NamesAssumption DEF StateExpires, Before, redis, sends, counts, TypeOK, OneAtATime, Inside, At
<1>3. DispatchOnce'
  BY DEF StateExpires, Before, redis, sends, counts, TypeOK, DispatchOnce, Dispatching, At
<1>4. RepliesCounted'
  BY BoundsAssumption DEF StateExpires, Before, redis, sends, counts, TypeOK, RepliesCounted, At
<1>5. TriedBeforeMarked'
  BY DEF StateExpires, Before, redis, sends, counts, TypeOK, TriedBeforeMarked, Tried, At
<1>6. StateIsKnown'
  BY DEF StateExpires, Before, redis, sends, counts, TypeOK, StateIsKnown, At, BlockedSteps, Booking
<1> QED BY <1>1, <1>2, <1>3, <1>4, <1>5, <1>6

\* The state is read.
LEMMA ReadStep ==
  ASSUME ConversationInv, NEW w \in Workers, ReadState(w)
  PROVE  ConversationInv'
<1> USE DEF ConversationInv
<1>1. TypeOK'
  <2> DEFINE st == IF state = NONE THEN Initial ELSE state
  <2> DEFINE j == IF st.step \in BlockedSteps THEN [work[w] EXCEPT !.pc = "release", !.ok = TRUE]
                  ELSE [work[w] EXCEPT !.pc = "agent", !.next = st]
  <2>1. work' = [work EXCEPT ![w] = j] /\ overdue' = overdue
    BY DEF ReadState, TypeOK
  <2>2. st \in States
    BY BoundsAssumption DEF TypeOK, Initial, States
  <2> HIDE DEF st
  <2>3. j \in Jobs /\ j.msg \in Messages /\ j.pc \in Inside
    BY ZenonT(60), <2>2 DEF ReadState, At, TypeOK, Jobs, Inside
  <2> HIDE DEF j
  <2>4. WorkOK'
    BY <2>1, <2>3, WorkMoves
  <2> QED BY <2>4 DEF ReadState, redis, sends, counts, TypeOK, WorkOK, Jobs
<1>2. OneAtATime'
  BY NamesAssumption DEF ReadState, redis, sends, counts, TypeOK, OneAtATime, Inside, At
<1>3. DispatchOnce'
  BY DEF ReadState, redis, sends, counts, TypeOK, DispatchOnce, Dispatching, At
<1>4. RepliesCounted'
  BY BoundsAssumption DEF ReadState, redis, sends, counts, TypeOK, RepliesCounted, At
<1>5. TriedBeforeMarked'
  BY DEF ReadState, redis, sends, counts, TypeOK, TriedBeforeMarked, Tried, At
<1>6. StateIsKnown'
  BY DEF ReadState, redis, sends, counts, TypeOK, StateIsKnown, At, Initial, BlockedSteps, Booking, States
<1> QED BY <1>1, <1>2, <1>3, <1>4, <1>5, <1>6

\* The agent decides.
LEMMA ProcessStep ==
  ASSUME ConversationInv, NEW w \in Workers, Process(w)
  PROVE  ConversationInv'
<1> USE DEF ConversationInv
<1>1. /\ work[w].pc = "agent" /\ work[w] \in Jobs /\ work[w].msg \in Messages
      /\ UNCHANGED <<tries, answered, redis, lock, sends, overdue, counts>>
  BY SMTT(30) DEF Process, At, TypeOK, Jobs
<1>2. \E kind \in {"reply", "handoff", "booking"}, next \in States :
        /\ kind = "booking" => next.step = "READY"
        /\ work' = [work EXCEPT ![w] = [@ EXCEPT !.pc = "save", !.kind = kind, !.next = next]]
  <2> DEFINE st == work[w].next
  <2> DEFINE talked == [st EXCEPT !.count = @ + 1]
  <2> DEFINE Decide(kind, next) ==
        work' = [work EXCEPT ![w] = [@ EXCEPT !.pc = "save", !.kind = kind, !.next = next]]
  <2>1. st \in States
    BY <1>1 DEF Jobs
  <2>2. [st EXCEPT !.step = "REQUIRES_HUMAN"] \in States
    BY <2>1 DEF States, BlockedSteps
  <2>3. st.count < MaxMessages => talked \in States /\ [talked EXCEPT !.step = "READY"] \in States
    <3>1. SUFFICES ASSUME st.count < MaxMessages
                   PROVE  talked \in States /\ [talked EXCEPT !.step = "READY"] \in States
      OBVIOUS
    <3>2. st.count + 1 \in 0..MaxMessages
      BY <2>1, <3>1, BoundsAssumption DEF States
    <3> QED BY <2>1, <3>2 DEF States
  <2>4. [talked EXCEPT !.step = "READY"].step = "READY"
    BY <2>1 DEF States
  <2>5. CASE Decide("handoff", [st EXCEPT !.step = "REQUIRES_HUMAN"])
    BY <2>2, <2>5
  <2>6. CASE st.count < MaxMessages /\ Decide("reply", talked)
    BY <2>3, <2>6
  <2>7. CASE st.count < MaxMessages /\ Decide("booking", [talked EXCEPT !.step = "READY"])
    BY <2>3, <2>4, <2>7
  <2> QED BY <2>5, <2>6, <2>7 DEF Process
<1>3. PICK j \in Jobs : /\ work' = [work EXCEPT ![w] = j] /\ j.pc = "save"
                        /\ j.msg = work[w].msg
                        /\ j.kind \in Booking => j.next.step = "READY"
  <2>1. PICK kind \in {"reply", "handoff", "booking"}, next \in States :
        /\ kind = "booking" => next.step = "READY"
        /\ work' = [work EXCEPT ![w] = [@ EXCEPT !.pc = "save", !.kind = kind, !.next = next]]
    BY <1>2
  <2> DEFINE j == [work[w] EXCEPT !.pc = "save", !.kind = kind, !.next = next]
  <2>2. j \in Jobs /\ j.pc = "save" /\ j.msg = work[w].msg /\ j.kind = kind /\ j.next = next
    BY <1>1 DEF Jobs, Inside, Kinds
  <2>3. work' = [work EXCEPT ![w] = j]
    BY <2>1 DEF TypeOK
  <2> HIDE DEF j
  <2> QED BY <2>1, <2>2, <2>3 DEF Booking
<1>4. \A u \in Workers : work'[u] = IF u = w THEN j ELSE work[u]
  BY <1>3 DEF TypeOK
<1>5. TypeOK'
  <2>1. WorkOK'
    BY <1>1, <1>3, WorkMoves DEF Inside
  <2> QED BY <1>1, <2>1 DEF redis, sends, counts, TypeOK, WorkOK, Jobs
<1>6. OneAtATime'
  BY <1>1, <1>3, <1>4 DEF OneAtATime, Inside
<1>7. DispatchOnce'
  BY <1>1, <1>3, <1>4 DEF DispatchOnce, Dispatching, sends
<1>8. RepliesCounted'
  BY <1>1, <1>3, <1>4 DEF RepliesCounted, At, sends, counts
<1>9. TriedBeforeMarked'
  BY <1>1, <1>3, <1>4 DEF TriedBeforeMarked, Tried, redis, sends
<1>10. StateIsKnown'
  BY <1>1, <1>3, <1>4 DEF StateIsKnown, At, redis, counts
<1> QED BY <1>5, <1>6, <1>7, <1>8, <1>9, <1>10

\* The state is saved.
LEMMA SaveStep ==
  ASSUME ConversationInv, NEW w \in Workers, Save(w)
  PROVE  ConversationInv'
<1> USE DEF ConversationInv
<1>1. TypeOK'
  BY BoundsAssumption, NamesAssumption DEF Save, Goto, redis, sends, counts, TypeOK, Before, Inside, At
<1>2. OneAtATime'
  BY NamesAssumption DEF Save, Goto, redis, sends, counts, TypeOK, OneAtATime, Inside, At
<1>3. DispatchOnce'
  BY DEF Save, Goto, redis, sends, counts, TypeOK, DispatchOnce, Dispatching, At
<1>4. RepliesCounted'
  BY BoundsAssumption DEF Save, Goto, redis, sends, counts, TypeOK, RepliesCounted, At
<1>5. TriedBeforeMarked'
  BY DEF Save, Goto, redis, sends, counts, TypeOK, TriedBeforeMarked, Tried, At
<1>6. StateIsKnown'
  <2> SUFFICES ASSUME slow = 0
               PROVE  StateIsKnown'
    BY DEF StateIsKnown, Save, counts
  <2>1. overdue = {} /\ \A u \in Workers \ {w} : work[u].pc \notin Inside
    BY DEF Save, At, StateIsKnown, OneAtATime, Inside
  <2>2. \A u \in Workers \ {w} : work'[u] = work[u]
    BY DEF Save, Goto, TypeOK
  <2>3. /\ state' = work[w].next /\ work'[w].pc \in {"ready", "reply"}
        /\ work'[w].kind = work[w].kind
        /\ work[w].kind \in Booking => work[w].next.step = "READY"
    BY DEF Save, Goto, TypeOK, StateIsKnown, At
  <2>4. UNCHANGED overdue
    BY DEF Save
  <2> QED BY <2>1, <2>2, <2>3, <2>4 DEF StateIsKnown, Inside, At
<1> QED BY <1>1, <1>2, <1>3, <1>4, <1>5, <1>6

\* A link is asked for.
LEMMA HandleReadyStep ==
  ASSUME ConversationInv, NEW w \in Workers, HandleReady(w)
  PROVE  ConversationInv'
<1> USE DEF ConversationInv
<1>1. TypeOK'
  BY BoundsAssumption, NamesAssumption DEF HandleReady, redis, sends, counts, TypeOK, Before, Inside, At, Kinds
<1>2. OneAtATime'
  BY NamesAssumption DEF HandleReady, redis, sends, counts, TypeOK, OneAtATime, Inside, At
<1>3. DispatchOnce'
  BY DEF HandleReady, redis, sends, counts, TypeOK, DispatchOnce, Dispatching, At
<1>4. RepliesCounted'
  BY BoundsAssumption DEF HandleReady, redis, sends, counts, TypeOK, RepliesCounted, At
<1>5. TriedBeforeMarked'
  BY DEF HandleReady, redis, sends, counts, TypeOK, TriedBeforeMarked, Tried, At
<1>6. StateIsKnown'
  BY DEF HandleReady, redis, sends, counts, TypeOK, StateIsKnown, At, Booking
<1> QED BY <1>1, <1>2, <1>3, <1>4, <1>5, <1>6

\* The reply's row is inserted.
LEMMA ReplyInsertStep ==
  ASSUME ConversationInv, NEW w \in Workers, ReplyInsert(w)
  PROVE  ConversationInv'
<1> USE DEF ConversationInv
<1>1. TypeOK'
  BY BoundsAssumption, NamesAssumption DEF ReplyInsert, Goto, redis, sends, counts, TypeOK, Before, Inside, At
<1>2. OneAtATime'
  BY NamesAssumption DEF ReplyInsert, Goto, redis, sends, counts, TypeOK, OneAtATime, Inside, At
<1>3. DispatchOnce'
  BY DEF ReplyInsert, Goto, redis, sends, counts, TypeOK, DispatchOnce, Dispatching, At
<1>4. RepliesCounted'
  BY BoundsAssumption DEF ReplyInsert, Goto, redis, sends, counts, TypeOK, RepliesCounted, At
<1>5. TriedBeforeMarked'
  BY DEF ReplyInsert, Goto, redis, sends, counts, TypeOK, TriedBeforeMarked, Tried, At
<1>6. StateIsKnown'
  BY DEF ReplyInsert, Goto, redis, sends, counts, TypeOK, StateIsKnown, At
<1> QED BY <1>1, <1>2, <1>3, <1>4, <1>5, <1>6

\* The reply is sent, or fails.
LEMMA ReplySendStep ==
  ASSUME ConversationInv, NEW w \in Workers, ReplySend(w)
  PROVE  ConversationInv'
<1> USE DEF ConversationInv
<1>1. TypeOK'
  <2> DEFINE j == [work[w] EXCEPT !.pc = "commit"]
  <2>1. work' = [work EXCEPT ![w] = j]
    BY DEF ReplySend, Goto, TypeOK
  <2>2. j \in Jobs /\ (j.pc = "idle" \/ j.msg \in Messages) /\ j.pc \in Inside
    BY DEF ReplySend, At, TypeOK, Jobs, Inside
  <2>3. overdue' = overdue
    BY DEF ReplySend
  <2> HIDE DEF j
  <2>4. WorkOK'
    BY <2>1, <2>2, <2>3, WorkMoves
  <2>5. replies' \in [Messages -> Nat] /\ unsent' \subseteq Messages /\ linked' \in BOOLEAN
    <3>1. work[w].msg \in Messages
      BY DEF ReplySend, TypeOK, At
    <3>2. replies' \in [Messages -> Nat] /\ unsent' \subseteq Messages
      BY <3>1 DEF ReplySend, TypeOK
    <3>3. linked' = linked \/ linked' = TRUE \/ linked' = FALSE
      BY ZenonT(30) DEF ReplySend
    <3> QED BY <3>2, <3>3 DEF TypeOK
  <2> QED BY <2>4, <2>5, BoundsAssumption DEF ReplySend, redis, sends, counts, TypeOK, WorkOK, Jobs
<1>2. OneAtATime'
  BY NamesAssumption DEF ReplySend, Goto, redis, sends, counts, TypeOK, OneAtATime, Inside, At
<1>3. DispatchOnce'
  BY DEF ReplySend, Goto, redis, sends, counts, TypeOK, DispatchOnce, Dispatching, At
<1>4. RepliesCounted'
  BY BoundsAssumption DEF ReplySend, Goto, redis, sends, counts, TypeOK, RepliesCounted, At, DispatchOnce, Dispatching
<1>5. TriedBeforeMarked'
  BY DEF ReplySend, Goto, redis, sends, counts, TypeOK, TriedBeforeMarked, Tried, At
<1>6. StateIsKnown'
  BY DEF ReplySend, Goto, redis, sends, counts, TypeOK, StateIsKnown, At
<1> QED BY <1>1, <1>2, <1>3, <1>4, <1>5, <1>6

\* The reply's row is committed.
LEMMA ReplyCommitStep ==
  ASSUME ConversationInv, NEW w \in Workers, ReplyCommit(w)
  PROVE  ConversationInv'
<1> USE DEF ConversationInv
<1>1. TypeOK'
  BY BoundsAssumption, NamesAssumption DEF ReplyCommit, Goto, redis, sends, counts, TypeOK, Before, Inside, At
<1>2. OneAtATime'
  BY NamesAssumption DEF ReplyCommit, Goto, redis, sends, counts, TypeOK, OneAtATime, Inside, At
<1>3. DispatchOnce'
  BY DEF ReplyCommit, Goto, redis, sends, counts, TypeOK, DispatchOnce, Dispatching, At
<1>4. RepliesCounted'
  BY BoundsAssumption DEF ReplyCommit, Goto, redis, sends, counts, TypeOK, RepliesCounted, At
<1>5. TriedBeforeMarked'
  BY DEF ReplyCommit, Goto, redis, sends, counts, TypeOK, TriedBeforeMarked, Tried, At
<1>6. StateIsKnown'
  BY DEF ReplyCommit, Goto, redis, sends, counts, TypeOK, StateIsKnown, At
<1> QED BY <1>1, <1>2, <1>3, <1>4, <1>5, <1>6

\* The state after the reply is saved.
LEMMA AfterReplyStep ==
  ASSUME ConversationInv, NEW w \in Workers, AfterReply(w)
  PROVE  ConversationInv'
<1> USE DEF ConversationInv
<1>1. TypeOK'
  BY BoundsAssumption, NamesAssumption DEF AfterReply, Goto, redis, sends, counts, TypeOK, Before, Inside, At, States, BlockedSteps
<1>2. OneAtATime'
  BY NamesAssumption DEF AfterReply, Goto, redis, sends, counts, TypeOK, OneAtATime, Inside, At
<1>3. DispatchOnce'
  BY DEF AfterReply, Goto, redis, sends, counts, TypeOK, DispatchOnce, Dispatching, At
<1>4. RepliesCounted'
  BY BoundsAssumption DEF AfterReply, Goto, redis, sends, counts, TypeOK, RepliesCounted, At
<1>5. TriedBeforeMarked'
  BY DEF AfterReply, Goto, redis, sends, counts, TypeOK, TriedBeforeMarked, Tried, At
<1>6. StateIsKnown'
  BY DEF AfterReply, Goto, redis, sends, counts, TypeOK, StateIsKnown, At, OneAtATime, Inside, Booking, BlockedSteps
<1> QED BY <1>1, <1>2, <1>3, <1>4, <1>5, <1>6

\* The message is marked processed.
LEMMA MarkStep ==
  ASSUME ConversationInv, NEW w \in Workers, MarkProcessed(w)
  PROVE  ConversationInv'
<1> USE DEF ConversationInv
<1>1. TypeOK'
  <2> DEFINE j == [work[w] EXCEPT !.pc = "release", !.ok = TRUE]
  <2>1. work' = [work EXCEPT ![w] = j]
    BY DEF MarkProcessed, Goto, TypeOK
  <2>2. j \in Jobs /\ (j.pc = "idle" \/ j.msg \in Messages) /\ j.pc \in Inside
    BY ZenonT(60) DEF MarkProcessed, At, TypeOK, Jobs, Inside
  <2>3. overdue' = overdue
    BY DEF MarkProcessed
  <2> HIDE DEF j
  <2>4. WorkOK'
    BY <2>1, <2>2, <2>3, WorkMoves
  <2>5. processed' \subseteq Messages
    BY DEF MarkProcessed, TypeOK, At
  <2> QED BY <2>4, <2>5, BoundsAssumption DEF MarkProcessed, redis, sends, counts, TypeOK, WorkOK, Jobs
<1>2. OneAtATime'
  BY NamesAssumption DEF MarkProcessed, redis, sends, counts, TypeOK, OneAtATime, Inside, At
<1>3. DispatchOnce'
  BY DEF MarkProcessed, redis, sends, counts, TypeOK, DispatchOnce, Dispatching, At
<1>4. RepliesCounted'
  BY BoundsAssumption DEF MarkProcessed, redis, sends, counts, TypeOK, RepliesCounted, At
<1>5. TriedBeforeMarked'
  BY DEF MarkProcessed, redis, sends, counts, TypeOK, TriedBeforeMarked, Tried, At
<1>6. StateIsKnown'
  BY DEF MarkProcessed, redis, sends, counts, TypeOK, StateIsKnown, At, BlockedSteps, Booking
<1> QED BY <1>1, <1>2, <1>3, <1>4, <1>5, <1>6

\* A call throws.
LEMMA ThrowStep ==
  ASSUME ConversationInv, NEW w \in Workers, Throw(w)
  PROVE  ConversationInv'
<1> USE DEF ConversationInv
<1>1. TypeOK'
  BY BoundsAssumption, NamesAssumption DEF Throw, Goto, redis, sends, counts, TypeOK, Before, Inside, At
<1>2. OneAtATime'
  BY NamesAssumption DEF Throw, Goto, redis, sends, counts, TypeOK, OneAtATime, Inside, At
<1>3. DispatchOnce'
  BY DEF Throw, Goto, redis, sends, counts, TypeOK, DispatchOnce, Dispatching, At
<1>4. RepliesCounted'
  BY BoundsAssumption DEF Throw, Goto, redis, sends, counts, TypeOK, RepliesCounted, At
<1>5. TriedBeforeMarked'
  BY DEF Throw, Goto, redis, sends, counts, TypeOK, TriedBeforeMarked, Tried, At
<1>6. StateIsKnown'
  BY DEF Throw, Goto, redis, sends, counts, TypeOK, StateIsKnown, At, BlockedSteps, Booking
<1> QED BY <1>1, <1>2, <1>3, <1>4, <1>5, <1>6

\* The process dies.
LEMMA CrashStep ==
  ASSUME ConversationInv, NEW w \in Workers, Crash(w)
  PROVE  ConversationInv'
<1> USE DEF ConversationInv
<1>1. TypeOK'
  BY BoundsAssumption, NamesAssumption DEF Crash, Idle, redis, sends, counts, TypeOK, Before, Inside, At, Initial, States, Kinds, BlockedSteps
<1>2. OneAtATime'
  BY NamesAssumption DEF Crash, Idle, redis, sends, counts, TypeOK, OneAtATime, Inside, At
<1>3. DispatchOnce'
  BY DEF Crash, Idle, redis, sends, counts, TypeOK, DispatchOnce, Dispatching, At
<1>4. RepliesCounted'
  BY BoundsAssumption DEF Crash, Idle, redis, sends, counts, TypeOK, RepliesCounted, At
<1>5. TriedBeforeMarked'
  BY DEF Crash, Idle, redis, sends, counts, TypeOK, TriedBeforeMarked, Tried, At
<1>6. StateIsKnown'
  BY DEF Crash, Idle, redis, sends, counts, TypeOK, StateIsKnown, At, BlockedSteps, Booking
<1> QED BY <1>1, <1>2, <1>3, <1>4, <1>5, <1>6

-----------------------------------------------------------------------------
(* Every step, and the theorems *)

\* The invariant holds before the first message.
LEMMA ConversationInvInit ==
  ASSUME Init
  PROVE  ConversationInv
<1>1. TypeOK
  <2>1. /\ work \in [Workers -> Jobs] /\ \A w \in Workers : At(w, "idle")
    BY IdleIsJob DEF Init, At
  <2>2. /\ tries \in [Messages -> 0..MaxTries] /\ replies \in [Messages -> Nat]
        /\ crashes \in 0..MaxCrashes /\ slow \in 0..MaxSlow
    BY BoundsAssumption DEF Init
  <2>3. linked \in BOOLEAN /\ overdue = {} /\ lock = NONE /\ state = NONE
        /\ answered = {} /\ processed = {} /\ noted = {} /\ unsent = {}
    BY DEF Init
  <2> QED BY <2>1, <2>2, <2>3 DEF TypeOK, Jobs
<1>2. \A w \in Workers : work[w].pc = "idle"
  BY IdleIsJob DEF Init
<1>3. OneAtATime /\ DispatchOnce /\ TriedBeforeMarked /\ StateIsKnown
  BY <1>2
     DEF Init, OneAtATime, Inside, DispatchOnce, Dispatching, TriedBeforeMarked, StateIsKnown, At
<1>4. RepliesCounted
  <2>1. crashes = 0
    BY DEF Init
  <2>2. ASSUME NEW m \in Messages
        PROVE  replies[m] <= 1 + crashes /\ replies[m] <= crashes
    <3>1. replies[m] = 0
      BY DEF Init
    <3> QED BY <2>1, <3>1
  <2> QED BY <2>2 DEF RepliesCounted
<1> QED BY <1>1, <1>3, <1>4 DEF ConversationInv

\* Every step keeps it.
LEMMA ConversationInvStep ==
  ASSUME ConversationInv, [Next]_vars
  PROVE  ConversationInv'
<1>1. CASE \E w \in Workers : \/ \E m \in Messages : Receive(w, m)
                             \/ Step(w) \/ Throw(w) \/ Crash(w)
  BY <1>1, ReceiveStep, AcquireStep, RecheckStep, ReadStep, ProcessStep, SaveStep,
     HandleReadyStep, ReplyInsertStep, ReplySendStep, ReplyCommitStep, AfterReplyStep,
     MarkStep, ReleaseStep, ThrowStep, CrashStep
     DEF Step
<1>2. CASE LockExpires \/ StateExpires
  BY <1>2, LockExpiresStep, StateExpiresStep
<1>3. CASE UNCHANGED vars
  BY <1>3 DEF vars, redis, sends, counts, ConversationInv, TypeOK, At, OneAtATime,
              DispatchOnce, Dispatching, RepliesCounted, TriedBeforeMarked, Tried,
              StateIsKnown
<1> QED BY <1>1, <1>2, <1>3 DEF Next

\* The invariant holds however often messages are delivered and lost.
THEOREM ConversationInvariant == Spec => []ConversationInv
<1>1. Init => ConversationInv
  BY ConversationInvInit
<1>2. ConversationInv /\ [Next]_vars => ConversationInv'
  BY ConversationInvStep
<1> QED BY <1>1, <1>2, PTL DEF Spec

\* What it says of the lock, the replies and the marks.
LEMMA ConversationInvMeans ==
  ConversationInv => TypeOK /\ OneAtATime /\ OneReplyPerCrash /\ ProcessedIsAnswered
BY DEF ConversationInv, RepliesCounted, OneReplyPerCrash, TriedBeforeMarked, Tried,
       ProcessedIsAnswered

\* Redis, the notification rows and the workers keep their types.
THEOREM ConversationTypeCorrect == Spec => []TypeOK
BY ConversationInvariant, ConversationInvMeans, PTL

\* RedisConversationLock lets one worker at a time into runCriticalSection, but
\* for those that outlive the key.
THEOREM MessagesAreSerialised == Spec => []OneAtATime
BY ConversationInvariant, ConversationInvMeans, PTL

\* The message id as idempotency key keeps redeliveries from being answered
\* again, but for replies a crash has made the database forget.
THEOREM RepliesAreCounted == Spec => []OneReplyPerCrash
BY ConversationInvariant, ConversationInvMeans, PTL

\* markProcessed comes after the reply in every branch of the service.
THEOREM MarkedMeansReplied == Spec => []ProcessedIsAnswered
BY ConversationInvariant, ConversationInvMeans, PTL

\* A step of a conversation that waits for a human, or whose link was sent,
\* leaves it so or forgets it.
LEMMA BlockedStep ==
  ASSUME ConversationInv, [Next]_vars, state # NONE, state.step \in BlockedSteps,
         slow = 0, state' # state
  PROVE  state' = NONE
<1> USE DEF ConversationInv
<1>1. ASSUME NEW w \in Workers,
             \/ \E m \in Messages : Receive(w, m)
             \/ Step(w) \/ Throw(w) \/ Crash(w)
      PROVE  state' = NONE
  <2>1. CASE Save(w)
    BY <2>1 DEF Save, At, StateIsKnown
  <2>2. CASE AfterReply(w)
    BY SMTT(30), <2>2 DEF AfterReply, At, StateIsKnown, Booking, BlockedSteps
  <2>3. CASE ~Save(w) /\ ~AfterReply(w)
    BY <1>1, <2>3 DEF Step, Receive, Acquire, Recheck, ReadState, Process, HandleReady,
         ReplyInsert, ReplySend, ReplyCommit, MarkProcessed, Release, Throw, Crash, redis
  <2> QED BY <2>1, <2>2, <2>3
<1>2. CASE LockExpires \/ StateExpires \/ UNCHANGED vars
  BY <1>2 DEF LockExpires, StateExpires, redis, vars
<1> QED BY <1>1, <1>2 DEF Next

\* REQUIRES_HUMAN and LINK_SENT are left only when the state expires, as long
\* as no worker has outlived its lock.
THEOREM BlockedConversationsStay == Spec => BlockedStaysBlocked
<1>1. ASSUME ConversationInv, [Next]_vars
      PROVE  [(/\ state # NONE /\ state.step \in BlockedSteps
               /\ slow = 0 /\ state' # state) => state' = NONE]_vars
  BY <1>1, BlockedStep
<1> QED BY <1>1, ConversationInvariant, PTL DEF Spec, BlockedStaysBlocked
=============================================================================
