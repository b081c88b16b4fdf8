-------------------------- MODULE NotificationProofs --------------------------
(***************************************************************************)
(* Proofs about Bus and Notification, for any number of events, jobs,      *)
(* handlers and recipients: nothing published is lost, rows tell the       *)
(* truth, and what is sent more than once is counted against faults.       *)
(***************************************************************************)
EXTENDS Notification, FiniteSetTheorems, TLAPS

-----------------------------------------------------------------------------
(* The inductive invariant *)

InTransit(e) == e \in handled \/ queue[e] > 0 \/ \E w \in Workers : work[w].event = e

\* A run holds unpublished rows alone, and what it sent is on its way; so is
\* whatever was published and has no row.
OutboxIsKept ==
  /\ \A j \in Runs : \A e \in run[j].rows :
       outbox[e] = "unpublished" /\ (e \in run[j].sent => InTransit(e))
  /\ \A i, j \in Runs : \A e \in run[i].rows \cap run[j].rows : i = j
  /\ \A e \in Events \ published : outbox[e] = "none" /\ queue[e] = 0
  /\ \A e \in published : outbox[e] = "unpublished" \/ InTransit(e)

\* The steps of a handler that has not sent yet, for one event and recipient.
Ahead(h, e, r) == h.event = e /\ h.step[r] \in {"look", "insert", "send"}
Pending(e, r) == {w \in Workers : Ahead(work[w], e, r)}

\* The publication, or the row no run has sent.
ToPublish(e) == \/ e \notin published
                \/ outbox[e] = "unpublished" /\ \A j \in Runs : e \notin run[j].sent

\* Every copy of an event, in the outbox, in the queue or with a handler, may
\* become one more message: they were one, and grew with crashes and copies.
CopiesCounted ==
  \A e \in Events, r \in Recipients :
    /\ IsFiniteSet(Pending(e, r))
    /\ sent[e][r] + queue[e] + Cardinality(Pending(e, r)) + (IF ToPublish(e) THEN 1 ELSE 0)
         <= 1 + crashes + copies

\* What a handler's row for event e and recipient r says at each step.
RecipientOK(e, r, step, kept, aborted) ==
  /\ step \in {"out", "look", "insert"} => kept = "none"
  /\ step \in {"send", "sent", "failed"} => kept = "PENDING"
  /\ step = "done" /\ ~aborted => kept # "PENDING"
  /\ step = "sent" \/ kept = "SENT" => sent[e][r] > 0
  /\ Keyed(e) => /\ step = "out" <=> r \notin To[e]
                 /\ ~aborted /\ step = "done" => kept # "none" \/ rows[e][r] # "none"

HandlerOK(h) ==
  h.event # NONE =>
    \A r \in Recipients : RecipientOK(h.event, r, h.step[r], h.kept[r], h.aborted)

HandlersOK == \A w \in Workers : /\ HandlerOK(work[w])
                                 /\ work[w].event = NONE => work[w] = NoWork

\* A handler holds an uncommitted row.
Holds(w, e, r) == work[w].event = e /\ work[w].kept[r] # "none"

\* With a key one handler holds an event's row, and only until one is
\* committed; the rows of all its recipients are committed together.
KeyIsUnique ==
  \A e \in Events, r \in Recipients : Keyed(e) =>
    /\ \A v, w \in Workers : Holds(v, e, r) /\ Holds(w, e, r) => v = w
    /\ \A w \in Workers : Holds(w, e, r) => rows[e][r] = "none"
    /\ \A s \in Recipients : r \in To[e] /\ s \in To[e] /\ rows[e][r] # "none"
                               => rows[e][s] # "none"

\* A message no row accounts for was lost to a crash, with the transaction
\* that inserted its row.
KeyedCounted ==
  \A e \in Events, r \in Recipients : Keyed(e) =>
    /\ sent[e][r] <= 1 + crashes
    /\ rows[e][r] = "none" /\ (\A w \in Workers : ~Holds(w, e, r)) => sent[e][r] <= crashes
    /\ \A w \in Workers : Holds(w, e, r) =>
         sent[e][r] + (IF work[w].step[r] = "send" THEN 1 ELSE 0)
           <= crashes + (IF work[w].aborted THEN 0 ELSE 1)

NotificationInv == /\ NoticesTypeOK /\ OutboxIsKept /\ CopiesCounted /\ HandlersOK
                   /\ RowsAreTrue /\ KeyIsUnique /\ KeyedCounted

-----------------------------------------------------------------------------
(* What steps have in common *)

Handlers == [event : Events \cup {NONE}, step : [Recipients -> Steps],
             kept : [Recipients -> Status], aborted : BOOLEAN]

LEMMA NoWorkIsHandler == NoWork \in Handlers /\ NoWork.event = NONE
BY DEF NoWork, Handlers, Nobody, Steps, Status

\* A member comes or goes.
LEMMA OneMemberMoves ==
  ASSUME NEW S, NEW T, NEW x, NEW after \in BOOLEAN, IsFiniteSet(S),
         T = IF after THEN S \cup {x} ELSE S \ {x}
  PROVE  /\ IsFiniteSet(T)
         /\ Cardinality(S) \in Nat /\ Cardinality(T) \in Nat
         /\ Cardinality(T) + (IF x \in S THEN 1 ELSE 0)
              = Cardinality(S) + (IF after THEN 1 ELSE 0)
<1>1. /\ Cardinality(S) \in Nat
      /\ IsFiniteSet(S \cup {x}) /\ IsFiniteSet(S \ {x})
      /\ Cardinality(S \cup {x}) =
           IF x \in S THEN Cardinality(S) ELSE Cardinality(S) + 1
      /\ Cardinality(S \ {x}) =
           IF x \in S THEN Cardinality(S) - 1 ELSE Cardinality(S)
  BY FS_CardinalityType, FS_AddElement, FS_RemoveElement
<1>2. Cardinality(T) \in Nat
  BY <1>1, FS_CardinalityType
<1> QED BY <1>1, <1>2

NoteTypes == /\ work \in [Workers -> Handlers]
             /\ \A w \in Workers : work[w] = NoWork \/ work[w].event \in published
             /\ rows \in [Events -> [Recipients -> Status]]
             /\ sent \in [Events -> [Recipients -> Nat]]
             /\ handled \subseteq published

LEMMA TypesSplit == NoticesTypeOK <=> BusTypeOK /\ NoteTypes
BY DEF NoticesTypeOK, NoteTypes, Handlers

\* A step of the bus alone leaves handlers and rows as they are.
LEMMA BusKeepsNotes ==
  ASSUME NotificationInv, UNCHANGED noteVars, BusTypeOK', crashes' >= crashes,
         published \subseteq published'
  PROVE  /\ NoticesTypeOK' /\ HandlersOK' /\ RowsAreTrue' /\ KeyIsUnique' /\ KeyedCounted'
<1> USE DEF NotificationInv
<1>1. NoticesTypeOK'
  BY TypesSplit DEF NoteTypes, noteVars, NoWork, Nobody, NoticesTypeOK, Handlers
<1>2. HandlersOK' /\ RowsAreTrue' /\ KeyIsUnique'
  <2>1. work' = work /\ rows' = rows /\ sent' = sent
    BY DEF noteVars
  <2>2. HandlersOK'
    BY <2>1 DEF HandlersOK, HandlerOK, RecipientOK
  <2>3. RowsAreTrue'
    BY <2>1 DEF RowsAreTrue
  <2>4. KeyIsUnique'
    BY <2>1 DEF KeyIsUnique, Holds
  <2> QED BY <2>2, <2>3, <2>4
<1>3. KeyedCounted'
  <2>1. crashes \in Nat /\ crashes' \in Nat
    BY DEF NoticesTypeOK, BusTypeOK
  <2>2. \A e \in Events, r \in Recipients : sent[e][r] \in Nat
    BY DEF NoticesTypeOK
  <2> QED BY <2>1, <2>2 DEF KeyedCounted, Holds, noteVars
<1> QED BY <1>1, <1>2, <1>3

\* A step that adds no copy but for a crash or a copy counted keeps the count.
LEMMA BusKeepsCount ==
  ASSUME NotificationInv, UNCHANGED noteVars, BusTypeOK',
         \A e \in Events :
           queue'[e] + (IF ToPublish(e)' THEN 1 ELSE 0) + crashes + copies
             <= queue[e] + (IF ToPublish(e) THEN 1 ELSE 0) + crashes' + copies'
  PROVE  CopiesCounted'
<1> SUFFICES ASSUME NEW e \in Events, NEW r \in Recipients
             PROVE  /\ IsFiniteSet(Pending(e, r)')
                    /\ (sent[e][r] + queue[e] + Cardinality(Pending(e, r))
                          + (IF ToPublish(e) THEN 1 ELSE 0) <= 1 + crashes + copies)'
  BY DEF CopiesCounted
<1>1. Pending(e, r)' = Pending(e, r) /\ sent' = sent
  BY DEF noteVars, Pending, Ahead
<1>2. /\ queue[e] \in Nat /\ queue'[e] \in Nat /\ sent[e][r] \in Nat
      /\ crashes \in Nat /\ copies \in Nat /\ crashes' \in Nat /\ copies' \in Nat
  BY DEF NotificationInv, NoticesTypeOK, BusTypeOK
<1>3. /\ IsFiniteSet(Pending(e, r))
      /\ sent[e][r] + queue[e] + Cardinality(Pending(e, r))
           + (IF ToPublish(e) THEN 1 ELSE 0) <= 1 + crashes + copies
  BY DEF NotificationInv, CopiesCounted
<1>4. Cardinality(Pending(e, r)) \in Nat
  BY <1>3, FS_CardinalityType
<1> QED BY <1>1, <1>2, <1>3, <1>4
-----------------------------------------------------------------------------
(* The bus *)

\* An event is published.
LEMMA PublishStep ==
  ASSUME NotificationInv, NEW e \in Events \ published, Publish(e), UNCHANGED noteVars
  PROVE  NotificationInv'
<1> USE DEF NotificationInv
<1>1. /\ UNCHANGED <<binding, run, crashes, refused, copies>>
      /\ published' = published \cup {e}
      /\ outbox[e] = "none" /\ queue[e] = 0
      /\ BusTypeOK /\ crashes \in Nat /\ copies \in Nat
  BY DEF Publish, NoticesTypeOK, BusTypeOK, OutboxIsKept
<1>2. \/ queue' = [queue EXCEPT ![e] = 1] /\ UNCHANGED outbox
      \/ outbox' = [outbox EXCEPT ![e] = "unpublished"] /\ UNCHANGED queue
  BY <1>1 DEF Publish, Enqueue, BusTypeOK
<1>3. BusTypeOK'
  <2>1. queue' \in [Events -> Nat] /\ outbox' \in [Events -> {"none", "unpublished", "published"}]
    BY <1>1, <1>2 DEF BusTypeOK
  <2> QED BY <1>1, <2>1 DEF BusTypeOK
<1>4. OutboxIsKept'
  <2>1. UNCHANGED <<run, work, handled>>
    BY <1>1 DEF noteVars
  <2>2. CASE queue' = [queue EXCEPT ![e] = 1] /\ UNCHANGED outbox
    BY <1>1, <2>1, <2>2 DEF OutboxIsKept, InTransit, BusTypeOK
  <2>3. CASE outbox' = [outbox EXCEPT ![e] = "unpublished"] /\ UNCHANGED queue
    BY <1>1, <2>1, <2>3 DEF OutboxIsKept, InTransit, BusTypeOK
  <2> QED BY <1>2, <2>2, <2>3
<1>5. CopiesCounted'
  <2>1. ASSUME NEW d \in Events
        PROVE  queue'[d] + (IF ToPublish(d)' THEN 1 ELSE 0) + crashes + copies
                 <= queue[d] + (IF ToPublish(d) THEN 1 ELSE 0) + crashes' + copies'
    <3>1. queue[d] \in Nat
      BY <1>1 DEF BusTypeOK
    <3>2. CASE d = e
      BY <1>1, <1>2, <3>1, <3>2 DEF ToPublish, BusTypeOK
    <3>3. CASE d # e
      <4>1. queue'[d] = queue[d] /\ ToPublish(d)' = ToPublish(d)
        BY <1>1, <1>2, <3>3 DEF ToPublish, BusTypeOK
      <4> QED BY <1>1, <3>1, <4>1
    <3> QED BY <3>2, <3>3
  <2> QED BY <1>3, <2>1, BusKeepsCount
<1> QED BY <1>1, <1>3, <1>4, <1>5, BusKeepsNotes

\* A run of the job reads the rows no other run holds.
LEMMA FindUnpublishedStep ==
  ASSUME NotificationInv, NEW j \in Runs, FindUnpublished(j), UNCHANGED noteVars
  PROVE  NotificationInv'
<1> USE DEF NotificationInv
<1>1. BusTypeOK'
  BY DEF FindUnpublished, NoRun, NoticesTypeOK, BusTypeOK
<1>2. OutboxIsKept'
  BY DEF FindUnpublished, NoRun, Locked, OutboxIsKept, InTransit, noteVars, NoticesTypeOK, BusTypeOK
<1>3. CopiesCounted'
  <2>1. \A d \in Events : ToPublish(d)' = ToPublish(d)
    BY DEF FindUnpublished, NoRun, ToPublish, NoticesTypeOK, BusTypeOK
  <2>2. ASSUME NEW d \in Events
        PROVE  queue'[d] + (IF ToPublish(d)' THEN 1 ELSE 0) + crashes + copies
                 <= queue[d] + (IF ToPublish(d) THEN 1 ELSE 0) + crashes' + copies'
    BY <2>1 DEF FindUnpublished, NoticesTypeOK, BusTypeOK
  <2> QED BY <1>1, <2>2, BusKeepsCount
<1>4. crashes' >= crashes /\ published \subseteq published'
  BY DEF FindUnpublished, NoticesTypeOK, BusTypeOK
<1> QED BY <1>1, <1>2, <1>3, <1>4, BusKeepsNotes

\* A row is sent, refused, or sent without an answer.
LEMMA PublishToSqsStep ==
  ASSUME NotificationInv, NEW j \in Runs, NEW e \in Events, PublishToSqs(j, e),
         UNCHANGED noteVars
  PROVE  NotificationInv'
<1> USE DEF NotificationInv
<1> DEFINE Accepted == /\ queue' = [queue EXCEPT ![e] = @ + 1]
                       /\ run' = [run EXCEPT ![j].sent = @ \cup {e}]
                       /\ UNCHANGED <<refused, copies>>
           Refused == /\ Faulty /\ refused' = refused + 1
                      /\ run' = [run EXCEPT ![j].failed = @ \cup {e}]
                      /\ UNCHANGED <<queue, copies>>
           Unanswered == /\ Faulty /\ copies' = copies + 1
                         /\ queue' = [queue EXCEPT ![e] = @ + 1]
                         /\ run' = [run EXCEPT ![j].failed = @ \cup {e}]
                         /\ UNCHANGED refused
<1>1. /\ UNCHANGED <<binding, outbox, published, crashes, work, handled>>
      /\ BusTypeOK /\ crashes \in Nat /\ copies \in Nat /\ refused \in Nat
      /\ e \in run[j].rows /\ outbox[e] = "unpublished" /\ e \in published
      /\ \A i \in Runs : e \notin run[i].sent
  BY DEF PublishToSqs, noteVars, NoticesTypeOK, BusTypeOK, OutboxIsKept
<1>2. Accepted \/ Refused \/ Unanswered
  BY DEF PublishToSqs, Enqueue
<1>3. BusTypeOK' /\ OutboxIsKept'
  <2>1. CASE Accepted
    <3>1. BusTypeOK'
      BY <1>1, <2>1 DEF BusTypeOK
    <3>2. OutboxIsKept'
      BY <1>1, <2>1 DEF OutboxIsKept, InTransit, BusTypeOK
    <3> QED BY <3>1, <3>2
  <2>2. CASE Refused \/ Unanswered
    <3>1. crashes' + refused' + copies' <= MaxFaults /\ {crashes', refused', copies'} \subseteq Nat
      BY <1>1, <2>2, FaultAssumption DEF Faulty, BusTypeOK
    <3>2. BusTypeOK'
      BY <1>1, <2>2, <3>1 DEF BusTypeOK
    <3>3. OutboxIsKept'
      BY <1>1, <2>2 DEF OutboxIsKept, InTransit, BusTypeOK
    <3> QED BY <3>2, <3>3
  <2> QED BY <1>2, <2>1, <2>2
<1>4. CopiesCounted'
  <2>1. ASSUME NEW d \in Events
        PROVE  queue'[d] + (IF ToPublish(d)' THEN 1 ELSE 0) + crashes + copies
                 <= queue[d] + (IF ToPublish(d) THEN 1 ELSE 0) + crashes' + copies'
    <3>1. queue[d] \in Nat
      BY <1>1 DEF BusTypeOK
    <3>2. CASE Accepted
      BY <1>1, <3>1, <3>2 DEF ToPublish, BusTypeOK
    <3>3. CASE Refused \/ Unanswered
      <4>1. ToPublish(d)' = ToPublish(d)
        BY <1>1, <3>3 DEF ToPublish, BusTypeOK
      <4>2. queue'[d] + copies <= queue[d] + copies'
        BY <1>1, <3>1, <3>3 DEF BusTypeOK
      <4>3. queue'[d] \in Nat /\ copies' \in Nat
        BY <1>3 DEF BusTypeOK
      <4> QED BY <1>1, <3>1, <4>1, <4>2, <4>3
    <3> QED BY <1>2, <3>2, <3>3
  <2> QED BY <1>3, <2>1, BusKeepsCount
<1> QED BY <1>1, <1>3, <1>4, BusKeepsNotes

\* A run marks what it sent and commits.
LEMMA MarkPublishedStep ==
  ASSUME NotificationInv, NEW j \in Runs, MarkPublished(j), UNCHANGED noteVars
  PROVE  NotificationInv'
<1> USE DEF NotificationInv
<1>1. BusTypeOK'
  BY DEF MarkPublished, NoRun, NoticesTypeOK, BusTypeOK
<1>2. OutboxIsKept'
  BY DEF MarkPublished, NoRun, OutboxIsKept, InTransit, noteVars, NoticesTypeOK, BusTypeOK
<1>3. CopiesCounted'
  <2>1. \A d \in Events : ToPublish(d)' => ToPublish(d)
    BY DEF MarkPublished, NoRun, ToPublish, NoticesTypeOK, BusTypeOK
  <2>2. ASSUME NEW d \in Events
        PROVE  queue'[d] + (IF ToPublish(d)' THEN 1 ELSE 0) + crashes + copies
                 <= queue[d] + (IF ToPublish(d) THEN 1 ELSE 0) + crashes' + copies'
    BY <2>1 DEF MarkPublished, NoticesTypeOK, BusTypeOK
  <2> QED BY <1>1, <2>2, BusKeepsCount
<1>4. crashes' >= crashes /\ published \subseteq published'
  BY DEF MarkPublished, NoticesTypeOK, BusTypeOK
<1> QED BY <1>1, <1>2, <1>3, <1>4, BusKeepsNotes

\* A run is lost before its COMMIT.
LEMMA RunLostStep ==
  ASSUME NotificationInv, NEW j \in Runs, RunLost(j), UNCHANGED noteVars
  PROVE  NotificationInv'
<1> USE DEF NotificationInv
<1>1. BusTypeOK'
  BY FaultAssumption DEF RunLost, NoRun, Faulty, NoticesTypeOK, BusTypeOK
<1>2. OutboxIsKept'
  BY DEF RunLost, NoRun, OutboxIsKept, InTransit, noteVars, NoticesTypeOK, BusTypeOK
<1>3. CopiesCounted'
  <2>1. ASSUME NEW d \in Events
        PROVE  queue'[d] + (IF ToPublish(d)' THEN 1 ELSE 0) + crashes + copies
                 <= queue[d] + (IF ToPublish(d) THEN 1 ELSE 0) + crashes' + copies'
    BY DEF RunLost, NoticesTypeOK, BusTypeOK
  <2> QED BY <1>1, <2>1, BusKeepsCount
<1>4. crashes' >= crashes /\ published \subseteq published'
  BY DEF RunLost, NoticesTypeOK, BusTypeOK
<1> QED BY <1>1, <1>2, <1>3, <1>4, BusKeepsNotes
-----------------------------------------------------------------------------
(* What the handlers' steps have in common *)

\* Who is past "out" works on an event that was published.
LEMMA WorkingMeans ==
  ASSUME NotificationInv, NEW w \in Workers, work[w] # NoWork
  PROVE  /\ work[w] \in Handlers /\ work[w].event \in published
         /\ work[w].event \in Events /\ work[w].event # NONE /\ HandlerOK(work[w])
<1>1. work[w] \in Handlers /\ work[w].event \in published /\ published \subseteq Events
  BY DEF NotificationInv, NoticesTypeOK, BusTypeOK, Handlers
<1> QED BY <1>1, TypeAssumption DEF NotificationInv, HandlersOK

LEMMA OutMeansNoWork ==
  ASSUME NEW w \in Workers, NEW r \in Recipients, work[w].step[r] # "out"
  PROVE  work[w] # NoWork
BY DEF NoWork, Nobody

\* A handler that goes on with its event keeps the bus and its types.
LEMMA HandlerKeepsBus ==
  ASSUME NotificationInv, NEW w \in Workers, NEW h \in Handlers,
         work' = [work EXCEPT ![w] = h],
         work[w] # NoWork, h.event = work[w].event,
         UNCHANGED <<outbox, run, queue, published, rows, handled>>,
         BusTypeOK', sent' \in [Events -> [Recipients -> Nat]]
  PROVE  NoticesTypeOK' /\ OutboxIsKept'
<1> USE DEF NotificationInv
<1>1. work \in [Workers -> Handlers]
  BY TypesSplit DEF NoteTypes
<1>2. \A u \in Workers : work'[u].event = work[u].event
  BY <1>1
<1>3. NoteTypes'
  <2>1. work' \in [Workers -> Handlers]
    BY <1>1
  <2>2. \A u \in Workers : work'[u] = NoWork' \/ work'[u].event \in published
    BY <1>1, WorkingMeans, TypesSplit DEF NoteTypes, NoWork, Nobody
  <2> QED BY <2>1, <2>2, TypesSplit DEF NoteTypes, NoWork, Nobody, Handlers, Steps, Status
<1>4. NoticesTypeOK'
  BY <1>3, TypesSplit DEF NoteTypes, NoticesTypeOK, Handlers
<1>5. \A e \in Events : InTransit(e)' = InTransit(e)
  BY <1>2 DEF InTransit
<1>6. published \subseteq Events /\ \A j \in Runs : run[j].rows \subseteq Events
  BY DEF NoticesTypeOK, BusTypeOK
<1>7. OutboxIsKept'
  BY <1>5, <1>6 DEF OutboxIsKept
<1> QED BY <1>4, <1>7

\* One handler's step keeps the count when it sends or gives back no more than
\* it had left to send, but for a crash or a copy counted.
LEMMA HandlerKeepsCount ==
  ASSUME NotificationInv, NEW w \in Workers, NEW h,
         work' = [work EXCEPT ![w] = h],
         UNCHANGED <<outbox, run, published>>, BusTypeOK',
         sent' \in [Events -> [Recipients -> Nat]],
         \A e \in Events, r \in Recipients :
           sent'[e][r] + queue'[e] + (IF Ahead(h, e, r) THEN 1 ELSE 0) + crashes + copies
             <= sent[e][r] + queue[e] + (IF Ahead(work[w], e, r) THEN 1 ELSE 0)
                  + crashes' + copies'
  PROVE  CopiesCounted'
<1> SUFFICES ASSUME NEW e \in Events, NEW r \in Recipients
             PROVE  /\ IsFiniteSet(Pending(e, r)')
                    /\ (sent[e][r] + queue[e] + Cardinality(Pending(e, r))
                          + (IF ToPublish(e) THEN 1 ELSE 0) <= 1 + crashes + copies)'
  BY DEF CopiesCounted
<1>1. ToPublish(e)' = ToPublish(e)
  BY DEF ToPublish
<1>2. /\ queue[e] \in Nat /\ queue'[e] \in Nat /\ sent[e][r] \in Nat /\ sent'[e][r] \in Nat
      /\ crashes \in Nat /\ copies \in Nat /\ crashes' \in Nat /\ copies' \in Nat
  BY DEF NotificationInv, NoticesTypeOK, BusTypeOK
<1>3. /\ IsFiniteSet(Pending(e, r))
      /\ sent[e][r] + queue[e] + Cardinality(Pending(e, r))
           + (IF ToPublish(e) THEN 1 ELSE 0) <= 1 + crashes + copies
  BY DEF NotificationInv, CopiesCounted
<1>4. /\ IsFiniteSet(Pending(e, r)')
      /\ Cardinality(Pending(e, r)) \in Nat /\ Cardinality(Pending(e, r)') \in Nat
      /\ Cardinality(Pending(e, r)') + (IF Ahead(work[w], e, r) THEN 1 ELSE 0)
              = Cardinality(Pending(e, r)) + (IF Ahead(h, e, r) THEN 1 ELSE 0)
  <2>1. \A u \in Workers : work'[u] = IF u = w THEN h ELSE work[u]
    BY TypesSplit DEF NotificationInv, NoteTypes
  <2>2. Pending(e, r)' = IF Ahead(h, e, r) THEN Pending(e, r) \cup {w}
                         ELSE Pending(e, r) \ {w}
    BY <2>1 DEF Pending, Ahead
  <2>3. w \in Pending(e, r) <=> Ahead(work[w], e, r)
    BY DEF Pending
  <2>4. Ahead(h, e, r) \in BOOLEAN
    BY DEF Ahead
  <2>5. ASSUME NEW S, NEW T, NEW after \in BOOLEAN, IsFiniteSet(S),
               T = IF after THEN S \cup {w} ELSE S \ {w}
        PROVE  /\ IsFiniteSet(T) /\ Cardinality(S) \in Nat /\ Cardinality(T) \in Nat
               /\ Cardinality(T) + (IF w \in S THEN 1 ELSE 0)
                    = Cardinality(S) + (IF after THEN 1 ELSE 0)
    BY <2>5, OneMemberMoves
  <2>6. /\ IsFiniteSet(Pending(e, r)')
        /\ Cardinality(Pending(e, r)) \in Nat /\ Cardinality(Pending(e, r)') \in Nat
        /\ Cardinality(Pending(e, r)') + (IF w \in Pending(e, r) THEN 1 ELSE 0)
              = Cardinality(Pending(e, r)) + (IF Ahead(h, e, r) THEN 1 ELSE 0)
    BY <1>3, <2>2, <2>4, <2>5
  <2> QED BY <2>3, <2>6
<1>5. /\ sent'[e][r] + queue'[e] + (IF Ahead(h, e, r) THEN 1 ELSE 0) + crashes + copies
             <= sent[e][r] + queue[e] + (IF Ahead(work[w], e, r) THEN 1 ELSE 0)
                  + crashes' + copies'
  OBVIOUS
<1> QED BY <1>1, <1>2, <1>3, <1>4, <1>5

\* Handlers stay as true as they were when messages and rows are added.
LEMMA HandlerStays ==
  ASSUME NEW h, HandlerOK(h), h.event \in Events,
         \A e \in Events, r \in Recipients :
           /\ sent[e][r] > 0 => sent'[e][r] > 0
           /\ rows[e][r] # "none" => rows'[e][r] # "none"
  PROVE  HandlerOK(h)'
BY DEF HandlerOK, RecipientOK, Keyed

\* One handler changes, and the others stay true.
LEMMA HandlersMove ==
  ASSUME NotificationInv, NEW w \in Workers, NEW h,
         work' = [work EXCEPT ![w] = h], HandlerOK(h)', h.event = NONE => h = NoWork,
         \A e \in Events, r \in Recipients :
           /\ sent[e][r] > 0 => sent'[e][r] > 0
           /\ rows[e][r] # "none" => rows'[e][r] # "none"
  PROVE  HandlersOK'
<1>1. \A u \in Workers : work'[u] = IF u = w THEN h ELSE work[u]
  BY TypesSplit DEF NotificationInv, NoteTypes
<1>2. ASSUME NEW u \in Workers, u # w
      PROVE  HandlerOK(work[u])' /\ (work[u].event = NONE => work[u] = NoWork)
  <2>1. work'[u] = work[u] /\ HandlerOK(work[u]) /\ (work[u].event = NONE => work[u] = NoWork)
    BY <1>1, <1>2 DEF NotificationInv, HandlersOK
  <2>2. CASE work[u].event = NONE
    BY <2>1, <2>2 DEF HandlerOK
  <2>3. CASE work[u].event # NONE
    <3>1. work[u].event \in Events
      BY <2>1, <2>3, WorkingMeans, NoWorkIsHandler
    <3>2. HandlerOK(work[u])'
      BY <2>1, <3>1, HandlerStays DEF HandlerOK, RecipientOK, Keyed
    <3> QED BY <2>1, <3>2
  <2> QED BY <2>2, <2>3
<1> QED BY <1>1, <1>2 DEF HandlersOK, NoWork, Nobody, HandlerOK
-----------------------------------------------------------------------------
(* A recipient of a handler's event gets on *)

\* The handler w with recipient r at another step.
Moved(w, r, step, kept, aborted) ==
  [work[w] EXCEPT !.step = [@ EXCEPT ![r] = step], !.kept = [@ EXCEPT ![r] = kept],
                  !.aborted = aborted]

Turns(w, r, step, kept, aborted) ==
  work' = [work EXCEPT ![w] = Moved(w, r, step, kept, aborted)]

LEMMA MovedIsHandler ==
  ASSUME NEW w \in Workers, work[w] \in Handlers, NEW r \in Recipients,
         NEW s \in Steps, NEW k \in Status, NEW a \in BOOLEAN
  PROVE  /\ Moved(w, r, s, k, a) \in Handlers
         /\ Moved(w, r, s, k, a).event = work[w].event
         /\ Moved(w, r, s, k, a).aborted = a
         /\ \A q \in Recipients :
              /\ Moved(w, r, s, k, a).step[q] = IF q = r THEN s ELSE work[w].step[q]
              /\ Moved(w, r, s, k, a).kept[q] = IF q = r THEN k ELSE work[w].kept[q]
BY DEF Moved, Handlers

\* The handler w of event e moves to step s, kept k and aborted a at recipient
\* r.  Its row is true; under a key it is inserted where there is none, and who
\* aborts has crashed or holds no row.
RecipientActs(w, r, e, s, k, a) ==
  /\ work[w].step[r] # "out" /\ e = work[w].event
  /\ Turns(w, r, s, k, a)
  /\ s # "out" /\ (work[w].aborted => a)
  /\ UNCHANGED <<outbox, run, queue, published, copies, rows, handled>>
  /\ BusTypeOK' /\ crashes' >= crashes
  /\ s \in {"look", "insert", "send"} => work[w].step[r] \in {"look", "insert", "send"}
  /\ \/ sent' = sent
     \/ /\ sent' = [sent EXCEPT ![e][r] = @ + 1]
        /\ work[w].step[r] = "send" /\ s = "sent"
  /\ RecipientOK(e, r, s, k, a)'
  /\ Keyed(e) =>
       /\ work[w].kept[r] = "none" /\ k # "none" =>
            rows[e][r] = "none" /\ \A v \in Workers : ~Holds(v, e, r)
       /\ work[w].kept[r] # "none" => k # "none"
       /\ k # "none" => sent'[e][r] + (IF s = "send" THEN 1 ELSE 0)
                          <= crashes' + (IF a THEN 0 ELSE 1)
       /\ a /\ ~work[w].aborted =>
            crashes' >= crashes + 1 \/ \A q \in Recipients : work[w].kept[q] = "none"

\* That is enough for the invariant's parts about one handler.
LEMMA RecipientMoves ==
  ASSUME NotificationInv, NEW w \in Workers, NEW r \in Recipients, NEW e \in Events,
         NEW s \in Steps, NEW k \in Status, NEW a \in BOOLEAN, RecipientActs(w, r, e, s, k, a)
  PROVE  NoticesTypeOK' /\ OutboxIsKept' /\ CopiesCounted' /\ HandlersOK' /\ RowsAreTrue'
<1> USE DEF NotificationInv
<1>1. /\ work[w] \in Handlers /\ work[w].event \in Events /\ work[w].event # NONE
      /\ HandlerOK(work[w]) /\ work[w] # NoWork
  BY OutMeansNoWork, WorkingMeans DEF RecipientActs
<1> PICK h : h = Moved(w, r, s, k, a)
  OBVIOUS
<1>2. /\ h \in Handlers /\ h.event = work[w].event /\ h.aborted = a /\ h.event = e
      /\ work' = [work EXCEPT ![w] = h]
      /\ \A q \in Recipients : /\ h.step[q] = IF q = r THEN s ELSE work[w].step[q]
                               /\ h.kept[q] = IF q = r THEN k ELSE work[w].kept[q]
  BY <1>1, MovedIsHandler DEF RecipientActs, Turns
<1>0. /\ s # "out" /\ (work[w].aborted => a)
      /\ UNCHANGED <<outbox, run, queue, published, copies, rows, handled>>
      /\ BusTypeOK' /\ crashes' >= crashes
      /\ s \in {"look", "insert", "send"} => work[w].step[r] \in {"look", "insert", "send"}
      /\ RecipientOK(e, r, s, k, a)'
      /\ \/ sent' = sent
         \/ /\ sent' = [sent EXCEPT ![h.event][r] = @ + 1]
            /\ work[w].step[r] = "send" /\ s = "sent"
  BY <1>2 DEF RecipientActs
<1>3. /\ sent \in [Events -> [Recipients -> Nat]] /\ sent' \in [Events -> [Recipients -> Nat]]
      /\ \A f \in Events, q \in Recipients :
           sent'[f][q] = IF sent' # sent /\ f = h.event /\ q = r THEN sent[f][q] + 1 ELSE sent[f][q]
  <2>1. sent \in [Events -> [Recipients -> Nat]]
    BY DEF NoticesTypeOK
  <2>2. CASE sent' = sent
    BY <2>1, <2>2
  <2>3. CASE sent' = [sent EXCEPT ![h.event][r] = @ + 1] /\ sent' # sent
    BY <1>1, <1>2, <2>1, <2>3
  <2> QED BY <1>0, <2>2, <2>3
<1>4. NoticesTypeOK' /\ OutboxIsKept'
  BY <1>0, <1>1, <1>2, <1>3, HandlerKeepsBus
<1>5. CopiesCounted'
  <2>1. ASSUME NEW f \in Events, NEW q \in Recipients
        PROVE  sent'[f][q] + queue'[f] + (IF Ahead(h, f, q) THEN 1 ELSE 0) + crashes + copies
                 <= sent[f][q] + queue[f] + (IF Ahead(work[w], f, q) THEN 1 ELSE 0)
                      + crashes' + copies'
    <3>1. /\ sent[f][q] \in Nat /\ queue[f] \in Nat /\ crashes \in Nat /\ copies \in Nat
          /\ crashes' \in Nat /\ queue'[f] = queue[f] /\ copies' = copies
      BY <1>0, <1>3 DEF NoticesTypeOK, BusTypeOK
    <3>2. CASE sent' # sent /\ f = h.event /\ q = r
      BY <1>0, <1>2, <1>3, <3>1, <3>2 DEF Ahead
    <3>3. CASE ~(sent' # sent /\ f = h.event /\ q = r)
      <4>1. Ahead(h, f, q) => Ahead(work[w], f, q)
        BY <1>0, <1>2 DEF Ahead
      <4> QED BY <1>0, <1>3, <3>1, <3>3, <4>1
    <3> QED BY <3>2, <3>3
  <2> QED BY <1>0, <1>2, <1>3, <2>1, HandlerKeepsCount
<1>6. ASSUME NEW f \in Events, NEW q \in Recipients
      PROVE  /\ sent[f][q] > 0 => sent'[f][q] > 0
             /\ rows[f][q] # "none" => rows'[f][q] # "none"
  BY <1>0, <1>3
<1>7. HandlersOK'
  <2>1. ASSUME NEW q \in Recipients
        PROVE  RecipientOK(h.event, q, h.step[q], h.kept[q], h.aborted)'
    <3>1. CASE q = r
      BY <1>0, <1>2, <3>1
    <3>2. CASE q # r
      <4>1. RecipientOK(work[w].event, q, work[w].step[q], work[w].kept[q], work[w].aborted)
        BY <1>1 DEF HandlerOK
      <4> QED BY <1>0, <1>1, <1>2, <1>6, <3>2, <4>1 DEF RecipientOK, Keyed
    <3> QED BY <3>1, <3>2
  <2>2. HandlerOK(h)'
    BY <2>1 DEF HandlerOK
  <2> QED BY <1>1, <1>2, <1>6, <2>2, HandlersMove
<1>8. RowsAreTrue'
  BY <1>0, <1>6 DEF RowsAreTrue
<1> QED BY <1>4, <1>5, <1>7, <1>8

\* And for its parts about the rows it holds under a key.
LEMMA KeyMoves ==
  ASSUME NotificationInv, NEW w \in Workers, NEW r \in Recipients, NEW e \in Events,
         NEW s \in Steps, NEW k \in Status, NEW a \in BOOLEAN, RecipientActs(w, r, e, s, k, a)
  PROVE  KeyIsUnique' /\ KeyedCounted'
<1> USE DEF NotificationInv
<1>1. work[w] \in Handlers
  BY OutMeansNoWork, WorkingMeans DEF RecipientActs
<1> PICK h : h = Moved(w, r, s, k, a)
  OBVIOUS
<1>2. /\ h \in Handlers /\ h.event = work[w].event /\ h.aborted = a /\ h.event = e
      /\ work' = [work EXCEPT ![w] = h]
      /\ \A q \in Recipients : /\ h.step[q] = IF q = r THEN s ELSE work[w].step[q]
                               /\ h.kept[q] = IF q = r THEN k ELSE work[w].kept[q]
  BY <1>1, MovedIsHandler DEF RecipientActs, Turns
<1>11. /\ rows' = rows /\ (work[w].aborted => a)
       /\ crashes' \in Nat /\ crashes' >= crashes
       /\ Keyed(e) =>
            /\ work[w].kept[r] = "none" /\ k # "none" =>
                 rows[e][r] = "none" /\ \A v \in Workers : ~Holds(v, e, r)
            /\ work[w].kept[r] # "none" => k # "none"
            /\ k # "none" => sent'[e][r] + (IF s = "send" THEN 1 ELSE 0)
                               <= crashes' + (IF a THEN 0 ELSE 1)
            /\ a /\ ~work[w].aborted =>
                 crashes' >= crashes + 1 \/ \A q \in Recipients : work[w].kept[q] = "none"
  BY DEF RecipientActs, BusTypeOK
<1>12. /\ sent' \in [Events -> [Recipients -> Nat]]
       /\ \A d \in Events, q \in Recipients :
            sent'[d][q] = sent[d][q] \/ (d = e /\ q = r /\ k # "none")
  <2>1. sent \in [Events -> [Recipients -> Nat]]
    BY DEF NoticesTypeOK
  <2>2. CASE sent' = sent
    BY <2>1, <2>2
  <2>3. CASE sent' = [sent EXCEPT ![e][r] = @ + 1] /\ s = "sent"
    <3>1. k # "none"
      BY <2>3 DEF RecipientActs, RecipientOK
    <3>2. sent' \in [Events -> [Recipients -> Nat]]
      BY <2>1, <2>3
    <3>3. \A d \in Events, q \in Recipients :
            ~(d = e /\ q = r) => sent'[d][q] = sent[d][q]
      BY <2>1, <2>3
    <3> QED BY <3>1, <3>2, <3>3
  <2> QED BY <2>2, <2>3 DEF RecipientActs
<1>3. \A u \in Workers : work'[u] = IF u = w THEN h ELSE work[u]
  BY <1>2, TypesSplit DEF NoteTypes
<1>4. ASSUME NEW d \in Events, NEW q \in Recipients, NEW u \in Workers,
             ~(d = e /\ q = r /\ u = w)
      PROVE  Holds(u, d, q)' <=> Holds(u, d, q)
  <2>1. CASE u = w
    <3>1. work'[u] = h /\ work[u].event = e /\ h.event = e
      BY <1>2, <1>3, <2>1
    <3>2. d = e => h.kept[q] = work[u].kept[q]
      BY <1>2, <1>4, <2>1
    <3> QED BY <3>1, <3>2 DEF Holds
  <2>2. CASE u # w
    BY <1>3, <2>2 DEF Holds
  <2> QED BY <2>1, <2>2
<1>5. Holds(w, e, r)' <=> k # "none"
  BY <1>2, <1>3 DEF Holds
<1>6. Holds(w, e, r) <=> work[w].kept[r] # "none"
  BY <1>2 DEF Holds
<1>7. ASSUME NEW d \in Events, NEW q \in Recipients, Keyed(d), NEW u \in Workers, Holds(u, d, q)'
      PROVE  /\ Holds(u, d, q) \/ ~\E v \in Workers : Holds(v, d, q)
             /\ rows[d][q] = "none"
  BY <1>4, <1>5, <1>6, <1>7, <1>11 DEF KeyIsUnique
<1>8. KeyIsUnique'
  <2>1. ASSUME NEW d \in Events, NEW q \in Recipients, Keyed(d),
               NEW u \in Workers, NEW v \in Workers, Holds(u, d, q)', Holds(v, d, q)'
        PROVE  u = v
    <3>1. CASE Holds(u, d, q) /\ Holds(v, d, q)
      BY <2>1, <3>1 DEF KeyIsUnique
    <3>2. CASE ~Holds(u, d, q) \/ ~Holds(v, d, q)
      BY <1>4, <1>7, <2>1, <3>2
    <3> QED BY <3>1, <3>2
  <2> QED BY <1>7, <1>11, <2>1 DEF KeyIsUnique, Keyed
<1>9. ASSUME NEW d \in Events, NEW q \in Recipients, Keyed(d)
      PROVE  /\ sent'[d][q] <= 1 + crashes'
             /\ rows[d][q] = "none" /\ (\A u \in Workers : ~Holds(u, d, q)') => sent'[d][q] <= crashes'
             /\ \A u \in Workers : Holds(u, d, q)' =>
                  sent'[d][q] + (IF work'[u].step[q] = "send" THEN 1 ELSE 0)
                    <= crashes' + (IF work'[u].aborted THEN 0 ELSE 1)
  <2>1. crashes \in Nat /\ sent[d][q] \in Nat /\ sent'[d][q] \in Nat
    BY <1>12 DEF NoticesTypeOK, BusTypeOK
  <2>2. CASE d = e /\ q = r /\ k # "none"
    <3>1. sent'[d][q] + (IF s = "send" THEN 1 ELSE 0) <= crashes' + (IF a THEN 0 ELSE 1)
      BY <1>9, <1>11, <2>2
    <3>2. Holds(w, d, q)' /\ \A u \in Workers : Holds(u, d, q)' => u = w
      BY <1>5, <1>8, <1>9, <2>2 DEF KeyIsUnique, Keyed
    <3>3. work'[w].step[q] = s /\ work'[w].aborted = a
      BY <1>2, <1>3, <2>2
    <3> QED BY <1>11, <2>1, <3>1, <3>2, <3>3
  <2>3. CASE ~(d = e /\ q = r /\ k # "none")
    <3>1. sent'[d][q] = sent[d][q]
      BY <1>12, <2>3
    <3>2. ASSUME NEW u \in Workers
          PROVE  Holds(u, d, q)' <=> Holds(u, d, q)
      <4>1. CASE d = e /\ q = r /\ u = w
        <5>1. k = "none" /\ work[w].kept[r] = "none"
          BY <1>9, <1>11, <2>3, <4>1
        <5> QED BY <1>5, <1>6, <4>1, <5>1
      <4>2. CASE ~(d = e /\ q = r /\ u = w)
        BY <1>4, <4>2
      <4> QED BY <4>1, <4>2
    <3>3. /\ sent[d][q] <= 1 + crashes
          /\ rows[d][q] = "none" /\ (\A u \in Workers : ~Holds(u, d, q)) => sent[d][q] <= crashes
          /\ \A u \in Workers : Holds(u, d, q) =>
               sent[d][q] + (IF work[u].step[q] = "send" THEN 1 ELSE 0)
                 <= crashes + (IF work[u].aborted THEN 0 ELSE 1)
      BY <1>9 DEF KeyedCounted
    <3>4. ASSUME NEW u \in Workers, Holds(u, d, q)
          PROVE  sent'[d][q] + (IF work'[u].step[q] = "send" THEN 1 ELSE 0)
                    <= crashes' + (IF work'[u].aborted THEN 0 ELSE 1)
      <4>1. sent[d][q] + (IF work[u].step[q] = "send" THEN 1 ELSE 0)
              <= crashes + (IF work[u].aborted THEN 0 ELSE 1)
        BY <3>3, <3>4
      <4>2. CASE u # w
        BY <1>3, <1>11, <2>1, <3>1, <4>1, <4>2
      <4>3. CASE u = w
        <5>1. d = e /\ work[w].kept[q] # "none" /\ q # r
          BY <1>2, <1>5, <1>9, <2>3, <3>2, <3>4, <4>3 DEF Holds
        <5>2. work'[w].step[q] = work[w].step[q] /\ work'[w].aborted = a
          BY <1>2, <1>3, <5>1
        <5>3. a /\ ~work[w].aborted => crashes' >= crashes + 1
          BY <1>9, <1>11, <5>1
        <5> QED BY <1>11, <2>1, <3>1, <4>1, <4>3, <5>2, <5>3
      <4> QED BY <4>2, <4>3
    <3> QED BY <1>11, <2>1, <3>1, <3>2, <3>3, <3>4
  <2> QED BY <2>2, <2>3
<1>10. KeyedCounted'
  BY <1>9, <1>11 DEF KeyedCounted, Keyed
<1> QED BY <1>8, <1>10

LEMMA RecipientStep ==
  ASSUME NotificationInv, NEW w \in Workers, NEW r \in Recipients, NEW e \in Events,
         NEW s \in Steps, NEW k \in Status, NEW a \in BOOLEAN, RecipientActs(w, r, e, s, k, a)
  PROVE  NotificationInv'
BY RecipientMoves, KeyMoves DEF NotificationInv

\* The actions' updates of a handler, in those terms.
LEMMA GoToMeans ==
  ASSUME NEW w \in Workers, NEW r \in Recipients, work \in [Workers -> Handlers],
         NEW s \in Steps, NEW k, k = work[w].kept[r], NEW a, a = work[w].aborted,
         work' = [work EXCEPT ![w].step[r] = s]
  PROVE  Turns(w, r, s, k, a)
<1>1. work[w] \in Handlers /\ work[w].kept = [work[w].kept EXCEPT ![r] = k]
  BY DEF Handlers
<1>2. [work[w] EXCEPT !.step = [@ EXCEPT ![r] = s]] = Moved(w, r, s, k, a)
  BY <1>1 DEF Moved, Handlers
<1> QED BY <1>2 DEF Turns

LEMMA AbortedMeans ==
  ASSUME NEW w \in Workers, NEW r \in Recipients, work \in [Workers -> Handlers],
         NEW k, k = work[w].kept[r],
         work' = [work EXCEPT ![w].step[r] = "done", ![w].aborted = TRUE]
  PROVE  Turns(w, r, "done", k, TRUE)
<1>1. work[w] \in Handlers /\ work[w].kept = [work[w].kept EXCEPT ![r] = k]
  BY DEF Handlers
<1>2. [work[w] EXCEPT !.step = [@ EXCEPT ![r] = "done"], !.aborted = TRUE]
        = Moved(w, r, "done", k, TRUE)
  BY <1>1 DEF Moved, Handlers
<1> QED BY <1>2 DEF Turns

LEMMA KeptMeans ==
  ASSUME NEW w \in Workers, NEW r \in Recipients, work \in [Workers -> Handlers],
         NEW s \in Steps, NEW k \in Status, NEW a, a = work[w].aborted,
         work' = [work EXCEPT ![w].step[r] = s, ![w].kept[r] = k]
  PROVE  Turns(w, r, s, k, a)
<1>1. work[w] \in Handlers
  OBVIOUS
<1>2. [work[w] EXCEPT !.step = [@ EXCEPT ![r] = s], !.kept = [@ EXCEPT ![r] = k]]
        = Moved(w, r, s, k, a)
  BY <1>1 DEF Moved, Handlers
<1>3. work' = [work EXCEPT ![w] = [work[w] EXCEPT !.step = [@ EXCEPT ![r] = s],
                                                  !.kept = [@ EXCEPT ![r] = k]]]
  OBVIOUS
<1> QED BY <1>2, <1>3 DEF Turns

\* A recipient's row as its handler's step finds it.
LEMMA RecipientFacts ==
  ASSUME NotificationInv, NEW w \in Workers, NEW r \in Recipients, work[w].step[r] # "out"
  PROVE  \E e \in Events, a \in BOOLEAN :
           /\ work \in [Workers -> Handlers] /\ e = work[w].event /\ a = work[w].aborted
           /\ \A q \in Recipients :
                /\ RecipientOK(e, q, work[w].step[q], work[w].kept[q], a)
                /\ work[w].kept[q] # "none" => Holds(w, e, q)
           /\ sent[e][r] \in Nat /\ crashes \in Nat
           /\ sent \in [Events -> [Recipients -> Nat]]
<1>1. /\ work \in [Workers -> Handlers] /\ work[w] \in Handlers
      /\ work[w].event \in Events /\ work[w].event # NONE /\ HandlerOK(work[w])
  BY OutMeansNoWork, WorkingMeans, TypesSplit DEF NotificationInv, NoteTypes
<1>2. work[w].aborted \in BOOLEAN
  BY <1>1 DEF Handlers
<1>3. /\ sent \in [Events -> [Recipients -> Nat]] /\ crashes \in Nat
  BY DEF NotificationInv, NoticesTypeOK, BusTypeOK
<1> QED BY <1>1, <1>2, <1>3 DEF HandlerOK, Holds

\* The idempotency key is looked up.
LEMMA LookStep ==
  ASSUME NotificationInv, NEW w \in Workers, NEW r \in Recipients, Look(w, r)
  PROVE  NotificationInv'
<1> USE DEF NotificationInv
<1>1. work[w].step[r] = "look" /\ UNCHANGED <<busVars, rows, sent, handled>>
  BY DEF Look
<1>2. PICK e \in Events, a \in BOOLEAN :
        /\ work \in [Workers -> Handlers] /\ e = work[w].event /\ a = work[w].aborted
        /\ RecipientOK(e, r, "look", work[w].kept[r], a)
  BY <1>1, RecipientFacts
<1>3. /\ BusTypeOK' /\ crashes' >= crashes
      /\ UNCHANGED <<outbox, run, queue, published, copies, rows, handled, sent>>
  BY <1>1 DEF busVars, NoticesTypeOK, BusTypeOK
<1>4. work[w].kept[r] = "none"
  BY <1>2 DEF RecipientOK
<1>5. PICK s \in {"insert", "done"} :
        s = IF a \/ rows[e][r] # "none" THEN "done" ELSE "insert"
  OBVIOUS
<1>6. s \in Steps /\ "none" \in Status
  BY <1>5 DEF Steps, Status
<1>7. Turns(w, r, s, "none", a)
  <2>1. work' = [work EXCEPT ![w].step[r] = s]
    BY <1>2, <1>5 DEF Look, GoTo
  <2> QED BY <1>2, <1>4, <1>6, <2>1, GoToMeans
<1>8. RecipientOK(e, r, s, "none", a)'
  BY <1>2, <1>3, <1>5 DEF RecipientOK, Keyed
<1>9. RecipientActs(w, r, e, s, "none", a)
  BY <1>1, <1>2, <1>3, <1>4, <1>5, <1>7, <1>8 DEF RecipientActs
<1> QED BY <1>6, <1>9, RecipientStep

\* The row is inserted, refused by the index, or left out after a failure.
LEMMA InsertStep ==
  ASSUME NotificationInv, NEW w \in Workers, NEW r \in Recipients, Insert(w, r)
  PROVE  NotificationInv'
<1> USE DEF NotificationInv
<1>1. work[w].step[r] = "insert" /\ UNCHANGED <<busVars, rows, sent, handled>>
  BY DEF Insert
<1>2. PICK e \in Events, a \in BOOLEAN :
        /\ work \in [Workers -> Handlers] /\ e = work[w].event /\ a = work[w].aborted
        /\ \A q \in Recipients :
             /\ RecipientOK(e, q, work[w].step[q], work[w].kept[q], a)
             /\ work[w].kept[q] # "none" => Holds(w, e, q)
        /\ sent[e][r] \in Nat /\ crashes \in Nat
  BY <1>1, RecipientFacts
<1>3. /\ BusTypeOK' /\ crashes' = crashes /\ crashes' >= crashes
      /\ UNCHANGED <<outbox, run, queue, published, copies, rows, handled, sent>>
  BY <1>1 DEF busVars, NoticesTypeOK, BusTypeOK
<1>4. work[w].kept[r] = "none" /\ (Keyed(e) => r \in To[e])
  BY <1>1, <1>2 DEF RecipientOK
<1>5. {"done", "send"} \subseteq Steps /\ {"none", "PENDING"} \subseteq Status
  BY DEF Steps, Status
<1>6. CASE a
  <2>1. Turns(w, r, "done", "none", a)
    <3>1. work' = [work EXCEPT ![w].step[r] = "done"]
      BY <1>2, <1>6 DEF Insert, GoTo
    <3> QED BY <1>2, <1>4, <1>5, <3>1, GoToMeans
  <2>2. RecipientOK(e, r, "done", "none", a)'
    BY <1>4, <1>6 DEF RecipientOK, Keyed
  <2>3. RecipientActs(w, r, e, "done", "none", a)
    BY <1>1, <1>2, <1>3, <1>4, <2>1, <2>2 DEF RecipientActs
  <2> QED BY <1>5, <2>3, RecipientStep
<1>7. CASE ~a /\ Keyed(e) /\ rows[e][r] # "none"
  <2>1. Turns(w, r, "done", "none", TRUE)
    <3>1. work' = [work EXCEPT ![w].step[r] = "done", ![w].aborted = TRUE]
      BY <1>2, <1>7 DEF Insert, Aborted
    <3> QED BY <1>2, <1>4, <3>1, AbortedMeans
  <2>2. RecipientOK(e, r, "done", "none", TRUE)'
    BY <1>4, <1>7 DEF RecipientOK, Keyed
  <2>3. \A q \in Recipients : work[w].kept[q] = "none"
    <3>1. SUFFICES ASSUME NEW q \in Recipients, work[w].kept[q] # "none"
                   PROVE  FALSE
      OBVIOUS
    <3>2. q \in To[e] /\ Holds(w, e, q)
      BY <1>2, <1>7, <3>1 DEF RecipientOK
    <3>3. rows[e][q] = "none" /\ rows[e][q] # "none"
      BY <1>4, <1>7, <3>2 DEF KeyIsUnique
    <3> QED BY <3>3
  <2>4. RecipientActs(w, r, e, "done", "none", TRUE)
    BY <1>1, <1>2, <1>3, <1>4, <2>1, <2>2, <2>3 DEF RecipientActs
  <2> QED BY <1>5, <2>4, RecipientStep
<1>8. CASE ~a /\ ~(Keyed(e) /\ rows[e][r] # "none")
  <2>1. Turns(w, r, "send", "PENDING", a)
    <3>1. work' = [work EXCEPT ![w].step[r] = "send", ![w].kept[r] = "PENDING"]
      BY <1>2, <1>8 DEF Insert
    <3> QED BY <1>2, <1>5, <3>1, KeptMeans
  <2>2. RecipientOK(e, r, "send", "PENDING", a)'
    BY <1>4 DEF RecipientOK, Keyed
  <2>3. Keyed(e) =>
          /\ rows[e][r] = "none" /\ \A v \in Workers : ~Holds(v, e, r)
          /\ sent'[e][r] + 1 <= crashes' + 1
    <3>1. SUFFICES ASSUME Keyed(e)
                   PROVE  /\ rows[e][r] = "none" /\ \A v \in Workers : ~Holds(v, e, r)
                          /\ sent'[e][r] + 1 <= crashes' + 1
      OBVIOUS
    <3>2. rows[e][r] = "none" /\ \A v \in Workers : ~Holds(v, e, r)
      BY <1>2, <1>4, <1>8, <3>1 DEF Insert, Waiting, Holds
    <3>3. sent[e][r] <= crashes
      BY <3>1, <3>2 DEF KeyedCounted
    <3> QED BY <1>2, <1>3, <3>2, <3>3
  <2>4. RecipientActs(w, r, e, "send", "PENDING", a)
    BY <1>1, <1>2, <1>3, <1>4, <1>8, <2>1, <2>2, <2>3 DEF RecipientActs
  <2> QED BY <1>5, <2>4, RecipientStep
<1> QED BY <1>6, <1>7, <1>8

\* The insert fails.
LEMMA InsertFailsStep ==
  ASSUME NotificationInv, NEW w \in Workers, NEW r \in Recipients, InsertFails(w, r)
  PROVE  NotificationInv'
<1> USE DEF NotificationInv
<1>1. /\ work[w].step[r] = "insert" /\ crashes' = crashes + 1
      /\ UNCHANGED <<binding, outbox, run, queue, published, refused, copies, rows, sent, handled>>
  BY DEF InsertFails
<1>2. PICK e \in Events, a \in BOOLEAN :
        /\ work \in [Workers -> Handlers] /\ e = work[w].event /\ a = work[w].aborted
        /\ RecipientOK(e, r, "insert", work[w].kept[r], a)
        /\ crashes \in Nat
  BY <1>1, RecipientFacts
<1>3. BusTypeOK' /\ crashes' >= crashes /\ crashes' >= crashes + 1
  BY <1>1, FaultAssumption DEF InsertFails, Faulty, NoticesTypeOK, BusTypeOK
<1>4. work[w].kept[r] = "none" /\ (Keyed(e) => r \in To[e])
  BY <1>2 DEF RecipientOK
<1>5. "done" \in Steps /\ "none" \in Status
  BY DEF Steps, Status
<1>6. Turns(w, r, "done", "none", TRUE)
  <2>1. work' = [work EXCEPT ![w].step[r] = "done", ![w].aborted = TRUE]
    BY DEF InsertFails, Aborted
  <2> QED BY <1>2, <1>4, <2>1, AbortedMeans
<1>7. RecipientOK(e, r, "done", "none", TRUE)'
  BY <1>4 DEF RecipientOK, Keyed
<1>8. RecipientActs(w, r, e, "done", "none", TRUE)
  <2>1. "done" \notin {"look", "insert", "send"} /\ "done" # "out"
    OBVIOUS
  <2>2. sent' = sent /\ UNCHANGED <<outbox, run, queue, published, copies, rows, handled>>
    BY <1>1
  <2> QED BY <1>1, <1>2, <1>3, <1>4, <1>6, <1>7, <2>1, <2>2 DEF RecipientActs
<1> QED BY <1>5, <1>8, RecipientStep

\* What the channel sends, or not, for a PENDING row.
LEMMA SendStep ==
  ASSUME NotificationInv, NEW w \in Workers, NEW r \in Recipients, Send(w, r)
  PROVE  NotificationInv'
<1> USE DEF NotificationInv
<1>1. work[w].step[r] = "send" /\ UNCHANGED <<busVars, rows, handled>>
  BY DEF Send
<1>2. PICK e \in Events, a \in BOOLEAN :
        /\ work \in [Workers -> Handlers] /\ e = work[w].event /\ a = work[w].aborted
        /\ RecipientOK(e, r, "send", work[w].kept[r], a)
        /\ work[w].kept[r] # "none" => Holds(w, e, r)
        /\ sent[e][r] \in Nat /\ crashes \in Nat /\ sent \in [Events -> [Recipients -> Nat]]
  BY <1>1, RecipientFacts
<1>3. /\ BusTypeOK' /\ crashes' = crashes /\ crashes' >= crashes
      /\ UNCHANGED <<outbox, run, queue, published, copies, rows, handled>>
  BY <1>1 DEF busVars, NoticesTypeOK, BusTypeOK
<1>4. work[w].kept[r] = "PENDING" /\ Holds(w, e, r) /\ (Keyed(e) => r \in To[e])
  BY <1>2 DEF RecipientOK
<1>5. {"sent", "failed"} \subseteq Steps /\ "PENDING" \in Status
  BY DEF Steps, Status
<1>6. Keyed(e) => sent[e][r] + 1 <= crashes + (IF a THEN 0 ELSE 1)
  BY <1>1, <1>2, <1>4 DEF KeyedCounted
<1>7. CASE /\ sent' = [sent EXCEPT ![work[w].event][r] = @ + 1]
           /\ GoTo(w, r, "sent")
  <2>1. Turns(w, r, "sent", "PENDING", a)
    <3>1. work' = [work EXCEPT ![w].step[r] = "sent"]
      BY <1>7 DEF GoTo
    <3> QED BY <1>2, <1>4, <1>5, <3>1, GoToMeans
  <2>2. sent' = [sent EXCEPT ![e][r] = @ + 1] /\ sent'[e][r] = sent[e][r] + 1
    BY <1>2, <1>7
  <2>3. RecipientOK(e, r, "sent", "PENDING", a)'
    BY <1>2, <1>4, <2>2 DEF RecipientOK, Keyed
  <2>4. Keyed(e) => sent'[e][r] + 0 <= crashes' + (IF a THEN 0 ELSE 1)
    BY <1>2, <1>3, <1>6, <2>2
  <2>5. RecipientActs(w, r, e, "sent", "PENDING", a)
    BY <1>1, <1>2, <1>3, <1>4, <2>1, <2>2, <2>3, <2>4 DEF RecipientActs
  <2> QED BY <1>5, <2>5, RecipientStep
<1>8. CASE GoTo(w, r, "failed") /\ UNCHANGED sent
  <2>1. Turns(w, r, "failed", "PENDING", a)
    <3>1. work' = [work EXCEPT ![w].step[r] = "failed"]
      BY <1>8 DEF GoTo
    <3> QED BY <1>2, <1>4, <1>5, <3>1, GoToMeans
  <2>2. RecipientOK(e, r, "failed", "PENDING", a)'
    BY <1>4 DEF RecipientOK, Keyed
  <2>3. Keyed(e) => sent'[e][r] + 0 <= crashes' + (IF a THEN 0 ELSE 1)
    BY <1>2, <1>3, <1>6, <1>8
  <2>4. RecipientActs(w, r, e, "failed", "PENDING", a)
    BY <1>1, <1>2, <1>3, <1>4, <1>8, <2>1, <2>2, <2>3 DEF RecipientActs
  <2> QED BY <1>5, <2>4, RecipientStep
<1> QED BY <1>7, <1>8 DEF Send

\* The row is marked SENT or FAILED, or stays PENDING in a lost transaction.
LEMMA MarkStep ==
  ASSUME NotificationInv, NEW w \in Workers, NEW r \in Recipients, Mark(w, r)
  PROVE  NotificationInv'
<1> USE DEF NotificationInv
<1>1. work[w].step[r] \in {"sent", "failed"} /\ UNCHANGED <<busVars, rows, sent, handled>>
  BY DEF Mark
<1>2. PICK e \in Events, a \in BOOLEAN :
        /\ work \in [Workers -> Handlers] /\ e = work[w].event /\ a = work[w].aborted
        /\ RecipientOK(e, r, work[w].step[r], work[w].kept[r], a)
        /\ work[w].kept[r] # "none" => Holds(w, e, r)
        /\ sent[e][r] \in Nat /\ crashes \in Nat
  BY <1>1, RecipientFacts
<1>3. /\ BusTypeOK' /\ crashes' = crashes /\ crashes' >= crashes
      /\ UNCHANGED <<outbox, run, queue, published, copies, rows, handled, sent>>
  BY <1>1 DEF busVars, NoticesTypeOK, BusTypeOK
<1>4. work[w].kept[r] = "PENDING" /\ Holds(w, e, r) /\ (Keyed(e) => r \in To[e])
  BY <1>1, <1>2 DEF RecipientOK
<1>5. PICK k \in {"PENDING", "SENT", "FAILED"} :
        k = IF a THEN "PENDING" ELSE IF work[w].step[r] = "sent" THEN "SENT" ELSE "FAILED"
  OBVIOUS
<1>6. k \in Status /\ "done" \in Steps
  BY <1>5 DEF Steps, Status
<1>7. Turns(w, r, "done", k, a)
  <2>1. work' = [work EXCEPT ![w].step[r] = "done", ![w].kept[r] = k]
    BY <1>2, <1>4, <1>5 DEF Mark
  <2> QED BY <1>2, <1>6, <2>1, KeptMeans
<1>8. RecipientOK(e, r, "done", k, a)'
  BY <1>1, <1>2, <1>3, <1>4, <1>5 DEF RecipientOK, Keyed
<1>9. Keyed(e) => sent'[e][r] + 0 <= crashes' + (IF a THEN 0 ELSE 1)
  <2>1. Keyed(e) => sent[e][r] + (IF work[w].step[r] = "send" THEN 1 ELSE 0)
                      <= crashes + (IF a THEN 0 ELSE 1)
    BY <1>2, <1>4 DEF KeyedCounted
  <2> QED BY <1>1, <1>2, <1>3, <2>1
<1>10. RecipientActs(w, r, e, "done", k, a)
  BY <1>1, <1>2, <1>3, <1>4, <1>5, <1>7, <1>8, <1>9 DEF RecipientActs
<1> QED BY <1>6, <1>10, RecipientStep
-----------------------------------------------------------------------------
(* A handler starts and ends *)

\* A handler with no row of its own changes nothing for the keys, unless its
\* rows went with a crash.
LEMMA RowsLetGo ==
  ASSUME NotificationInv, NEW w \in Workers, NEW h, work' = [work EXCEPT ![w] = h],
         \A q \in Recipients : h.kept[q] = "none",
         rows' = rows, sent' = sent, crashes' \in Nat, crashes' >= crashes,
         work[w] # NoWork => crashes' >= crashes + 1
  PROVE  KeyIsUnique' /\ KeyedCounted'
<1> USE DEF NotificationInv
<1>1. \A u \in Workers : work'[u] = IF u = w THEN h ELSE work[u]
  BY TypesSplit DEF NoteTypes
<1>2. ASSUME NEW d \in Events, NEW q \in Recipients, NEW u \in Workers
      PROVE  Holds(u, d, q)' <=> u # w /\ Holds(u, d, q)
  BY <1>1 DEF Holds
<1>3. KeyIsUnique'
  BY <1>2 DEF KeyIsUnique, Keyed
<1>4. ASSUME NEW d \in Events, NEW q \in Recipients, Holds(w, d, q)
      PROVE  crashes' >= crashes + 1
  BY <1>4, TypeAssumption DEF Holds, NoWork
<1>5. ASSUME NEW d \in Events, NEW q \in Recipients, Keyed(d)
      PROVE  /\ sent[d][q] <= 1 + crashes'
             /\ rows[d][q] = "none" /\ (\A u \in Workers : ~Holds(u, d, q)') => sent[d][q] <= crashes'
             /\ \A u \in Workers : Holds(u, d, q)' =>
                  sent[d][q] + (IF work'[u].step[q] = "send" THEN 1 ELSE 0)
                    <= crashes' + (IF work'[u].aborted THEN 0 ELSE 1)
  <2>1. crashes \in Nat /\ sent[d][q] \in Nat
    BY DEF NoticesTypeOK, BusTypeOK
  <2>2. /\ sent[d][q] <= 1 + crashes
        /\ rows[d][q] = "none" /\ (\A u \in Workers : ~Holds(u, d, q)) => sent[d][q] <= crashes
        /\ \A u \in Workers : Holds(u, d, q) =>
             sent[d][q] + (IF work[u].step[q] = "send" THEN 1 ELSE 0)
               <= crashes + (IF work[u].aborted THEN 0 ELSE 1)
    BY <1>5 DEF KeyedCounted
  <2>3. CASE Holds(w, d, q)
    <3>1. \A u \in Workers : ~Holds(u, d, q)'
      BY <1>2, <1>5, <2>3 DEF KeyIsUnique
    <3> QED BY <1>4, <2>1, <2>2, <2>3, <3>1
  <2>4. CASE ~Holds(w, d, q)
    <3>1. \A u \in Workers : Holds(u, d, q)' <=> Holds(u, d, q)
      BY <1>2, <2>4
    <3>2. \A u \in Workers : Holds(u, d, q) => work'[u] = work[u]
      BY <1>1, <2>4
    <3> QED BY <2>1, <2>2, <3>1, <3>2
  <2> QED BY <2>3, <2>4
<1>6. KeyedCounted'
  BY <1>5 DEF KeyedCounted, Keyed
<1> QED BY <1>3, <1>6

\* A copy is delivered.
LEMMA DeliverStep ==
  ASSUME NotificationInv, NEW w \in Workers, NEW e \in Events, Deliver(w, e)
  PROVE  NotificationInv'
<1> USE DEF NotificationInv
<1>1. /\ work[w] = NoWork /\ queue[e] > 0 /\ queue' = [queue EXCEPT ![e] = @ - 1]
      /\ UNCHANGED <<binding, outbox, run, published, crashes, refused, copies, rows, sent, handled>>
      /\ work \in [Workers -> Handlers] /\ BusTypeOK /\ NoteTypes
      /\ crashes \in Nat /\ copies \in Nat /\ sent \in [Events -> [Recipients -> Nat]]
  BY TypesSplit DEF Deliver, NoteTypes, BusTypeOK
<1>2. PICK R \in Routes(e) :
        work' = [work EXCEPT ![w] = [NoWork EXCEPT !.event = e,
                   !.step = [r \in Recipients |-> IF r \in R THEN FirstStep(e) ELSE "out"]]]
  BY DEF Deliver
<1>3. PICK h : h = [NoWork EXCEPT !.event = e,
                      !.step = [r \in Recipients |-> IF r \in R THEN FirstStep(e) ELSE "out"]]
  OBVIOUS
<1>4. /\ h \in Handlers /\ h.event = e /\ h.aborted = FALSE
      /\ \A q \in Recipients : /\ h.kept[q] = "none"
                               /\ h.step[q] = IF q \in R THEN FirstStep(e) ELSE "out"
  BY <1>3 DEF NoWork, Nobody, Handlers, FirstStep, Steps, Status
<1>5. work' = [work EXCEPT ![w] = h] /\ \A u \in Workers : work'[u] = IF u = w THEN h ELSE work[u]
  BY <1>1, <1>2, <1>3
<1>6. e # NONE /\ e \in published
  BY <1>1, TypeAssumption DEF OutboxIsKept, BusTypeOK
<1>7. BusTypeOK'
  <2>1. queue' \in [Events -> Nat]
    BY <1>1 DEF BusTypeOK
  <2> QED BY <1>1, <2>1 DEF BusTypeOK
<1>8. NoticesTypeOK'
  <2>1. work' \in [Workers -> Handlers]
    BY <1>1, <1>4, <1>5
  <2>2. \A u \in Workers : work'[u] = NoWork' \/ work'[u].event \in published'
    BY <1>1, <1>4, <1>5, <1>6 DEF NoteTypes, NoWork, Nobody
  <2> QED BY <1>1, <1>7, <2>1, <2>2, TypesSplit
          DEF NoteTypes, NoticesTypeOK, Handlers, Steps, Status
<1>9. OutboxIsKept'
  <2>1. \A d \in Events : InTransit(d) => InTransit(d)'
    BY <1>1, <1>4, <1>5, TypeAssumption DEF InTransit, NoWork, BusTypeOK
  <2>2. \A d \in Events \ published : outbox'[d] = "none" /\ queue'[d] = 0
    BY <1>1, <1>6 DEF OutboxIsKept, BusTypeOK
  <2> QED BY <1>1, <2>1, <2>2 DEF OutboxIsKept, BusTypeOK
<1>10. CopiesCounted'
  <2>1. ASSUME NEW d \in Events, NEW r \in Recipients
        PROVE  sent'[d][r] + queue'[d] + (IF Ahead(h, d, r) THEN 1 ELSE 0) + crashes + copies
                 <= sent[d][r] + queue[d] + (IF Ahead(work[w], d, r) THEN 1 ELSE 0)
                      + crashes' + copies'
    <3>1. queue[d] \in Nat /\ sent[d][r] \in Nat /\ queue'[d] = IF d = e THEN queue[d] - 1 ELSE queue[d]
      BY <1>1 DEF BusTypeOK
    <3>2. Ahead(h, d, r) => d = e
      BY <1>4 DEF Ahead
    <3> QED BY <1>1, <3>1, <3>2
  <2> QED BY <1>1, <1>5, <1>7, <2>1, HandlerKeepsCount
<1>11. HandlersOK'
  <2>1. HandlerOK(h)'
    <3>1. FirstStep(e) \in {"look", "insert", "done"} /\ (Keyed(e) => FirstStep(e) = "look")
      BY DEF FirstStep, Keyed, HasDestination, HasTemplate
    <3>2. Keyed(e) => R = To[e]
      BY DEF Keyed, Routes, Routed
    <3> QED BY <1>4, <3>1, <3>2 DEF HandlerOK, RecipientOK, Keyed
  <2> QED BY <1>1, <1>4, <1>5, <1>6, <2>1, HandlersMove
<1>12. RowsAreTrue' /\ KeyIsUnique' /\ KeyedCounted'
  <2>1. /\ rows' = rows /\ sent' = sent /\ crashes' \in Nat /\ crashes' >= crashes
        /\ work[w] # NoWork => crashes' >= crashes + 1
    BY <1>1
  <2>2. KeyIsUnique' /\ KeyedCounted'
    <3>1. work' = [work EXCEPT ![w] = h] /\ \A q \in Recipients : h.kept[q] = "none"
      BY <1>4, <1>5
    <3> QED BY <2>1, <3>1, RowsLetGo
  <2> QED BY <2>1, <2>2 DEF RowsAreTrue
<1> QED BY <1>8, <1>9, <1>10, <1>11, <1>12

\* SQS delivers once more.
LEMMA DeliverAgainStep ==
  ASSUME NotificationInv, NEW e \in Events, DeliverAgain(e)
  PROVE  NotificationInv'
<1> USE DEF NotificationInv
<1>1. /\ Faulty /\ copies' = copies + 1 /\ queue' = [queue EXCEPT ![e] = @ + 1]
      /\ UNCHANGED <<binding, outbox, run, published, crashes, refused>> /\ UNCHANGED noteVars
      /\ BusTypeOK /\ crashes \in Nat /\ copies \in Nat
  BY DEF DeliverAgain, Enqueue, NoticesTypeOK, BusTypeOK
<1>2. e \in published
  <2>1. CASE e \in handled
    BY <2>1 DEF NoticesTypeOK
  <2>2. CASE \E w \in Workers : work[w].event = e
    BY <2>2, WorkingMeans, TypeAssumption DEF NoWork
  <2> QED BY <2>1, <2>2 DEF DeliverAgain
<1>3. BusTypeOK'
  BY <1>1, FaultAssumption DEF Faulty, BusTypeOK
<1>4. OutboxIsKept'
  <2>1. \A d \in Events : InTransit(d) => InTransit(d)'
    BY <1>1 DEF InTransit, noteVars, BusTypeOK
  <2>2. \A d \in Events \ published : outbox'[d] = "none" /\ queue'[d] = 0
    BY <1>1, <1>2 DEF OutboxIsKept, BusTypeOK
  <2> QED BY <1>1, <2>1, <2>2 DEF OutboxIsKept, BusTypeOK
<1>5. CopiesCounted'
  <2>1. ASSUME NEW d \in Events
        PROVE  queue'[d] + (IF ToPublish(d)' THEN 1 ELSE 0) + crashes + copies
                 <= queue[d] + (IF ToPublish(d) THEN 1 ELSE 0) + crashes' + copies'
    <3>1. queue[d] \in Nat /\ queue'[d] <= queue[d] + 1 /\ queue'[d] \in Nat
      BY <1>1 DEF BusTypeOK
    <3>2. ToPublish(d)' = ToPublish(d)
      BY <1>1 DEF ToPublish
    <3> QED BY <1>1, <3>1, <3>2
  <2> QED BY <1>1, <1>3, <2>1, BusKeepsCount
<1> QED BY <1>1, <1>3, <1>4, <1>5, BusKeepsNotes

\* A handler is lost, and its message visible again.
LEMMA HandlerLostStep ==
  ASSUME NotificationInv, NEW w \in Workers, HandlerLost(w)
  PROVE  NotificationInv'
<1> USE DEF NotificationInv
<1>1. /\ work[w] # NoWork /\ Faulty /\ crashes' = crashes + 1
      /\ work' = [work EXCEPT ![w] = NoWork]
      /\ UNCHANGED <<binding, outbox, run, published, refused, copies, rows, sent, handled>>
      /\ work \in [Workers -> Handlers] /\ BusTypeOK /\ NoteTypes
      /\ crashes \in Nat /\ copies \in Nat /\ sent \in [Events -> [Recipients -> Nat]]
  BY TypesSplit DEF HandlerLost, NoteTypes, BusTypeOK
<1>2. PICK e \in Events : /\ e = work[w].event /\ e \in published /\ e # NONE
                          /\ queue' = [queue EXCEPT ![e] = @ + 1]
  BY <1>1, WorkingMeans DEF HandlerLost, Enqueue
<1>3. \A u \in Workers : work'[u] = IF u = w THEN NoWork ELSE work[u]
  BY <1>1
<1>4. BusTypeOK'
  <2>1. queue' \in [Events -> Nat]
    BY <1>1, <1>2 DEF BusTypeOK
  <2> QED BY <1>1, <2>1, FaultAssumption DEF Faulty, BusTypeOK
<1>5. NoticesTypeOK'
  <2>1. work' \in [Workers -> Handlers]
    BY <1>1, NoWorkIsHandler
  <2>2. \A u \in Workers : work'[u] = NoWork' \/ work'[u].event \in published'
    BY <1>1, <1>3 DEF NoteTypes, NoWork, Nobody
  <2> QED BY <1>1, <1>4, <2>1, <2>2, TypesSplit
          DEF NoteTypes, NoticesTypeOK, Handlers, Steps, Status
<1>6. OutboxIsKept'
  <2>1. \A d \in Events : InTransit(d) => InTransit(d)'
    BY <1>1, <1>2, <1>3 DEF InTransit, BusTypeOK
  <2>2. \A d \in Events \ published : outbox'[d] = "none" /\ queue'[d] = 0
    BY <1>1, <1>2 DEF OutboxIsKept, BusTypeOK
  <2> QED BY <1>1, <2>1, <2>2 DEF OutboxIsKept, BusTypeOK
<1> PICK h : h = NoWork
  OBVIOUS
<1>7. h.event = NONE /\ work' = [work EXCEPT ![w] = h] /\ \A q \in Recipients : h.kept[q] = "none"
  BY <1>1 DEF NoWork, Nobody
<1>8. CopiesCounted'
  <2>1. ASSUME NEW d \in Events, NEW r \in Recipients
        PROVE  sent'[d][r] + queue'[d] + (IF Ahead(h, d, r) THEN 1 ELSE 0) + crashes + copies
                 <= sent[d][r] + queue[d] + (IF Ahead(work[w], d, r) THEN 1 ELSE 0)
                      + crashes' + copies'
    <3>1. queue[d] \in Nat /\ sent[d][r] \in Nat /\ queue'[d] \in Nat /\ queue'[d] <= queue[d] + 1
      BY <1>1, <1>2 DEF BusTypeOK
    <3>2. ~Ahead(h, d, r)
      BY <1>7, TypeAssumption DEF Ahead
    <3> QED BY <1>1, <3>1, <3>2
  <2> QED BY <1>1, <1>4, <1>7, <2>1, HandlerKeepsCount
<1>9. HandlersOK'
  <2>1. HandlerOK(h)'
    BY <1>7 DEF HandlerOK
  <2> QED BY <1>1, <1>7, <2>1, HandlersMove
<1>10. RowsAreTrue' /\ KeyIsUnique' /\ KeyedCounted'
  <2>1. /\ rows' = rows /\ sent' = sent /\ crashes' \in Nat /\ crashes' >= crashes
        /\ work[w] # NoWork => crashes' >= crashes + 1
    BY <1>1
  <2>2. KeyIsUnique' /\ KeyedCounted'
    BY <1>7, <2>1, RowsLetGo
  <2> QED BY <2>1, <2>2 DEF RowsAreTrue
<1> QED BY <1>5, <1>6, <1>8, <1>9, <1>10

\* A dispatch ends: its rows are committed, or rolled back after a failure.
LEMMA CommitStep ==
  ASSUME NotificationInv, NEW w \in Workers, Commit(w)
  PROVE  NotificationInv'
<1> USE DEF NotificationInv
<1>1. /\ work[w] # NoWork /\ \A r \in Recipients : work[w].step[r] \in {"out", "done"}
      /\ work' = [work EXCEPT ![w] = NoWork]
      /\ UNCHANGED <<binding, outbox, run, queue, published, crashes, refused, copies, sent>>
      /\ work \in [Workers -> Handlers] /\ BusTypeOK /\ NoteTypes
      /\ crashes \in Nat /\ copies \in Nat /\ sent \in [Events -> [Recipients -> Nat]]
      /\ rows \in [Events -> [Recipients -> Status]]
  BY TypesSplit DEF Commit, busVars, NoteTypes, BusTypeOK
<1>2. PICK e \in Events, a \in BOOLEAN :
        /\ e = work[w].event /\ e \in published /\ e # NONE /\ a = work[w].aborted
        /\ handled' = handled \cup {e}
        /\ \A r \in Recipients : RecipientOK(e, r, work[w].step[r], work[w].kept[r], a)
        /\ \A r \in Recipients : work[w].kept[r] \in Status
        /\ rows' = IF a THEN rows
                   ELSE [rows EXCEPT ![e] = [r \in Recipients |->
                          IF work[w].kept[r] = "none" THEN @[r] ELSE work[w].kept[r]]]
  <2>1. work[w].aborted \in BOOLEAN /\ work[w].event \in Events /\ work[w].event \in published
        /\ HandlerOK(work[w]) /\ work[w].event # NONE
        /\ \A r \in Recipients : work[w].kept[r] \in Status
    BY <1>1, WorkingMeans DEF Handlers
  <2>2. \A r \in Recipients : RecipientOK(work[w].event, r, work[w].step[r], work[w].kept[r],
                                          work[w].aborted)
    BY <2>1 DEF HandlerOK
  <2> QED BY <2>1, <2>2 DEF Commit
<1>3. \A u \in Workers : work'[u] = IF u = w THEN NoWork ELSE work[u]
  BY <1>1
<1>4. /\ rows' \in [Events -> [Recipients -> Status]]
      /\ \A d \in Events, r \in Recipients :
           rows'[d][r] = IF ~a /\ d = e /\ work[w].kept[r] # "none" THEN work[w].kept[r]
                         ELSE rows[d][r]
  BY <1>1, <1>2
<1>5. BusTypeOK'
  BY <1>1 DEF BusTypeOK
<1>6. NoticesTypeOK'
  <2>1. work' \in [Workers -> Handlers]
    BY <1>1, NoWorkIsHandler
  <2>2. \A u \in Workers : work'[u] = NoWork' \/ work'[u].event \in published'
    BY <1>1, <1>3 DEF NoteTypes, NoWork, Nobody
  <2>3. handled' \subseteq published'
    BY <1>1, <1>2 DEF NoteTypes
  <2> QED BY <1>1, <1>4, <1>5, <2>1, <2>2, <2>3, TypesSplit
          DEF NoteTypes, NoticesTypeOK, Handlers, Steps, Status
<1>7. OutboxIsKept'
  <2>1. \A d \in Events : InTransit(d) => InTransit(d)'
    BY <1>1, <1>2, <1>3 DEF InTransit, BusTypeOK
  <2> QED BY <1>1, <2>1 DEF OutboxIsKept, BusTypeOK
<1> PICK h : h = NoWork
  OBVIOUS
<1>8. h.event = NONE /\ work' = [work EXCEPT ![w] = h]
  BY <1>1 DEF NoWork
<1>9. CopiesCounted'
  <2>1. ASSUME NEW d \in Events, NEW r \in Recipients
        PROVE  sent'[d][r] + queue'[d] + (IF Ahead(h, d, r) THEN 1 ELSE 0) + crashes + copies
                 <= sent[d][r] + queue[d] + (IF Ahead(work[w], d, r) THEN 1 ELSE 0)
                      + crashes' + copies'
    <3>1. queue[d] \in Nat /\ sent[d][r] \in Nat
      BY <1>1 DEF BusTypeOK
    <3>2. ~Ahead(h, d, r)
      BY <1>8, TypeAssumption DEF Ahead
    <3> QED BY <1>1, <3>1, <3>2
  <2> QED BY <1>1, <1>5, <1>8, <2>1, HandlerKeepsCount
<1>10. HandlersOK'
  <2>1. HandlerOK(h)'
    BY <1>8 DEF HandlerOK
  <2>2. \A d \in Events, r \in Recipients :
          /\ sent[d][r] > 0 => sent'[d][r] > 0
          /\ rows[d][r] # "none" => rows'[d][r] # "none"
    BY <1>1, <1>4
  <2> QED BY <1>8, <2>1, <2>2, HandlersMove
<1>11. RowsAreTrue'
  <2>1. ASSUME NEW r \in Recipients, ~a
        PROVE  work[w].kept[r] # "PENDING" /\ (work[w].kept[r] = "SENT" => sent[e][r] > 0)
    BY <1>1, <1>2, <2>1 DEF RecipientOK
  <2> QED BY <1>1, <1>2, <1>4, <2>1 DEF RowsAreTrue
<1>12. ASSUME NEW d \in Events, NEW r \in Recipients, NEW u \in Workers
       PROVE  Holds(u, d, r)' <=> u # w /\ Holds(u, d, r)
  BY <1>3, <1>8, TypeAssumption DEF Holds, NoWork
<1>13. \A r \in Recipients : work[w].kept[r] # "none" => Holds(w, e, r)
  BY <1>2 DEF Holds
<1>14. ASSUME NEW r \in Recipients, Keyed(e), ~a, r \in To[e]
       PROVE  work[w].kept[r] # "none" \/ rows[e][r] # "none"
  BY <1>1, <1>2, <1>14 DEF RecipientOK
<1>15. ASSUME NEW d \in Events, NEW r \in Recipients, Keyed(d),
              NEW u \in Workers, u # w, Holds(u, d, r)
       PROVE  rows'[d][r] = "none"
  <2>1. rows[d][r] = "none" /\ ~Holds(w, d, r)
    BY <1>15 DEF KeyIsUnique
  <2> QED BY <1>4, <1>13, <2>1
<1>16. KeyIsUnique'
  <2>1. ASSUME NEW d \in Events, NEW r \in Recipients, NEW s \in Recipients, Keyed(d),
               r \in To[d], s \in To[d], rows'[d][r] # "none"
        PROVE  rows'[d][s] # "none"
    <3>1. CASE d = e /\ ~a
      BY <1>2, <1>4, <1>14, <2>1, <3>1
    <3>2. CASE ~(d = e /\ ~a)
      BY <1>4, <2>1, <3>2 DEF KeyIsUnique
    <3> QED BY <3>1, <3>2
  <2>2. \A d \in Events, r \in Recipients : Keyed(d) =>
          /\ \A u, v \in Workers : Holds(u, d, r)' /\ Holds(v, d, r)' => u = v
          /\ \A u \in Workers : Holds(u, d, r)' => rows'[d][r] = "none"
    BY <1>12, <1>15 DEF KeyIsUnique
  <2> QED BY <2>1, <2>2 DEF KeyIsUnique, Keyed
<1>17. KeyedCounted'
  <2>1. ASSUME NEW d \in Events, NEW r \in Recipients, Keyed(d)
        PROVE  /\ sent[d][r] <= 1 + crashes
               /\ rows'[d][r] = "none" /\ (\A u \in Workers : ~Holds(u, d, r)') => sent[d][r] <= crashes
               /\ \A u \in Workers : Holds(u, d, r)' =>
                    sent[d][r] + (IF work'[u].step[r] = "send" THEN 1 ELSE 0)
                      <= crashes + (IF work'[u].aborted THEN 0 ELSE 1)
    <3>1. /\ sent[d][r] <= 1 + crashes
          /\ rows[d][r] = "none" /\ (\A u \in Workers : ~Holds(u, d, r)) => sent[d][r] <= crashes
          /\ \A u \in Workers : Holds(u, d, r) =>
               sent[d][r] + (IF work[u].step[r] = "send" THEN 1 ELSE 0)
                 <= crashes + (IF work[u].aborted THEN 0 ELSE 1)
      BY <2>1 DEF KeyedCounted
    <3>2. ASSUME rows'[d][r] = "none", \A u \in Workers : ~Holds(u, d, r)'
          PROVE  sent[d][r] <= crashes
      <4>1. CASE Holds(w, d, r)
        <5>1. d = e /\ a
          BY <1>2, <1>4, <3>2, <4>1 DEF Holds
        <5>2. sent[d][r] \in Nat /\ work[w].step[r] # "send"
          BY <1>1
        <5>3. sent[d][r] + (IF work[w].step[r] = "send" THEN 1 ELSE 0)
                <= crashes + (IF work[w].aborted THEN 0 ELSE 1)
          BY <3>1, <4>1
        <5>4. work[w].aborted
          BY <1>2, <5>1
        <5> QED BY <1>1, <5>2, <5>3, <5>4
      <4>2. CASE ~Holds(w, d, r)
        <5>1. \A u \in Workers : ~Holds(u, d, r)
          BY <1>12, <3>2, <4>2
        <5>2. rows[d][r] = "none"
          BY <1>4, <1>13, <3>2, <4>2
        <5> QED BY <3>1, <5>1, <5>2
      <4> QED BY <4>1, <4>2
    <3>3. \A u \in Workers : Holds(u, d, r)' => Holds(u, d, r) /\ work'[u] = work[u]
      BY <1>3, <1>12
    <3> QED BY <3>1, <3>2, <3>3
  <2> QED BY <1>1, <2>1 DEF KeyedCounted, Keyed
<1> QED BY <1>6, <1>7, <1>9, <1>10, <1>11, <1>16, <1>17

-----------------------------------------------------------------------------
(* Every step, and the theorems *)

\* The invariant holds before the first event.
LEMMA NotificationInvInit ==
  ASSUME Init
  PROVE  NotificationInv
<1>1. NoticesTypeOK
  <2>1. BusTypeOK
    BY FaultAssumption DEF Init, BusInit, BusTypeOK, NoRun
  <2>2. NoteTypes
    BY NoWorkIsHandler DEF Init, NoteInit, NoteTypes, Nobody, Status
  <2> QED BY <2>1, <2>2, TypesSplit
<1>2. \A w \in Workers : work[w] = NoWork /\ work[w].event = NONE
  BY NoWorkIsHandler DEF Init, NoteInit
<1>3. OutboxIsKept /\ HandlersOK
  BY <1>2 DEF Init, BusInit, NoRun, OutboxIsKept, HandlersOK, HandlerOK
<1>4. CopiesCounted
  <2>1. ASSUME NEW e \in Events, NEW r \in Recipients
        PROVE  /\ IsFiniteSet(Pending(e, r))
               /\ sent[e][r] + queue[e] + Cardinality(Pending(e, r))
                    + (IF ToPublish(e) THEN 1 ELSE 0) <= 1 + crashes + copies
    <3>1. Pending(e, r) = {}
      BY <1>2, TypeAssumption DEF Pending, Ahead
    <3>2. IsFiniteSet(Pending(e, r)) /\ Cardinality(Pending(e, r)) = 0
      BY <3>1, FS_EmptySet
    <3>3. sent[e][r] = 0 /\ queue[e] = 0 /\ crashes = 0 /\ copies = 0
      BY DEF Init, BusInit, NoteInit, Nobody
    <3> QED BY <3>2, <3>3
  <2> QED BY <2>1 DEF CopiesCounted
<1>5. RowsAreTrue
  BY DEF Init, NoteInit, RowsAreTrue, Nobody
<1>6. \A w \in Workers, e \in Events, r \in Recipients : ~Holds(w, e, r)
  BY <1>2, TypeAssumption DEF Holds
<1>7. \A e \in Events, r \in Recipients : rows[e][r] = "none" /\ sent[e][r] = 0
  BY DEF Init, NoteInit, Nobody
<1>8. KeyIsUnique
  BY <1>6, <1>7 DEF KeyIsUnique
<1>9. KeyedCounted
  <2>1. crashes = 0
    BY DEF Init, BusInit
  <2> QED BY <1>6, <1>7, <2>1 DEF KeyedCounted
<1> QED BY <1>1, <1>3, <1>4, <1>5, <1>8, <1>9 DEF NotificationInv

\* The job and the consumers keep it.
LEMMA JobConsumeStep ==
  ASSUME NotificationInv, (Job /\ UNCHANGED noteVars) \/ Consume
  PROVE  NotificationInv'
<1>1. CASE Job /\ UNCHANGED noteVars
  BY <1>1, FindUnpublishedStep, PublishToSqsStep, MarkPublishedStep, RunLostStep DEF Job, JobStep
<1>2. CASE Consume
  <2>1. ASSUME NEW w \in Workers, NEW r \in Recipients, Recipient(w, r) \/ InsertFails(w, r)
        PROVE  NotificationInv'
    BY <2>1, LookStep, InsertStep, SendStep, MarkStep, InsertFailsStep DEF Recipient
  <2>2. ASSUME NEW w \in Workers, Commit(w) \/ HandlerLost(w)
        PROVE  NotificationInv'
    BY <2>2, CommitStep, HandlerLostStep
  <2>3. CASE \E w \in Workers, e \in Events : Deliver(w, e)
    BY <2>3, DeliverStep
  <2>4. CASE \E e \in Events : DeliverAgain(e)
    BY <2>4, DeliverAgainStep
  <2> QED BY <1>2, <2>1, <2>2, <2>3, <2>4 DEF Consume, Handle
<1> QED BY <1>1, <1>2

LEMMA NothingHappens ==
  ASSUME NotificationInv, UNCHANGED vars
  PROVE  NotificationInv'
<1> USE DEF NotificationInv
<1>1. /\ UNCHANGED noteVars /\ UNCHANGED busVars /\ published \subseteq published'
      /\ crashes \in Nat /\ crashes' = crashes
  BY DEF vars, busVars, NoticesTypeOK, BusTypeOK
<1>2. BusTypeOK'
  BY <1>1 DEF busVars, NoticesTypeOK, BusTypeOK
<1>3. OutboxIsKept' /\ CopiesCounted'
  BY <1>1 DEF busVars, noteVars, OutboxIsKept, InTransit, CopiesCounted, Pending, Ahead, ToPublish
<1>4. crashes' >= crashes
  BY <1>1
<1> QED BY <1>1, <1>2, <1>3, <1>4, BusKeepsNotes

\* Every step keeps it.
LEMMA NotificationInvStep ==
  ASSUME NotificationInv, [Next]_vars
  PROVE  NotificationInv'
BY PublishStep, JobConsumeStep, NothingHappens DEF Next, Happens

\* The invariant holds whatever is lost, refused or delivered again.
THEOREM NotificationInvariant == Spec => []NotificationInv
<1>1. Init => NotificationInv
  BY NotificationInvInit
<1>2. NotificationInv /\ [Next]_vars => NotificationInv'
  BY NotificationInvStep
<1> QED BY <1>1, <1>2, PTL DEF Spec

\* What it says of the messages that were sent.
LEMMA NotificationInvMeans ==
  NotificationInv => NoticesTypeOK /\ SendsPerFault /\ RowsAreTrue /\ NothingIsLost
<1> SUFFICES ASSUME NotificationInv
             PROVE  NoticesTypeOK /\ SendsPerFault /\ RowsAreTrue /\ NothingIsLost
  OBVIOUS
<1> USE DEF NotificationInv
<1>1. ASSUME NEW e \in Events, NEW r \in Recipients
      PROVE  sent[e][r] <= 1 + crashes + (IF Keyed(e) THEN 0 ELSE copies)
  <2>1. sent[e][r] \in Nat /\ queue[e] \in Nat /\ crashes \in Nat /\ copies \in Nat
    BY DEF NoticesTypeOK, BusTypeOK
  <2>2. CASE Keyed(e)
    BY <2>1, <2>2 DEF KeyedCounted
  <2>3. CASE ~Keyed(e)
    <3>1. /\ IsFiniteSet(Pending(e, r))
          /\ sent[e][r] + queue[e] + Cardinality(Pending(e, r))
               + (IF ToPublish(e) THEN 1 ELSE 0) <= 1 + crashes + copies
      BY DEF CopiesCounted
    <3>2. Cardinality(Pending(e, r)) \in Nat
      BY <3>1, FS_CardinalityType
    <3> QED BY <2>1, <2>3, <3>1, <3>2
  <2> QED BY <2>2, <2>3
<1>2. SendsPerFault
  BY <1>1 DEF SendsPerFault
<1>3. NothingIsLost
  BY DEF NothingIsLost, OutboxIsKept, InTransit
<1> QED BY <1>2, <1>3

\* The bus, the handlers and the rows keep their types.
THEOREM NotificationTypeCorrect == Spec => []NoticesTypeOK
BY NotificationInvariant, NotificationInvMeans, PTL

\* A recipient is sent an event once, and once more for each crash and, without
\* the idempotency key of the notifications table, for each copy SQS adds.
THEOREM SendsAreCounted == Spec => []SendsPerFault
BY NotificationInvariant, NotificationInvMeans, PTL

\* What dispatchToRecipient has committed is SENT, FAILED and true: no row is
\* PENDING for good.
THEOREM CommittedRowsAreTrue == Spec => []RowsAreTrue
BY NotificationInvariant, NotificationInvMeans, PTL

\* Between OutboxEventBus.publish and the end of a handler, an event is in the
\* outbox, in SQS or with a handler.
THEOREM PublishedIsKept == Spec => []NothingIsLost
BY NotificationInvariant, NotificationInvMeans, PTL
=============================================================================
