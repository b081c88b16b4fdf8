--------------------------------- MODULE Bus ----------------------------------
(***************************************************************************)
(* The event bus of the backend.  EVENT_BUS is bound to SqsEventBus, which *)
(* sends at once, or, as the README describes it, to OutboxEventBus, which *)
(* inserts a row that OutboxPublisherJob sends later: every ten seconds,   *)
(* on every process, in a transaction that locks the rows it reads.        *)
(***************************************************************************)
EXTENDS Naturals, FiniteSets

CONSTANTS
  Events,      \* events that can be published
  Runs,        \* runs of OutboxPublisherJob that can overlap
  MaxFaults    \* bound: crashes, refused sends and duplicated messages

ASSUME FaultAssumption == MaxFaults \in Nat

VARIABLES
  binding,  \* the implementation EVENT_BUS is bound to
  outbox,   \* outbox_events: each event's row
  run,      \* what each run of the job has read and sent
  queue,    \* visible copies of each event in SQS
  published,\* events publish was called for
  crashes,  \* jobs and handlers lost to a crash or a failed statement
  refused,  \* sends SQS refused
  copies    \* copies SQS delivered beyond those it answered for

busVars == <<binding, outbox, run, queue, published, crashes, refused, copies>>

-----------------------------------------------------------------------------
NoRun == [pc |-> "idle", rows |-> {}, sent |-> {}, failed |-> {}]

\* Rows another open run has locked.
Locked == UNION {run[j].rows : j \in Runs}

BusInit ==
  /\ binding \in {"sqs", "outbox"}
  /\ outbox = [e \in Events |-> "none"]
  /\ run = [j \in Runs |-> NoRun]
  /\ queue = [e \in Events |-> 0] /\ published = {}
  /\ crashes = 0 /\ refused = 0 /\ copies = 0

Faulty == crashes + refused + copies < MaxFaults

Enqueue(e) == queue' = [queue EXCEPT ![e] = @ + 1]

\* EventBus.publish: the send, or the insert of an unpublished row.
Publish(e) ==
  /\ IF binding = "sqs"
       THEN Enqueue(e) /\ UNCHANGED outbox
       ELSE outbox' = [outbox EXCEPT ![e] = "unpublished"] /\ UNCHANGED queue
  /\ published' = published \cup {e}
  /\ UNCHANGED <<binding, run, crashes, refused, copies>>

-----------------------------------------------------------------------------
(* OutboxPublisherJob.run *)

\* The rows are claimed by a status of their own.
FindClaiming(j) ==
  /\ run[j] = NoRun
  /\ LET rows == {e \in Events : outbox[e] = "unpublished"}
     IN  /\ rows # {} /\ run' = [run EXCEPT ![j] = [NoRun EXCEPT !.pc = "send", !.rows = rows]]
         /\ outbox' = [e \in Events |-> IF e \in rows THEN "claimed" ELSE outbox[e]]
  /\ UNCHANGED <<binding, queue, published, crashes, refused, copies>>

\* FOR UPDATE SKIP LOCKED: the oldest 50 rows no other run holds.
FindUnpublished(j) ==
  /\ run[j] = NoRun
  /\ LET rows == {e \in Events : outbox[e] = "unpublished"} \ Locked
     IN  rows # {} /\ run' = [run EXCEPT ![j] = [NoRun EXCEPT !.pc = "send", !.rows = rows]]
  /\ UNCHANGED <<binding, outbox, queue, published, crashes, refused, copies>>

\* publishToSqs of one row: accepted, refused, or accepted and the answer lost.
PublishToSqs(j, e) ==
  /\ run[j].pc = "send" /\ e \in run[j].rows \ (run[j].sent \cup run[j].failed)
  /\ \/ /\ Enqueue(e)
        /\ run' = [run EXCEPT ![j].sent = @ \cup {e}]
        /\ UNCHANGED <<refused, copies>>
     \/ /\ Faulty /\ refused' = refused + 1
        /\ run' = [run EXCEPT ![j].failed = @ \cup {e}]
        /\ UNCHANGED <<queue, copies>>
     \/ /\ Faulty /\ copies' = copies + 1
        /\ Enqueue(e)
        /\ run' = [run EXCEPT ![j].failed = @ \cup {e}]
        /\ UNCHANGED refused
  /\ UNCHANGED <<binding, outbox, published, crashes>>

Settled(j) == run[j].pc = "send" /\ run[j].rows = run[j].sent \cup run[j].failed

MarkAllPublished(j) ==
  /\ Settled(j)
  /\ outbox' = [e \in Events |-> IF e \in run[j].rows THEN "published" ELSE outbox[e]]
  /\ run' = [run EXCEPT ![j] = NoRun]
  /\ UNCHANGED <<binding, queue, published, crashes, refused, copies>>

\* Only the rows whose send was fulfilled; the COMMIT unlocks them all.
MarkPublished(j) ==
  /\ Settled(j)
  /\ outbox' = [e \in Events |-> IF e \in run[j].sent THEN "published" ELSE outbox[e]]
  /\ run' = [run EXCEPT ![j] = NoRun]
  /\ UNCHANGED <<binding, queue, published, crashes, refused, copies>>

\* The process dies before the COMMIT: what was sent stays unpublished.
RunLost(j) ==
  /\ run[j] # NoRun /\ Faulty
  /\ crashes' = crashes + 1
  /\ run' = [run EXCEPT ![j] = NoRun]
  /\ UNCHANGED <<binding, outbox, queue, published, refused, copies>>

JobStep(j) == FindUnpublished(j) \/ (\E e \in Events : PublishToSqs(j, e)) \/ MarkPublished(j)
Job == \E j \in Runs : JobStep(j) \/ RunLost(j)

-----------------------------------------------------------------------------
BusTypeOK ==
  /\ binding \in {"sqs", "outbox"}
  /\ outbox \in [Events -> {"none", "unpublished", "published"}]
  /\ run \in [Runs -> [pc : {"idle", "send"}, rows : SUBSET Events,
                       sent : SUBSET Events, failed : SUBSET Events]]
  /\ \A j \in Runs : run[j].sent \cup run[j].failed \subseteq run[j].rows
  /\ queue \in [Events -> Nat] /\ published \subseteq Events
  /\ {crashes, refused, copies} \subseteq Nat /\ crashes + refused + copies <= MaxFaults
=============================================================================
