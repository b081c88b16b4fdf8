----------------------------- MODULE TrialsProofs -----------------------------
(***************************************************************************)
(* Proofs about Trials, for any number of properties and of processes that *)
(* run the job in the same night, and any length of the trial: who is      *)
(* suspended was warned before, and every account belongs to a property.   *)
(***************************************************************************)
EXTENDS Trials, NotificationProofs

-----------------------------------------------------------------------------
(* The inductive invariant *)

JobType == [pc : Jobs, todo : SUBSET {"expired", "expiring"}, expired : SUBSET Properties,
            expiring : SUBSET Properties, warn : SUBSET Properties]

TrialTypes ==
  /\ status \in [Properties -> {"none", "trial", "active", "suspended"}]
  /\ left \in [Properties -> -1..TrialDays] /\ provisioning \subseteq Properties
  /\ accounts \in [Properties -> SUBSET Roles] /\ staff \in [Properties -> SUBSET Roles]
  /\ job \in [Processes -> JobType]
  /\ unheard \subseteq Events /\ missed \in BOOLEAN

\* What a run has read is over or about to be, and was on trial when it read;
\* once it has read, it has every trial that is still so.
RunOK(j) ==
  /\ job[j].pc = "idle" => job[j] = NoJob
  /\ job[j].pc = "done" => job[j] = Ended
  /\ job[j].pc \in {"suspend", "admins", "publish"} => job[j].todo = {}
  /\ job[j].pc # "publish" => job[j].warn = {}
  /\ \A p \in job[j].expired : left[p] = -1 /\ status[p] # "none"
  /\ \A p \in job[j].expiring : left[p] < 2 /\ status[p] # "none"
  /\ job[j].warn \subseteq job[j].expiring \ job[j].expired
  /\ Running(j) /\ "expired" \notin job[j].todo =>
       \A p \in Properties : left[p] = -1 /\ status[p] = "trial" => p \in job[j].expired
  /\ Running(j) /\ "expiring" \notin job[j].todo =>
       \A p \in Properties : left[p] < 2 /\ status[p] = "trial" => p \in job[j].expiring

JobOK == \A j \in Processes : RunOK(j)

\* A trial starts with all its days, and only one that is over is suspended.
StatusOK ==
  /\ \A p \in Properties : /\ status[p] = "none" => left[p] = TrialDays
                           /\ status[p] = "suspended" => left[p] = -1
                           /\ accounts[p] \cup staff[p] # {} => status[p] # "none"
  /\ \A p \in provisioning : status[p] # "none"

\* No process publishes a night's warning before the night, or twice in it.
WarnedOnce ==
  \A p \in Properties, j \in Processes :
    /\ \A d \in {-1, 0, 1} : <<p, d, j>> \in published => left[p] <= d
    /\ <<p, -1, j>> \in published => status[p] \in {"active", "suspended"}
    /\ job[j].pc \in {"read", "suspend", "admins"} /\ (left[p] >= 0 \/ p \in job[j].expiring)
         => <<p, left[p], j>> \notin published
    /\ p \in job[j].warn => <<p, left[p], j>> \notin published

\* Properties that are suspended, or can still be.
Owed(p) == status[p] \in {"trial", "suspended"} \/ \E j \in Processes : p \in job[j].expired

\* Unless a night's runs were all lost: no night has passed without a run; the
\* warnings of the nights behind a trial are out; and tonight's is out once a
\* run has ended, and out or about to be while one publishes.
WasTold ==
  ~missed =>
    /\ (\A j \in Processes : job[j].pc = "idle") => \A p \in Properties : left[p] = TrialDays
    /\ \A p \in Properties : Owed(p) => \A d \in {0, 1} : left[p] < d => Told(p, d)
    /\ \A p \in Properties : status[p] = "trial" =>
         \A d \in {0, 1} : left[p] = d =>
           \A j \in Processes : /\ job[j].pc = "done" => Told(p, d)
                                /\ job[j].pc = "publish" => p \in job[j].warn \/ Told(p, d)

TrialsInv == NotificationInv /\ TrialTypes /\ JobOK /\ StatusOK /\ WarnedOnce /\ WasTold

-----------------------------------------------------------------------------
(* What steps have in common *)

\* A night or a run that is lost costs the bus and the notifications nothing.
LEMMA CrashElsewhere ==
  ASSUME NotificationInv, Faulty, crashes' = crashes + 1,
         UNCHANGED <<binding, outbox, run, queue, published, refused, copies, noteVars>>
  PROVE  NotificationInv'
<1> USE DEF NotificationInv
<1>1. BusTypeOK' /\ crashes' >= crashes /\ published \subseteq published'
  BY FaultAssumption DEF Faulty, NoticesTypeOK, BusTypeOK
<1>2. OutboxIsKept'
  BY DEF OutboxIsKept, InTransit, noteVars
<1>3. CopiesCounted'
  <2>1. ASSUME NEW d \in Events
        PROVE  queue'[d] + (IF ToPublish(d)' THEN 1 ELSE 0) + crashes + copies
                 <= queue[d] + (IF ToPublish(d) THEN 1 ELSE 0) + crashes' + copies'
    <3>1. ToPublish(d)' = ToPublish(d)
      BY DEF ToPublish
    <3> QED BY <3>1 DEF NoticesTypeOK, BusTypeOK
  <2> QED BY <1>1, <2>1, BusKeepsCount
<1> QED BY <1>1, <1>2, <1>3, BusKeepsNotes

\* Neither the bus nor the handlers publish.
LEMMA OnlyPublishPublishes ==
  ASSUME (Job /\ UNCHANGED noteVars) \/ Consume
  PROVE  published' = published
BY DEF Job, JobStep, FindUnpublished, PublishToSqs, MarkPublished, RunLost, Consume, Deliver,
       DeliverAgain, Handle, Recipient, Look, Insert, InsertFails, Send, Mark, Commit,
       HandlerLost, busVars

LEMMA WarningsAreEvents ==
  ASSUME NEW p \in Properties, NEW d \in {-1, 0, 1}, NEW j \in Processes
  PROVE  <<p, d, j>> \in Events
BY WarningAssumption

\* A run that has not started, or has ended, has its type.
LEMMA NoJobHasType == NoJob \in JobType /\ Ended \in JobType
BY DEF NoJob, Ended, JobType, Jobs

\* A step of one run leaves the others alone.
LEMMA OneRunMoves ==
  ASSUME TrialTypes, NEW j \in Processes, NEW r \in JobType, job' = [job EXCEPT ![j] = r]
  PROVE  /\ job' \in [Processes -> JobType] /\ job'[j] = r
         /\ \A k \in Processes : k # j => job'[k] = job[k]
BY DEF TrialTypes

\* A run that is as it was stays right while the trials do.
LEMMA RunStaysOK ==
  ASSUME NEW k \in Processes, RunOK(k), job'[k] = job[k], left' = left,
         \A p \in Properties : /\ left[p] \in Int
                               /\ status[p] # "none" => status'[p] # "none"
                               /\ left[p] < 2 /\ status'[p] = "trial" => status[p] = "trial",
         job[k] \in JobType
  PROVE  RunOK(k)'
BY DEF RunOK, Running, JobType

-----------------------------------------------------------------------------
(* The steps *)

\* A property is saved.
LEMMA SavePropertyStep ==
  ASSUME TrialsInv, NEW p \in Properties, SaveProperty(p)
  PROVE  TrialsInv'
<1> USE DEF TrialsInv
<1>1. NotificationInv'
  BY NothingHappens DEF SaveProperty
<1>2. /\ UNCHANGED <<accounts, staff, left, job, missed, published, unheard>>
      /\ provisioning' = provisioning \cup {p}
      /\ status' = [status EXCEPT ![p] = "trial"] /\ status[p] = "none" /\ left[p] = TrialDays
  BY DEF SaveProperty, StatusOK, vars, busVars
<1>3. /\ status'[p] = "trial"
      /\ status' \in [Properties -> {"none", "trial", "active", "suspended"}]
      /\ \A q \in Properties : q # p => status'[q] = status[q]
  BY <1>2 DEF TrialTypes
<1>4. TrialTypes'
  BY <1>2, <1>3 DEF TrialTypes
<1>5. JobOK'
  <2>1. SUFFICES ASSUME NEW j \in Processes
                 PROVE  RunOK(j)'
    BY DEF JobOK
  <2>2. RunOK(j) /\ job[j] \in JobType /\ UNCHANGED <<job, left>> /\ ~(left[p] < 2)
    BY <1>2, DaysAssumption DEF JobOK, TrialTypes
  <2>3. \A q \in Properties : /\ left[q] \in Int
                              /\ status[q] # "none" => status'[q] # "none"
                              /\ left[q] < 2 /\ status'[q] = "trial" => status[q] = "trial"
    BY <1>2, <1>3, <2>2 DEF TrialTypes
  <2> QED BY <2>2, <2>3, RunStaysOK
<1>6. StatusOK'
  BY <1>2, <1>3 DEF StatusOK
<1>7. WarnedOnce'
  <2>1. \A j \in Processes : <<p, -1, j>> \notin published
    BY <1>2 DEF WarnedOnce
  <2> QED BY <1>2, <1>3, <2>1 DEF WarnedOnce
<1>8. WasTold'
  <2>1. \A d \in {0, 1} : ~(left[p] < d) /\ left[p] # d
    BY <1>2, DaysAssumption
  <2>2. \A q \in Properties : q # p => (Owed(q)' <=> Owed(q))
    BY <1>2, <1>3 DEF Owed
  <2>3. \A q \in Properties, d \in {0, 1} : Told(q, d)' <=> Told(q, d)
    BY <1>2 DEF Told
  <2>4. ASSUME ~missed
        PROVE  (\A j \in Processes : job[j].pc = "idle") => \A q \in Properties : left[q] = TrialDays
    BY <2>4 DEF WasTold
  <2>5. ASSUME ~missed, NEW q \in Properties, Owed(q)', NEW d \in {0, 1}, left[q] < d
        PROVE  Told(q, d)'
    BY <2>1, <2>2, <2>3, <2>5 DEF WasTold
  <2>6. ASSUME ~missed, NEW q \in Properties, status'[q] = "trial", NEW d \in {0, 1}, left[q] = d,
               NEW j \in Processes
        PROVE  /\ job[j].pc = "done" => Told(q, d)'
               /\ job[j].pc = "publish" => q \in job[j].warn \/ Told(q, d)'
    BY <1>3, <2>1, <2>3, <2>6 DEF WasTold
  <2> QED BY <1>2, <2>4, <2>5, <2>6 DEF WasTold
<1> QED BY <1>1, <1>4, <1>5, <1>6, <1>7, <1>8

\* Its admin is created, or not.
LEMMA CreateAuth0UserStep ==
  ASSUME TrialsInv, NEW p \in Properties, CreateAuth0User(p)
  PROVE  TrialsInv'
<1> USE DEF TrialsInv
<1>1. NotificationInv'
  BY NothingHappens DEF CreateAuth0User
<1>2. TrialTypes'
  BY DEF CreateAuth0User, TrialTypes, Roles
<1>3. JobOK'
  BY DEF CreateAuth0User, TrialTypes, JobOK, RunOK, Running
<1>4. StatusOK'
  BY DEF CreateAuth0User, TrialTypes, Roles, StatusOK
<1>5. WarnedOnce'
  BY DEF CreateAuth0User, TrialTypes, WarnedOnce, vars, busVars
<1>6. WasTold'
  BY DEF CreateAuth0User, TrialTypes, WasTold, Owed, Told, vars, busVars
<1> QED BY <1>1, <1>2, <1>3, <1>4, <1>5, <1>6

\* An account logs in for the first time.
LEMMA UpsertStaffStep ==
  ASSUME TrialsInv, NEW p \in Properties, NEW role \in Roles, UpsertStaff(p, role)
  PROVE  TrialsInv'
<1> USE DEF TrialsInv
<1>1. NotificationInv'
  BY NothingHappens DEF UpsertStaff
<1>2. TrialTypes'
  BY DEF UpsertStaff, TrialTypes, Roles
<1>3. JobOK'
  BY DEF UpsertStaff, TrialTypes, JobOK, RunOK, Running
<1>4. StatusOK'
  BY DEF UpsertStaff, TrialTypes, Roles, StatusOK
<1>5. WarnedOnce'
  BY DEF UpsertStaff, TrialTypes, WarnedOnce, vars, busVars
<1>6. WasTold'
  BY DEF UpsertStaff, TrialTypes, WasTold, Owed, Told, vars, busVars
<1> QED BY <1>1, <1>2, <1>3, <1>4, <1>5, <1>6

\* An admin invites staff.
LEMMA InviteStaffStep ==
  ASSUME TrialsInv, NEW p \in Properties, InviteStaff(p)
  PROVE  TrialsInv'
<1> USE DEF TrialsInv
<1>1. NotificationInv'
  BY NothingHappens DEF InviteStaff
<1>2. TrialTypes'
  BY DEF InviteStaff, TrialTypes, Roles
<1>3. JobOK'
  BY DEF InviteStaff, TrialTypes, JobOK, RunOK, Running
<1>4. StatusOK'
  BY DEF InviteStaff, TrialTypes, Roles, StatusOK
<1>5. WarnedOnce'
  BY DEF InviteStaff, TrialTypes, WarnedOnce, vars, busVars
<1>6. WasTold'
  BY DEF InviteStaff, TrialTypes, WasTold, Owed, Told, vars, busVars
<1> QED BY <1>1, <1>2, <1>3, <1>4, <1>5, <1>6

\* Somebody pays.
LEMMA ActivateStep ==
  ASSUME TrialsInv, NEW p \in Properties, Activate(p)
  PROVE  TrialsInv'
<1> USE DEF TrialsInv
<1>1. NotificationInv'
  BY NothingHappens DEF Activate
<1>2. TrialTypes'
  BY DEF Activate, TrialTypes, Roles
<1>3. JobOK'
  BY DEF Activate, TrialTypes, JobOK, RunOK, Running
<1>4. StatusOK'
  BY DEF Activate, TrialTypes, Roles, StatusOK
<1>5. WarnedOnce'
  BY DEF Activate, TrialTypes, WarnedOnce, vars, busVars
<1>6. WasTold'
  BY DEF Activate, TrialTypes, WasTold, Owed, Told, vars, busVars
<1> QED BY <1>1, <1>2, <1>3, <1>4, <1>5, <1>6

\* The night's runs start.
LEMMA MidnightStep ==
  ASSUME TrialsInv, Midnight
  PROVE  TrialsInv'
<1> USE DEF TrialsInv
<1>1. NotificationInv'
  BY NothingHappens DEF Midnight
<1>2. /\ \A j \in Processes : job[j].pc \in {"idle", "done"}
      /\ UNCHANGED <<status, provisioning, accounts, staff, published, unheard, missed>>
      /\ \A p \in Properties :
           left'[p] = IF status[p] = "none" \/ left[p] = -1 THEN left[p] ELSE left[p] - 1
      /\ left' \in [Properties -> -1..TrialDays]
      /\ \A p \in Properties : left[p] \in -1..TrialDays
    BY DaysAssumption
       DEF Midnight, NightIsOver, Running, DayPasses, TrialTypes, identity, vars, busVars
<1>3. PICK up \in (SUBSET Processes) \ {{}} :
        job' = [j \in Processes |-> IF j \in up THEN [NoJob EXCEPT !.pc = "read"] ELSE NoJob]
  BY DEF Midnight
<1>4. /\ \A j \in Processes : /\ job'[j] \in {[NoJob EXCEPT !.pc = "read"], NoJob}
                              /\ job'[j].pc \in {"idle", "read"} /\ job'[j].warn = {}
                              /\ job'[j].expired = {} /\ job'[j].expiring = {}
                              /\ job'[j].todo = {"expired", "expiring"}
      /\ \E j \in Processes : job'[j].pc = "read"
  BY <1>3 DEF NoJob
<1>5. TrialTypes'
  <2>1. job' \in [Processes -> JobType]
    BY <1>3 DEF NoJob, JobType, Jobs
  <2> QED BY <1>2, <2>1 DEF TrialTypes
<1>6. JobOK'
  <2>1. SUFFICES ASSUME NEW j \in Processes
                 PROVE  RunOK(j)'
    BY DEF JobOK
  <2>2. CASE job'[j] = NoJob
    BY <2>2 DEF RunOK, Running, NoJob
  <2>3. CASE job'[j] = [NoJob EXCEPT !.pc = "read"]
    BY <2>3 DEF RunOK, Running, NoJob
  <2> QED BY <1>4, <2>2, <2>3
<1>7. StatusOK'
  BY <1>2, DaysAssumption DEF StatusOK
<1>8. WarnedOnce'
  <2>1. ASSUME NEW p \in Properties, NEW j \in Processes, left'[p] >= 0
        PROVE  <<p, left'[p], j>> \notin published
    <3>1. CASE status[p] = "none"
      <4>1. left'[p] \notin {-1, 0, 1}
        BY <1>2, <3>1, DaysAssumption DEF StatusOK
      <4> QED BY <4>1, WarningAssumption DEF NotificationInv, NoticesTypeOK, BusTypeOK
    <3>2. CASE status[p] # "none"
      <4>1. left'[p] = left[p] - 1
        BY <1>2, <2>1, <3>2
      <4>2. left'[p] \in {-1, 0, 1} /\ <<p, left'[p], j>> \in published => left[p] <= left'[p]
        BY DEF WarnedOnce
      <4>3. <<p, left'[p], j>> \in published => left'[p] \in {-1, 0, 1}
        BY WarningAssumption DEF NotificationInv, NoticesTypeOK, BusTypeOK
      <4> QED BY <1>2, <4>1, <4>2, <4>3
    <3> QED BY <3>1, <3>2
  <2>2. ASSUME NEW p \in Properties, NEW j \in Processes,
               NEW d \in {-1, 0, 1}, <<p, d, j>> \in published
        PROVE  left'[p] <= d
    <3>1. left[p] <= d
      BY <2>2 DEF WarnedOnce
    <3> QED BY <1>2, <3>1
  <2>3. ASSUME NEW p \in Properties, NEW j \in Processes
        PROVE  /\ <<p, -1, j>> \in published => status[p] \in {"active", "suspended"}
               /\ job'[j].pc \in {"read", "suspend", "admins"}
                    /\ (left'[p] >= 0 \/ p \in job'[j].expiring) => <<p, left'[p], j>> \notin published
               /\ p \notin job'[j].warn
    BY <1>4, <2>1 DEF WarnedOnce
  <2> QED BY <1>2, <2>2, <2>3 DEF WarnedOnce
<1>9. WasTold'
  <2>1. \A p \in Properties : Owed(p)' => status[p] \in {"trial", "suspended"}
    BY <1>2, <1>4 DEF Owed
  <2>2. ASSUME ~missed, NEW p \in Properties, status[p] \in {"trial", "suspended"},
               NEW d \in {0, 1}, left'[p] < d
        PROVE  Told(p, d)
    <3>1. CASE left[p] < d
      BY <2>2, <3>1 DEF WasTold, Owed
    <3>2. CASE left[p] = d
      <4>1. status[p] = "trial" /\ left[p] # TrialDays
        BY <2>2, <3>2, DaysAssumption DEF StatusOK
      <4>2. PICK j \in Processes : job[j].pc = "done"
        BY <1>2, <2>2, <4>1 DEF WasTold
      <4> QED BY <2>2, <3>2, <4>1, <4>2 DEF WasTold
    <3> QED BY <1>2, <2>2, <3>1, <3>2
  <2>3. \A p \in Properties, d \in {0, 1} : Told(p, d)' <=> Told(p, d)
    BY <1>2 DEF Told
  <2> QED BY <1>2, <1>4, <2>1, <2>2, <2>3 DEF WasTold
<1> QED BY <1>1, <1>5, <1>6, <1>7, <1>8, <1>9

\* A night passes without a run.
LEMMA MissedMidnightStep ==
  ASSUME TrialsInv, MissedMidnight
  PROVE  TrialsInv'
<1> USE DEF TrialsInv
<1>1. NotificationInv'
  BY CrashElsewhere DEF MissedMidnight
<1>2. /\ UNCHANGED <<status, provisioning, accounts, staff, published, unheard>> /\ missed'
      /\ \A p \in Properties :
           left'[p] = IF status[p] = "none" \/ left[p] = -1 THEN left[p] ELSE left[p] - 1
      /\ left' \in [Properties -> -1..TrialDays]
      /\ \A p \in Properties : left[p] \in -1..TrialDays
      /\ job' = [j \in Processes |-> NoJob]
    BY DaysAssumption DEF MissedMidnight, DayPasses, TrialTypes, identity
<1>3. TrialTypes'
  BY <1>2, NoJobHasType DEF TrialTypes
<1>4. JobOK'
  BY <1>2 DEF JobOK, RunOK, Running, NoJob
<1>5. StatusOK'
  BY <1>2, DaysAssumption DEF StatusOK
<1>6. WarnedOnce'
  <2>1. ASSUME NEW p \in Properties, NEW j \in Processes,
               NEW d \in {-1, 0, 1}, <<p, d, j>> \in published
        PROVE  left'[p] <= d
    <3>1. left[p] <= d
      BY <2>1 DEF WarnedOnce
    <3> QED BY <1>2, <3>1
  <2>2. \A j \in Processes : job'[j].pc = "idle" /\ job'[j].warn = {}
    BY <1>2 DEF NoJob
  <2> QED BY <1>2, <2>1, <2>2 DEF WarnedOnce
<1>7. WasTold'
  BY <1>2 DEF WasTold
<1> QED BY <1>1, <1>3, <1>4, <1>5, <1>6, <1>7

\* The trials that are over are read.
LEMMA ReadExpiredStep ==
  ASSUME TrialsInv, NEW j \in Processes, ReadExpired(j)
  PROVE  TrialsInv'
<1> USE DEF TrialsInv
<1>1. NotificationInv'
  BY NothingHappens DEF ReadExpired, AfterRead
<1>2. PICK r : r = [job[j] EXCEPT !.expired = Expiring(0), !.todo = @ \ {"expired"},
                      !.pc = IF job[j].todo = {"expired"} THEN "suspend" ELSE "read"]
  OBVIOUS
<1>3. /\ job[j].pc = "read" /\ "expired" \in job[j].todo /\ job[j] \in JobType
      /\ UNCHANGED <<status, provisioning, accounts, staff, left, published, unheard, missed>>
  BY DEF ReadExpired, Reads, AfterRead, identity, TrialTypes, vars, busVars
<1>4. job' = [job EXCEPT ![j] = r]
  BY <1>2, <1>3 DEF ReadExpired, AfterRead, JobType
<1>5. /\ r \in JobType /\ r.pc = IF job[j].todo = {"expired"} THEN "suspend" ELSE "read"
      /\ r.expired = Expiring(0) /\ r.expiring = job[j].expiring
      /\ r.todo = job[j].todo \ {"expired"} /\ r.warn = job[j].warn
  BY <1>2, <1>3 DEF JobType, Jobs, Expiring
<1>6. /\ job' \in [Processes -> JobType] /\ job'[j] = r
      /\ \A k \in Processes : k # j => job'[k] = job[k]
  BY <1>4, <1>5, OneRunMoves
<1>7. \A p \in Properties : p \in Expiring(0) <=> status[p] = "trial" /\ left[p] = -1
  BY DaysAssumption DEF Expiring, TrialTypes
<1>8. TrialTypes'
  BY <1>3, <1>6 DEF TrialTypes
<1>9. JobOK'
  <2>1. RunOK(j)'
    BY <1>3, <1>5, <1>6, <1>7 DEF JobOK, RunOK, Running, JobType
  <2>2. ASSUME NEW k \in Processes, k # j
        PROVE  RunOK(k)'
    BY <1>3, <1>6, <2>2, RunStaysOK DEF JobOK, TrialTypes
  <2> QED BY <2>1, <2>2 DEF JobOK
<1>10. StatusOK'
  BY <1>3 DEF StatusOK
<1>11. WarnedOnce'
  BY <1>3, <1>5, <1>6 DEF WarnedOnce
<1>12. WasTold'
  <2>1. \A p \in Properties : Owed(p)' => Owed(p)
    BY <1>3, <1>5, <1>6, <1>7 DEF Owed
  <2>2. \A p \in Properties : \A d : Told(p, d)' <=> Told(p, d)
    BY <1>3 DEF Told
  <2> QED BY <1>3, <1>5, <1>6, <2>1, <2>2 DEF WasTold
<1> QED BY <1>1, <1>8, <1>9, <1>10, <1>11, <1>12

\* Those that are about to be over are read.
LEMMA ReadExpiringStep ==
  ASSUME TrialsInv, NEW j \in Processes, ReadExpiring(j)
  PROVE  TrialsInv'
<1> USE DEF TrialsInv
<1>1. NotificationInv'
  BY NothingHappens DEF ReadExpiring, AfterRead
<1>2. PICK r : r = [job[j] EXCEPT !.expiring = Expiring(2), !.todo = @ \ {"expiring"},
                      !.pc = IF job[j].todo = {"expiring"} THEN "suspend" ELSE "read"]
  OBVIOUS
<1>3. /\ job[j].pc = "read" /\ "expiring" \in job[j].todo /\ job[j] \in JobType
      /\ UNCHANGED <<status, provisioning, accounts, staff, left, published, unheard, missed>>
  BY DEF ReadExpiring, Reads, AfterRead, identity, TrialTypes, vars, busVars
<1>4. job' = [job EXCEPT ![j] = r]
  BY <1>2, <1>3 DEF ReadExpiring, AfterRead, JobType
<1>5. /\ r \in JobType /\ r.pc = IF job[j].todo = {"expiring"} THEN "suspend" ELSE "read"
      /\ r.expired = job[j].expired /\ r.expiring = Expiring(2)
      /\ r.todo = job[j].todo \ {"expiring"} /\ r.warn = job[j].warn
  BY <1>2, <1>3 DEF JobType, Jobs, Expiring
<1>6. /\ job' \in [Processes -> JobType] /\ job'[j] = r
      /\ \A k \in Processes : k # j => job'[k] = job[k]
  BY <1>4, <1>5, OneRunMoves
<1>7. /\ \A p \in Expiring(2) : p \in Properties /\ status[p] = "trial" /\ left[p] < 2
      /\ \A p \in Properties : left[p] < 2 /\ status[p] = "trial" => p \in Expiring(2)
      /\ \A p \in Properties : left[p] \in -1..TrialDays
  BY DEF Expiring, TrialTypes
<1>8. TrialTypes'
  BY <1>3, <1>6 DEF TrialTypes
<1>9. JobOK'
  <2>1. RunOK(j)'
    BY <1>3, <1>5, <1>6, <1>7 DEF JobOK, RunOK, Running, JobType
  <2>2. ASSUME NEW k \in Processes, k # j
        PROVE  RunOK(k)'
    BY <1>3, <1>6, <2>2, RunStaysOK DEF JobOK, TrialTypes
  <2> QED BY <2>1, <2>2 DEF JobOK
<1>10. StatusOK'
  BY <1>3 DEF StatusOK
<1>11. WarnedOnce'
  <2>1. ASSUME NEW p \in Properties, left[p] >= 0 \/ p \in Expiring(2)
        PROVE  <<p, left[p], j>> \notin published
    <3>1. CASE left[p] >= 0
      BY <1>3, <3>1 DEF WarnedOnce
    <3>2. CASE left[p] = -1
      <4>1. p \in Expiring(2)
        BY <2>1, <3>2
      <4>2. status[p] = "trial"
        BY <1>7, <4>1
      <4>3. <<p, -1, j>> \in published => status[p] \in {"active", "suspended"}
        BY DEF WarnedOnce
      <4> QED BY <3>2, <4>2, <4>3
    <3> QED BY <1>7, <2>1, <3>1, <3>2, DaysAssumption
  <2>2. job[j].warn = {}
    BY <1>3 DEF JobOK, RunOK
  <2>3. ASSUME NEW p \in Properties, NEW k \in Processes
        PROVE  /\ job'[k].pc \in {"read", "suspend", "admins"}
                    /\ (left[p] >= 0 \/ p \in job'[k].expiring) => <<p, left[p], k>> \notin published
               /\ p \in job'[k].warn => <<p, left[p], k>> \notin published
    <3>1. CASE k = j
      BY <1>5, <1>6, <2>1, <2>2, <3>1
    <3>2. CASE k # j
      BY <1>6, <3>2 DEF WarnedOnce
    <3> QED BY <3>1, <3>2
  <2> QED BY <1>3, <2>3 DEF WarnedOnce
<1>12. WasTold'
  <2>1. \A p \in Properties : Owed(p)' => Owed(p)
    BY <1>3, <1>5, <1>6 DEF Owed
  <2>2. \A p \in Properties : \A d : Told(p, d)' <=> Told(p, d)
    BY <1>3 DEF Told
  <2> QED BY <1>3, <1>5, <1>6, <2>1, <2>2 DEF WasTold
<1> QED BY <1>1, <1>8, <1>9, <1>10, <1>11, <1>12

\* The trials that are over are suspended.
LEMMA SuspendPropertiesStep ==
  ASSUME TrialsInv, NEW j \in Processes, SuspendProperties(j)
  PROVE  TrialsInv'
<1> USE DEF TrialsInv
<1>1. NotificationInv'
  BY NothingHappens DEF SuspendProperties
<1>2. PICK r : r = [job[j] EXCEPT !.pc = "admins"]
  OBVIOUS
<1>3. /\ job[j].pc = "suspend" /\ job[j] \in JobType /\ job' = [job EXCEPT ![j] = r]
      /\ status' = [p \in Properties |-> IF p \in job[j].expired THEN "suspended" ELSE status[p]]
      /\ UNCHANGED <<provisioning, accounts, staff, left, published, unheard, missed>>
  BY <1>2 DEF SuspendProperties, TrialTypes, vars, busVars
<1>4. /\ r \in JobType /\ r.pc = "admins" /\ r.expired = job[j].expired
      /\ r.expiring = job[j].expiring /\ r.todo = job[j].todo /\ r.warn = job[j].warn
  BY <1>2, <1>3 DEF JobType, Jobs
<1>5. /\ job' \in [Processes -> JobType] /\ job'[j] = r
      /\ \A k \in Processes : k # j => job'[k] = job[k]
  BY <1>3, <1>4, OneRunMoves
<1>6. /\ \A p \in job[j].expired : p \in Properties /\ left[p] = -1 /\ status[p] # "none"
                                   /\ status'[p] = "suspended"
      /\ \A p \in Properties : status'[p] = status[p] \/ p \in job[j].expired
  BY <1>3 DEF JobOK, RunOK, JobType
<1>7. TrialTypes'
  BY <1>3, <1>5 DEF TrialTypes
<1>8. JobOK'
  <2>1. RunOK(j)'
    BY <1>3, <1>4, <1>5, <1>6 DEF JobOK, RunOK, Running, JobType
  <2>2. ASSUME NEW k \in Processes, k # j
        PROVE  RunOK(k)'
    BY <1>3, <1>5, <1>6, <2>2, RunStaysOK DEF JobOK, TrialTypes
  <2> QED BY <2>1, <2>2 DEF JobOK
<1>9. StatusOK'
  BY <1>3, <1>6 DEF StatusOK, TrialTypes
<1>10. WarnedOnce'
  <2>1. ASSUME NEW k \in Processes
        PROVE  /\ job'[k].pc \in {"read", "suspend", "admins"} =>
                    job[k].pc \in {"read", "suspend", "admins"}
               /\ job'[k].expiring = job[k].expiring /\ job'[k].warn = job[k].warn
    <3>1. CASE k = j
      BY <3>1, <1>3, <1>4, <1>5
    <3>2. CASE k # j
      BY <3>2, <1>5
    <3> QED BY <3>1, <3>2
  <2>2. \A p \in Properties : status[p] \in {"active", "suspended"} =>
                               status'[p] \in {"active", "suspended"}
    BY <1>6
  <2> QED BY <1>3, <2>1, <2>2 DEF WarnedOnce
<1>11. WasTold'
  <2>1. \A p \in Properties : Owed(p)' => Owed(p)
    BY <1>4, <1>5, <1>6 DEF Owed
  <2>2. \A p \in Properties : \A d : Told(p, d)' <=> Told(p, d)
    BY <1>3 DEF Told
  <2>3. \A p \in Properties : status'[p] = "trial" => status[p] = "trial"
    BY <1>6
  <2> QED BY <1>3, <1>4, <1>5, <2>1, <2>2, <2>3 DEF WasTold
<1> QED BY <1>1, <1>7, <1>8, <1>9, <1>10, <1>11

\* The admins of the others are looked up.
LEMMA FindAdminsStep ==
  ASSUME TrialsInv, NEW j \in Processes, FindAdmins(j)
  PROVE  TrialsInv'
<1> USE DEF TrialsInv
<1>1. NotificationInv'
  BY NothingHappens DEF FindAdmins
<1>2. PICK warn : warn = job[j].expiring \ job[j].expired
  OBVIOUS
<1>3. PICK known : known = {p \in warn : "property_admin" \in staff[p]}
  OBVIOUS
<1>4. PICK r : r = IF known = {} THEN Ended
                   ELSE [job[j] EXCEPT !.pc = "publish", !.warn = known]
  OBVIOUS
<1>5. /\ job[j].pc = "admins" /\ job[j].warn = {} /\ job[j].todo = {} /\ job[j] \in JobType
      /\ UNCHANGED <<status, provisioning, accounts, staff, left, missed, published>>
      /\ unheard' = unheard \cup {<<p, left[p], j>> : p \in warn \ known}
      /\ job' = [job EXCEPT ![j] = r]
  <2>1. job[j].pc = "admins" /\ job[j].warn = {} /\ job[j].todo = {} /\ job[j] \in JobType
    BY DEF FindAdmins, JobOK, RunOK, TrialTypes
  <2>2. UNCHANGED <<status, provisioning, accounts, staff, left, missed, published>>
    BY DEF FindAdmins, identity, vars, busVars
  <2>3. unheard' = unheard \cup {<<p, left[p], j>> : p \in warn \ known}
    BY <1>2, <1>3 DEF FindAdmins
  <2>4. job' = [job EXCEPT ![j] = r]
    BY <1>2, <1>3, <1>4 DEF FindAdmins, TrialTypes
  <2> QED BY <2>1, <2>2, <2>3, <2>4
<1>6. /\ \A p \in Properties : left[p] \in -1..TrialDays
      /\ \A p \in warn : p \in Properties /\ left[p] \in {-1, 0, 1}
      /\ known \subseteq warn /\ warn \cap job[j].expired = {} /\ warn \subseteq job[j].expiring
  <2>1. \A p \in warn : p \in Properties /\ left[p] < 2
    BY <1>2, <1>5 DEF JobType, JobOK, RunOK
  <2>2. \A p \in Properties : left[p] \in -1..TrialDays
    BY DEF TrialTypes
  <2> QED BY <1>2, <1>3, <2>1, <2>2, DaysAssumption
<1>7. \/ r = Ended /\ known = {} /\ r.pc = "done" /\ r.warn = {} /\ r.expired = {}
      \/ /\ r.pc = "publish" /\ r.todo = {} /\ r.warn = known
         /\ r.expired = job[j].expired /\ r.expiring = job[j].expiring
  BY <1>4, <1>5 DEF JobType, Ended, NoJob
<1>8. r \in JobType
  <2>1. known \subseteq Properties
    BY <1>6
  <2> QED BY <1>4, <1>5, <2>1, NoJobHasType DEF JobType, Jobs
<1>9. /\ job' \in [Processes -> JobType] /\ job'[j] = r
      /\ \A k \in Processes : k # j => job'[k] = job[k]
  BY <1>5, <1>8, OneRunMoves
<1>10. TrialTypes'
  <2>1. unheard' \subseteq Events
    <3>1. \A p \in warn : <<p, left[p], j>> \in Events
      BY <1>6, WarningsAreEvents
    <3> QED BY <1>5, <3>1 DEF TrialTypes
  <2> QED BY <1>5, <1>9, <2>1 DEF TrialTypes
<1>11. JobOK'
  <2>1. RunOK(j)'
    <3>1. CASE r = Ended
      BY <1>9, <3>1 DEF RunOK, Running, Ended, NoJob
    <3>2. CASE r.pc = "publish"
      BY <1>5, <1>6, <1>7, <1>9, <3>2 DEF JobOK, RunOK, Running
    <3> QED BY <1>7, <3>1, <3>2
  <2>2. ASSUME NEW k \in Processes, k # j
        PROVE  RunOK(k)'
    BY <1>5, <1>9, <2>2, RunStaysOK DEF JobOK, TrialTypes
  <2> QED BY <2>1, <2>2 DEF JobOK
<1>12. StatusOK'
  BY <1>5 DEF StatusOK
<1>13. WarnedOnce'
  <2>1. \A p \in known : <<p, left[p], j>> \notin published
    BY <1>5, <1>6 DEF WarnedOnce
  <2> QED BY <1>5, <1>7, <1>9, <2>1 DEF WarnedOnce
<1>14. WasTold'
  <2>1. \A p \in Properties : Owed(p)' => Owed(p)
    BY <1>5, <1>7, <1>9 DEF Owed
  <2>2. \A p \in Properties : \A d : Told(p, d) => Told(p, d)'
    BY <1>5 DEF Told
  <2>3. ASSUME NEW p \in Properties, status[p] = "trial", NEW d \in {0, 1}, left[p] = d
        PROVE  p \in known \/ Told(p, d)'
    <3>1. p \in job[j].expiring /\ p \notin job[j].expired
      BY <1>5, <2>3 DEF JobOK, RunOK, Running
    <3>2. p \in warn
      BY <1>2, <3>1
    <3> QED BY <1>5, <2>3, <3>2 DEF Told
  <2>4. job'[j].pc # "idle"
    BY <1>7, <1>9
  <2>5. ASSUME ~missed, NEW p \in Properties, status[p] = "trial", NEW d \in {0, 1}, left[p] = d,
               NEW k \in Processes
        PROVE  /\ job'[k].pc = "done" => Told(p, d)'
               /\ job'[k].pc = "publish" => p \in job'[k].warn \/ Told(p, d)'
    <3>1. CASE k = j
      BY <1>7, <1>9, <2>3, <2>5, <3>1
    <3>2. CASE k # j
      BY <1>9, <2>2, <2>5, <3>2 DEF WasTold
    <3> QED BY <3>1, <3>2
  <2> QED BY <1>5, <2>1, <2>2, <2>4, <2>5 DEF WasTold
<1> QED BY <1>1, <1>10, <1>11, <1>12, <1>13, <1>14

\* A run is lost.
LEMMA JobLostStep ==
  ASSUME TrialsInv, NEW j \in Processes, JobLost(j)
  PROVE  TrialsInv'
<1> USE DEF TrialsInv
<1>1. NotificationInv'
  BY CrashElsewhere DEF JobLost
<1>2. /\ job' = [job EXCEPT ![j] = NoJob]
      /\ missed' = (missed \/ \A k \in Processes \ {j} : job[k].pc = "idle")
      /\ UNCHANGED <<status, provisioning, accounts, staff, left, published, unheard>>
  BY DEF JobLost, identity
<1>3. /\ job' \in [Processes -> JobType] /\ job'[j] = NoJob
      /\ \A k \in Processes : k # j => job'[k] = job[k]
  BY <1>2, NoJobHasType, OneRunMoves
<1>4. NoJob.pc = "idle" /\ NoJob.warn = {} /\ NoJob.expired = {} /\ NoJob.expiring = {}
  BY DEF NoJob
<1>5. TrialTypes'
  BY <1>2, <1>3 DEF TrialTypes
<1>6. JobOK'
  <2>1. RunOK(j)'
    BY <1>3, <1>4 DEF RunOK, Running
  <2>2. ASSUME NEW k \in Processes, k # j
        PROVE  RunOK(k)'
    BY <1>2, <1>3, <2>2, RunStaysOK DEF JobOK, TrialTypes
  <2> QED BY <2>1, <2>2 DEF JobOK
<1>7. StatusOK'
  BY <1>2 DEF StatusOK
<1>8. WarnedOnce'
  BY <1>2, <1>3, <1>4 DEF WarnedOnce
<1>9. WasTold'
  <2>1. \A p \in Properties : Owed(p)' => Owed(p)
    BY <1>2, <1>3, <1>4 DEF Owed
  <2>2. \A p \in Properties : \A d : Told(p, d)' <=> Told(p, d)
    BY <1>2 DEF Told
  <2>3. ~missed' => \E k \in Processes : job'[k].pc # "idle"
    BY <1>2, <1>3
  <2> QED BY <1>2, <1>3, <1>4, <2>1, <2>2, <2>3 DEF WasTold
<1> QED BY <1>1, <1>5, <1>6, <1>7, <1>8, <1>9

\* A warning is published.
LEMMA PublishWarningStep ==
  ASSUME TrialsInv, NEW j \in Processes, NEW p \in Properties, PublishWarning(j, p)
  PROVE  TrialsInv'
<1> USE DEF TrialsInv
<1>1. PICK d : d = left[p]
  OBVIOUS
<1>2. PICK r : r = IF job[j].warn \ {p} = {} THEN Ended
                   ELSE [job[j] EXCEPT !.warn = job[j].warn \ {p}]
  OBVIOUS
<1>3. /\ job[j].pc = "publish" /\ p \in job[j].warn /\ job[j] \in JobType
      /\ Publish(<<p, d, j>>) /\ UNCHANGED noteVars
      /\ published' = published \cup {<<p, d, j>>}
      /\ job' = [job EXCEPT ![j] = r]
      /\ UNCHANGED <<status, provisioning, accounts, staff, left, missed, unheard>>
  <2>1. job[j].pc = "publish" /\ p \in job[j].warn /\ job[j] \in JobType
    BY DEF PublishWarning, TrialTypes
  <2>2. Publish(<<p, d, j>>) /\ UNCHANGED noteVars
    BY <1>1 DEF PublishWarning
  <2>3. job' = [job EXCEPT ![j] = r]
    BY <1>2 DEF PublishWarning, TrialTypes
  <2>4. UNCHANGED <<status, provisioning, accounts, staff, left, missed, unheard>>
    BY DEF PublishWarning, identity
  <2> QED BY <2>1, <2>2, <2>3, <2>4 DEF Publish
<1>4. /\ d \in {-1, 0, 1} /\ <<p, d, j>> \notin published
      /\ p \in job[j].expiring \ job[j].expired /\ job[j].todo = {}
  <2>1. p \in job[j].expiring \ job[j].expired /\ job[j].todo = {}
    BY <1>3 DEF JobOK, RunOK
  <2>2. left[p] \in -1..TrialDays /\ left[p] < 2
    BY <2>1 DEF TrialTypes, JobOK, RunOK
  <2>3. d \in {-1, 0, 1}
    BY <1>1, <2>2, DaysAssumption
  <2>4. <<p, left[p], j>> \notin published
    BY <1>3 DEF WarnedOnce
  <2> QED BY <1>1, <2>1, <2>3, <2>4
<1>5. NotificationInv'
  BY <1>3, <1>4, WarningsAreEvents, PublishStep
<1>6. \/ r = Ended /\ job[j].warn \subseteq {p} /\ r.pc = "done" /\ r.warn = {} /\ r.expired = {}
      \/ /\ r.pc = "publish" /\ r.todo = {} /\ r.warn = job[j].warn \ {p}
         /\ r.expired = job[j].expired /\ r.expiring = job[j].expiring
  BY <1>2, <1>3, <1>4 DEF JobType, Ended, NoJob
<1>7. r \in JobType
  BY <1>2, <1>3, NoJobHasType DEF JobType
<1>8. /\ job' \in [Processes -> JobType] /\ job'[j] = r
      /\ \A k \in Processes : k # j => job'[k] = job[k]
  BY <1>3, <1>7, OneRunMoves
<1>9. TrialTypes'
  BY <1>3, <1>8 DEF TrialTypes
<1>10. JobOK'
  <2>1. RunOK(j)'
    <3>1. CASE r = Ended
      BY <1>8, <3>1 DEF RunOK, Running, Ended, NoJob
    <3>2. CASE r.pc = "publish"
      BY <1>3, <1>6, <1>8, <3>2 DEF JobOK, RunOK, Running
    <3> QED BY <1>6, <3>1, <3>2
  <2>2. ASSUME NEW k \in Processes, k # j
        PROVE  RunOK(k)'
    BY <1>3, <1>8, <2>2, RunStaysOK DEF JobOK, TrialTypes
  <2> QED BY <2>1, <2>2 DEF JobOK
<1>11. StatusOK'
  BY <1>3 DEF StatusOK
<1>12. WarnedOnce'
  <2>1. ASSUME NEW q \in Properties, NEW k \in Processes, NEW c, <<q, c, k>> \in published'
        PROVE  <<q, c, k>> \in published \/ (q = p /\ k = j /\ c = d)
    BY <1>3, <2>1
  <2>2. d = -1 => status[p] \in {"active", "suspended"}
    <3>1. status[p] # "none" /\ (d = -1 => status[p] # "trial")
      BY <1>1, <1>3, <1>4 DEF JobOK, RunOK, Running
    <3> QED BY <3>1 DEF TrialTypes
  <2>3. \A q \in Properties, k \in Processes :
          /\ \A c \in {-1, 0, 1} : <<q, c, k>> \in published' => left[q] <= c
          /\ <<q, -1, k>> \in published' => status[q] \in {"active", "suspended"}
    <3>1. SUFFICES ASSUME NEW q \in Properties, NEW k \in Processes
                   PROVE  /\ \A c \in {-1, 0, 1} : <<q, c, k>> \in published' => left[q] <= c
                          /\ <<q, -1, k>> \in published' => status[q] \in {"active", "suspended"}
      OBVIOUS
    <3>2. ASSUME NEW c \in {-1, 0, 1}, <<q, c, k>> \in published'
          PROVE  left[q] <= c
      <4>1. CASE <<q, c, k>> \in published
        BY <4>1 DEF WarnedOnce
      <4>2. CASE q = p /\ c = d
        BY <1>1, <1>4, <4>2
      <4> QED BY <2>1, <3>2, <4>1, <4>2
    <3>3. ASSUME <<q, -1, k>> \in published'
          PROVE  status[q] \in {"active", "suspended"}
      <4>1. CASE <<q, -1, k>> \in published
        BY <4>1 DEF WarnedOnce
      <4>2. CASE q = p /\ -1 = d
        BY <2>2, <4>2
      <4> QED BY <2>1, <3>3, <4>1, <4>2
    <3> QED BY <3>2, <3>3
  <2>4. ASSUME NEW q \in Properties, NEW k \in Processes,
               \/ job'[k].pc \in {"read", "suspend", "admins"}
                  /\ (left[q] >= 0 \/ q \in job'[k].expiring)
               \/ q \in job'[k].warn
        PROVE  <<q, left[q], k>> \notin published'
    <3>1. CASE k = j
      <4>1. q \in job[j].warn /\ q # p
        BY <1>6, <1>8, <2>4, <3>1
      <4>2. <<q, left[q], j>> \notin published
        BY <4>1 DEF WarnedOnce
      <4> QED BY <2>1, <3>1, <4>1, <4>2
    <3>2. CASE k # j
      <4>1. <<q, left[q], k>> \notin published
        BY <1>8, <2>4, <3>2 DEF WarnedOnce
      <4> QED BY <2>1, <3>2, <4>1
    <3> QED BY <3>1, <3>2
  <2> QED BY <1>3, <2>3, <2>4 DEF WarnedOnce
<1>13. WasTold'
  <2>1. \A q \in Properties : Owed(q)' => Owed(q)
    BY <1>3, <1>6, <1>8 DEF Owed
  <2>2. /\ \A q \in Properties : \A c : Told(q, c) => Told(q, c)'
        /\ Told(p, d)'
    BY <1>3 DEF Told
  <2>3. job'[j].pc # "idle"
    BY <1>6, <1>8
  <2>4. ASSUME ~missed, NEW q \in Properties, status[q] = "trial", NEW c \in {0, 1}, left[q] = c,
               NEW k \in Processes
        PROVE  /\ job'[k].pc = "done" => Told(q, c)'
               /\ job'[k].pc = "publish" => q \in job'[k].warn \/ Told(q, c)'
    <3>1. CASE k = j
      <4>1. q \in job[j].warn \/ Told(q, c)
        BY <1>3, <2>4 DEF WasTold
      <4>2. CASE q = p
        BY <1>1, <2>2, <2>4, <4>2
      <4>3. CASE q # p
        BY <1>6, <1>8, <2>2, <3>1, <4>1, <4>3
      <4> QED BY <4>2, <4>3
    <3>2. CASE k # j
      BY <1>8, <2>2, <2>4, <3>2 DEF WasTold
    <3> QED BY <3>1, <3>2
  <2> QED BY <1>3, <2>1, <2>2, <2>3, <2>4 DEF WasTold
<1> QED BY <1>5, <1>9, <1>10, <1>11, <1>12, <1>13

\* The bus and the notifications go on.
LEMMA TrialsBusStep ==
  ASSUME TrialsInv, (Job /\ UNCHANGED noteVars) \/ Consume, UNCHANGED trialVars
  PROVE  TrialsInv'
<1> USE DEF TrialsInv
<1>1. NotificationInv'
  BY JobConsumeStep
<1>2. UNCHANGED <<status, provisioning, accounts, staff, left, job, unheard, missed, published>>
  BY OnlyPublishPublishes DEF trialVars, identity
<1>3. TrialTypes' /\ JobOK' /\ StatusOK'
  BY <1>2 DEF TrialTypes, JobOK, RunOK, Running, StatusOK
<1>4. WarnedOnce' /\ WasTold'
  BY <1>2 DEF WarnedOnce, WasTold, Owed, Told
<1> QED BY <1>1, <1>3, <1>4

-----------------------------------------------------------------------------
(* Every step, and the theorems *)

\* The invariant holds before the first property.
LEMMA TrialsInvInit ==
  ASSUME TrialsInit
  PROVE  TrialsInv
<1>1. NotificationInv
  BY NotificationInvInit DEF TrialsInit
<1>2. published = {}
  BY DEF TrialsInit, Init, BusInit
<1>3. TrialTypes
  <2>1. left \in [Properties -> -1..TrialDays]
    BY DaysAssumption DEF TrialsInit
  <2> QED BY <2>1, NoJobHasType DEF TrialsInit, TrialTypes
<1>4. JobOK /\ StatusOK
  BY DaysAssumption DEF TrialsInit, JobOK, RunOK, Running, StatusOK, NoJob
<1>5. WarnedOnce /\ WasTold
  BY <1>2, DaysAssumption DEF TrialsInit, WarnedOnce, WasTold, Owed, Told, NoJob
<1> QED BY <1>1, <1>3, <1>4, <1>5 DEF TrialsInv

\* Every step keeps it.
LEMMA TrialsInvStep ==
  ASSUME TrialsInv, [AttachedNext]_allVars
  PROVE  TrialsInv'
<1>1. CASE Requests
  BY <1>1, SavePropertyStep, CreateAuth0UserStep, UpsertStaffStep, InviteStaffStep, ActivateStep
     DEF Requests
<1>2. CASE Midnight \/ MissedMidnight
  BY <1>2, MidnightStep, MissedMidnightStep
<1>3. CASE \E j \in Processes : TrialJob(j) \/ JobLost(j)
  BY <1>3, ReadExpiredStep, ReadExpiringStep, SuspendPropertiesStep, FindAdminsStep,
     PublishWarningStep, JobLostStep DEF TrialJob
<1>4. CASE ((Job /\ UNCHANGED noteVars) \/ Consume) /\ UNCHANGED trialVars
  BY <1>4, TrialsBusStep
<1>5. CASE UNCHANGED allVars
  <2>1. NotificationInv'
    BY <1>5, NothingHappens DEF allVars, TrialsInv
  <2>2. UNCHANGED <<status, provisioning, accounts, staff, left, job, unheard, missed, published>>
    BY <1>5 DEF allVars, trialVars, identity, vars, busVars
  <2>3. TrialTypes' /\ JobOK' /\ StatusOK'
    BY <2>2 DEF TrialsInv, TrialTypes, JobOK, RunOK, Running, StatusOK
  <2>4. WarnedOnce' /\ WasTold'
    BY <2>2 DEF TrialsInv, WarnedOnce, WasTold, Owed, Told
  <2> QED BY <2>1, <2>3, <2>4 DEF TrialsInv
<1> QED BY <1>1, <1>2, <1>3, <1>4, <1>5 DEF AttachedNext, TrialsNext

\* However many processes run the job, whatever nights are missed and whatever
\* of a night's runs is lost: a run has read every trial that is about to be
\* over, and the warnings of the nights behind a trial are out.  Also while the
\* outbox job and the consumers are at work.
THEOREM TrialsInvariant == AttachedSpec => []TrialsInv
<1>1. TrialsInit => TrialsInv
  BY TrialsInvInit
<1>2. TrialsInv /\ [AttachedNext]_allVars => TrialsInv'
  BY TrialsInvStep
<1> QED BY <1>1, <1>2, PTL DEF AttachedSpec

\* As wired, the bus only takes what is published.
LEMMA WiredIsAttached == TrialsSpec => AttachedSpec
<1>1. [TrialsNext]_allVars => [AttachedNext]_allVars
  BY DEF AttachedNext
<1> QED BY <1>1, PTL DEF TrialsSpec, AttachedSpec

\* What it says of the warnings and the accounts.
LEMMA TrialsInvMeans ==
  TrialsInv => TrialsTypeOK /\ SuspendedWasWarned /\ AccountsHaveProperties
<1> SUFFICES ASSUME TrialsInv
             PROVE  TrialsTypeOK /\ SuspendedWasWarned /\ AccountsHaveProperties
  OBVIOUS
<1> USE DEF TrialsInv
<1>1. TrialsTypeOK
  BY DEF TrialTypes, TrialsTypeOK, JobType, NotificationInv
<1>2. SuspendedWasWarned
  <2>1. ASSUME NEW p \in Properties, status[p] = "suspended"
        PROVE  left[p] = -1
    BY <2>1 DEF StatusOK
  <2>2. ASSUME NEW p \in Properties, status[p] = "suspended", ~missed, NEW d \in {0, 1}
        PROVE  Told(p, d)
    <3>1. left[p] < d
      BY <2>1, <2>2
    <3> QED BY <2>2, <3>1 DEF WasTold, Owed
  <2> QED BY <2>1, <2>2 DEF SuspendedWasWarned
<1>3. AccountsHaveProperties
  BY DEF AccountsHaveProperties, StatusOK
<1> QED BY <1>1, <1>2, <1>3

\* Properties, accounts and the runs of the job keep their types.
THEOREM TrialsTypeCorrect == TrialsSpec => []TrialsTypeOK
BY WiredIsAttached, TrialsInvariant, TrialsInvMeans, PTL

\* TrialExpirationJob, however many processes run it, suspends a property only
\* when its trial is over, and only after two nights' warnings, unless nobody
\* could hear them or all runs of a night were lost.
THEOREM SuspendedWereWarned == TrialsSpec => []SuspendedWasWarned
BY WiredIsAttached, TrialsInvariant, TrialsInvMeans, PTL

\* ProvisionPropertyService saves the property before it creates the admin, and
\* staff is invited by an admin: no account is without its property.
THEOREM NoAccountWithoutProperty == TrialsSpec => []AccountsHaveProperties
BY WiredIsAttached, TrialsInvariant, TrialsInvMeans, PTL

\* The warnings travel as any event does: with the outbox job and the consumers
\* attached, what is proved of Notification holds of them, whatever the trial job
\* and the requests do.
THEOREM TrialsKeepNotices == AttachedSpec => [](SendsPerFault /\ RowsAreTrue /\ NothingIsLost)
<1>1. TrialsInv => SendsPerFault /\ RowsAreTrue /\ NothingIsLost
  BY NotificationInvMeans DEF TrialsInv
<1> QED BY <1>1, TrialsInvariant, PTL
=============================================================================
