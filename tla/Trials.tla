-------------------------------- MODULE Trials --------------------------------
(***************************************************************************)
(* The identity module on top of the bus and the notification module:      *)
(* properties, their Auth0 accounts and staff rows, the guard that lets    *)
(* staff in, and TrialExpirationJob, which at midnight suspends the        *)
(* properties whose trial is over and warns the admins of those whose      *)
(* trial ends within two days.  @Cron starts the job on every process that *)
(* is up, and nothing keeps the runs of one night apart.                   *)
(*                                                                         *)
(* Time is counted in midnights: left is how many are still to come before *)
(* a trial expires, and -1 once it has.  The event <<p, d, j>> is the      *)
(* warning to property p published by process j in the night that left it  *)
(* d.                                                                      *)
(***************************************************************************)
EXTENDS Notification, Integers

CONSTANTS
  Properties,
  Processes,  \* processes of the backend, each with its scheduler
  TrialDays   \* TRIAL_DAYS

ASSUME DaysAssumption == TrialDays \in Nat /\ TrialDays >= 2
ASSUME WarningAssumption ==
  /\ Events = Properties \X {-1, 0, 1} \X Processes
  /\ \A e \in Events : Type[e] = "property.trial.expiring"

VARIABLES
  status,      \* properties.status
  left,        \* midnights until the trial expires
  provisioning,\* properties saved whose Auth0 user is being created
  accounts,    \* Auth0 users of each property, by role
  staff,       \* identity_staff_members of each property, by role
  job,         \* tonight's run of TrialExpirationJob on each process
  unheard,     \* warnings not published because no admin was known
  missed       \* in some night no run came to its end

identity == <<status, provisioning, accounts, staff>>
trialVars == <<identity, left, job, unheard, missed>>
allVars == <<vars, trialVars>>

-----------------------------------------------------------------------------
Roles == {"property_admin", "staff"}
Jobs  == {"idle", "read", "suspend", "admins", "publish", "done"}

NoJob == [pc |-> "idle", todo |-> {"expired", "expiring"},
          expired |-> {}, expiring |-> {}, warn |-> {}]
Ended == [NoJob EXCEPT !.pc = "done"]
Running(j) == job[j].pc \notin {"idle", "done"}

TrialsInit ==
  /\ Init
  /\ status = [p \in Properties |-> "none"] /\ left = [p \in Properties |-> TrialDays]
  /\ provisioning = {}
  /\ accounts = [p \in Properties |-> {}] /\ staff = [p \in Properties |-> {}]
  /\ job = [j \in Processes |-> NoJob] /\ unheard = {} /\ missed = FALSE

-----------------------------------------------------------------------------
(* ProvisionPropertyService, Auth0JwtGuard, InviteStaffService *)

\* The Auth0 user is created before the property is saved.
SaveAfterAccount(p) ==
  /\ status[p] = "none"
  /\ \/ accounts' = [accounts EXCEPT ![p] = {"property_admin"}] /\ UNCHANGED status
     \/ status' = [status EXCEPT ![p] = "trial"] /\ UNCHANGED accounts
  /\ UNCHANGED <<vars, provisioning, staff, left, job, unheard, missed>>

SaveProperty(p) ==
  /\ status[p] = "none"
  /\ status' = [status EXCEPT ![p] = "trial"]
  /\ provisioning' = provisioning \cup {p}
  /\ UNCHANGED <<vars, accounts, staff, left, job, unheard, missed>>

\* A failure is answered with an error and leaves a property without admin;
\* property.provisioned goes to a queue that nobody reads.
CreateAuth0User(p) ==
  /\ p \in provisioning /\ provisioning' = provisioning \ {p}
  /\ accounts' \in {accounts, [accounts EXCEPT ![p] = @ \cup {"property_admin"}]}
  /\ UNCHANGED <<vars, status, staff, left, job, unheard, missed>>

\* The guard's just-in-time row, whatever the property's status.
UpsertStaff(p, role) ==
  /\ role \in accounts[p] \ staff[p]
  /\ staff' = [staff EXCEPT ![p] = @ \cup {role}]
  /\ UNCHANGED <<vars, status, provisioning, accounts, left, job, unheard, missed>>

\* Property.checkAccess: neither suspended nor on a trial that is over.
HasAccess(p) == status[p] = "active" \/ (status[p] = "trial" /\ left[p] >= 0)

\* Let in by the guard, an admin invites staff; staff members may not.
InviteStaff(p) ==
  /\ "property_admin" \in staff[p] /\ HasAccess(p)
  /\ accounts' = [accounts EXCEPT ![p] = @ \cup {"staff"}]
  /\ UNCHANGED <<vars, status, provisioning, staff, left, job, unheard, missed>>

\* Somebody pays; nothing in the repository does this.
Activate(p) ==
  /\ status[p] \in {"trial", "suspended"}
  /\ status' = [status EXCEPT ![p] = "active"]
  /\ UNCHANGED <<vars, provisioning, accounts, staff, left, job, unheard, missed>>

-----------------------------------------------------------------------------
(* TrialExpirationJob.run *)

DayPassesOn == left' = [p \in Properties |-> IF status[p] = "none" THEN left[p] ELSE left[p] - 1]

DayPasses == left' = [p \in Properties |->
                        IF status[p] = "none" \/ left[p] = -1 THEN left[p] ELSE left[p] - 1]

\* Bound: runs and requests end before the next midnight.
NightIsOver == provisioning = {} /\ \A j \in Processes : ~Running(j)

\* The job starts on every process that is up.
Midnight ==
  /\ NightIsOver /\ DayPasses
  /\ \E up \in (SUBSET Processes) \ {{}} :
       job' = [j \in Processes |-> IF j \in up THEN [NoJob EXCEPT !.pc = "read"] ELSE NoJob]
  /\ UNCHANGED <<vars, identity, unheard, missed>>

\* No process is up at midnight.
MissedMidnight ==
  /\ NightIsOver /\ Faulty
  /\ DayPasses /\ crashes' = crashes + 1 /\ missed' = TRUE
  /\ job' = [j \in Processes |-> NoJob]
  /\ UNCHANGED <<binding, outbox, run, queue, published, refused, copies, noteVars,
                 identity, unheard>>

\* findTrialPropertiesExpiring(before), before in days from now.
Expiring(before) == {p \in Properties : status[p] = "trial" /\ left[p] < before}

Reads(j, which) == job[j].pc = "read" /\ which \in job[j].todo

AfterRead(j, which, read) ==
  /\ job' = [job EXCEPT ![j] = [read EXCEPT
       !.todo = @ \ {which}, !.pc = IF read.todo = {which} THEN "suspend" ELSE "read"]]
  /\ UNCHANGED <<vars, identity, left, unheard, missed>>

\* Properties without a known admin are passed over.
ReadExpiredWithAdmin(j) ==
  /\ Reads(j, "expired")
  /\ AfterRead(j, "expired", [job[j] EXCEPT !.expired =
       {p \in Expiring(0) : "property_admin" \in staff[p]}])

ReadExpiredLate(j) ==
  /\ Reads(j, "expired")
  /\ AfterRead(j, "expired", [job[j] EXCEPT !.expired = Expiring(1)])

\* The two reads of Promise.all, in either order.
ReadExpired(j) ==
  /\ Reads(j, "expired")
  /\ AfterRead(j, "expired", [job[j] EXCEPT !.expired = Expiring(0)])

ReadExpiring(j) ==
  /\ Reads(j, "expiring")
  /\ AfterRead(j, "expiring", [job[j] EXCEPT !.expiring = Expiring(2)])

\* suspendManyByIds: by id alone, also what was activated meanwhile.
SuspendProperties(j) ==
  /\ job[j].pc = "suspend"
  /\ status' = [p \in Properties |-> IF p \in job[j].expired THEN "suspended" ELSE status[p]]
  /\ job' = [job EXCEPT ![j].pc = "admins"]
  /\ UNCHANGED <<vars, provisioning, accounts, staff, left, unheard, missed>>

\* warnProperties: those not read as expired, if an admin has ever logged in.
FindAdmins(j) ==
  /\ job[j].pc = "admins"
  /\ LET warn  == job[j].expiring \ job[j].expired
         known == {p \in warn : "property_admin" \in staff[p]}
     IN  /\ job' = [job EXCEPT ![j] =
                      IF known = {} THEN Ended ELSE [@ EXCEPT !.pc = "publish", !.warn = known]]
         /\ unheard' = unheard \cup {<<p, left[p], j>> : p \in warn \ known}
  /\ UNCHANGED <<vars, identity, left, missed>>

PublishWarning(j, p) ==
  /\ job[j].pc = "publish" /\ p \in job[j].warn
  /\ Publish(<<p, left[p], j>>)
  /\ LET rest == job[j].warn \ {p}
     IN  job' = [job EXCEPT ![j] = IF rest = {} THEN Ended ELSE [@ EXCEPT !.warn = rest]]
  /\ UNCHANGED <<noteVars, identity, left, unheard, missed>>

\* A statement or a publish throws, or the process dies.
JobLost(j) ==
  /\ Running(j) /\ Faulty
  /\ crashes' = crashes + 1 /\ job' = [job EXCEPT ![j] = NoJob]
  /\ missed' = (missed \/ \A k \in Processes \ {j} : job[k].pc = "idle")
  /\ UNCHANGED <<binding, outbox, run, queue, published, refused, copies, noteVars,
                 identity, left, unheard>>

-----------------------------------------------------------------------------
Requests == \E p \in Properties :
  \/ SaveProperty(p) \/ CreateAuth0User(p) \/ InviteStaff(p) \/ Activate(p)
  \/ \E role \in Roles : UpsertStaff(p, role)

TrialJob(j) == \/ ReadExpired(j) \/ ReadExpiring(j) \/ SuspendProperties(j) \/ FindAdmins(j)
               \/ \E p \in Properties : PublishWarning(j, p)

TrialsNext ==
  \/ Requests \/ Midnight \/ MissedMidnight
  \/ \E j \in Processes : TrialJob(j) \/ JobLost(j)

TrialsSpec == TrialsInit /\ [][TrialsNext]_allVars

\* Days pass, the scheduler starts the job and a started job goes on.
TrialsFairSpec == /\ TrialsSpec
                  /\ WF_allVars(Midnight)
                  /\ \A j \in Processes : WF_allVars(TrialJob(j))
                  /\ \A p \in Properties : WF_allVars(CreateAuth0User(p))

\* With the outbox job and the consumers, which as wired nothing attaches.
AttachedNext ==
  TrialsNext \/ (((Job /\ UNCHANGED noteVars) \/ Consume) /\ UNCHANGED trialVars)

AttachedSpec == TrialsInit /\ [][AttachedNext]_allVars

-----------------------------------------------------------------------------
(* What holds *)

\* Properties, accounts and the job's runs keep their types on top of the bus
\* and the notifications.
TrialsTypeOK ==
  /\ NoticesTypeOK
  /\ status \in [Properties -> {"none", "trial", "active", "suspended"}]
  /\ left \in [Properties -> -1..TrialDays] /\ provisioning \subseteq Properties
  /\ accounts \in [Properties -> SUBSET Roles] /\ staff \in [Properties -> SUBSET Roles]
  /\ job \in [Processes ->
       [pc : Jobs, todo : SUBSET {"expired", "expiring"}, expired : SUBSET Properties,
        expiring : SUBSET Properties, warn : SUBSET Properties]]
  /\ unheard \subseteq Events /\ missed \in BOOLEAN

\* The warning of a night is out, or one of its runs knew no admin.
Told(p, d) == \E j \in Processes : <<p, d, j>> \in published \cup unheard

\* Only a trial that is over is suspended, however many runs there are in a
\* night, and only after the warnings of two nights, unless no admin had logged
\* in by then or all runs of a night were lost.
SuspendedWasWarned ==
  \A p \in Properties : status[p] = "suspended" =>
    left[p] = -1 /\ (missed \/ \A d \in {0, 1} : Told(p, d))

\* Every Auth0 user and every staff row belongs to a property that was saved,
\* whichever of the calls that provision one fails.
AccountsHaveProperties ==
  \A p \in Properties : accounts[p] \cup staff[p] # {} => status[p] # "none"

\* No trial goes on for ever, whatever nights are missed.
TrialsEnd == \A p \in Properties : status[p] = "trial" ~> status[p] # "trial"

-----------------------------------------------------------------------------
(* What fails *)

\* A trial that is over is suspended without another warning, unless it was
\* paid.  One run reads the property as expiring, another suspends it, and the
\* first then no longer finds it among the expired.
WarnedInTime ==
  \A p \in Properties, j \in Processes : <<p, -1, j>> \in published => status[p] = "active"
=============================================================================
