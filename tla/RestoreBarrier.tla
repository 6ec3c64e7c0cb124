--------------------------- MODULE RestoreBarrier ---------------------------
(***************************************************************************)
(* Restoring the operational database while other processes write to it:   *)
(* the exclusive:restore lease and the HTTP write barrier of               *)
(* app/services/operation_guard.py, the checks of the restore handlers     *)
(* (app/routers/exports.py, governance_controls.py), and the workers and   *)
(* schedulers, which look at the lease before they claim or create a job.  *)
(*                                                                         *)
(* Every read or write of the coordination database, of the job table and  *)
(* of the operational data is a step of its own: they are separate         *)
(* transactions, in two databases.                                         *)
(***************************************************************************)
EXTENDS ClusterLease, FiniteSets

CONSTANTS
    Instances,    \* processes that may restore, run jobs or schedule them
    Requests,     \* HTTP write requests, in whatever process
    Jobs,         \* rows of background_jobs
    LeaseTTL,     \* EXCLUSIVE_OPERATION_LEASE_SECONDS
    ActivityTTL,  \* WRITE_ACTIVITY_TTL_SECONDS
    MaxToken,     \* bound: acquisitions of the restore lease
    Reliable      \* instances and requests that end within their TTLs and
                  \* whose reads of the coordination database succeed

ASSUME BarrierAssumption ==
    /\ Nobody \notin Instances
    /\ LeaseTTL \in Nat \ {0, 1} /\ ActivityTTL \in Nat \ {0} /\ MaxToken \in Nat

VARIABLES
    lease,     \* the exclusive:restore row
    activity,  \* remaining TTL of each request's write activity; -1: none
    request,   \* where each request is
    restore,   \* where each instance's restore is, with its fencing token
    job,       \* status of each job
    worker,    \* where each instance's worker is
    scheduler  \* where each instance's scheduler is

barrierVars == <<lease, activity, request, restore, job, worker, scheduler>>

\* "held", "counted": the lease is ours, the first count was zero;
\* "restoring": both were; "releasing": leaving the exclusive operation.
RestorePc == {"idle", "held", "counted", "restoring", "releasing"}
Exclusive == {"held", "counted", "restoring"}

RequestPc == {"new", "checked", "registered", "writing", "leaving", "lost"}

ActiveJob == {"PENDING", "RUNNING"}

TypeOK ==
    /\ lease \in [holder : Instances \cup {Nobody}, token : Nat, ttl : -1..LeaseTTL]
    /\ activity \in [Requests -> -1..ActivityTTL]
    /\ request \in [Requests -> RequestPc]
    /\ restore \in [Instances -> [pc : RestorePc, token : Nat]]
    /\ job \in [Jobs -> ActiveJob \cup {"NEW", "DONE"}]
    /\ worker \in [Instances -> {"idle", "checked"} \cup Jobs]
    /\ scheduler \in [Instances -> {"idle", "checked"}]
    /\ \A r \in Requests : request[r] \in {"new", "checked"} => activity[r] = -1

\* OperationGuard.restore_in_progress: a failed read counts as "no restore".
RestoreSeen(a) == {Active(lease)} \cup (IF a \in Reliable THEN {} ELSE {FALSE})

-----------------------------------------------------------------------------
(* HTTP write requests: begin_http_write, the handler, end_http_write. *)

\* A refused request is answered 503 and may be sent again.
CheckBarrier(r) ==
    /\ request[r] = "new"
    /\ FALSE \in RestoreSeen(r)
    /\ request' = [request EXCEPT ![r] = "checked"]
    /\ UNCHANGED <<lease, activity, restore, job, worker, scheduler>>

Register(r) ==
    /\ request[r] = "checked"
    /\ activity' = [activity EXCEPT ![r] = ActivityTTL]
    /\ request' = [request EXCEPT ![r] = "registered"]
    /\ UNCHANGED <<lease, restore, job, worker, scheduler>>

\* (Operators named ..._M are slips this code could contain.  No definition
\* uses them; they show which property would notice.)
RecheckSkipped_M(r) ==
    /\ request[r] = "registered"
    /\ request' = [request EXCEPT ![r] = "writing"]
    /\ UNCHANGED <<lease, activity, restore, job, worker, scheduler>>

\* The second look closes the window between the first one and Register.
Recheck(r) ==
    /\ request[r] = "registered"
    /\ \E seen \in RestoreSeen(r) :
          request' = [request EXCEPT ![r] = IF seen THEN "leaving" ELSE "writing"]
    /\ UNCHANGED <<lease, activity, restore, job, worker, scheduler>>

\* The handler may queue a job among its writes.
SubmitJob(r, b) ==
    /\ request[r] = "writing"
    /\ job[b] = "NEW"
    /\ job' = [job EXCEPT ![b] = "PENDING"]
    /\ UNCHANGED <<lease, activity, request, restore, worker, scheduler>>

Written(r) ==
    /\ request[r] = "writing"
    /\ request' = [request EXCEPT ![r] = "leaving"]
    /\ UNCHANGED <<lease, activity, restore, job, worker, scheduler>>

Deregister(r) ==
    /\ request[r] = "leaving"
    /\ activity' = [activity EXCEPT ![r] = -1]
    /\ request' = [request EXCEPT ![r] = "new"]
    /\ UNCHANGED <<lease, restore, job, worker, scheduler>>

\* The process of a request dies and leaves its activity row behind.
LoseRequest(r) ==
    /\ request[r] \in {"registered", "writing", "leaving"}
    /\ request' = [request EXCEPT ![r] = "lost"]
    /\ UNCHANGED <<lease, activity, restore, job, worker, scheduler>>

RequestStep(r) ==
    \/ CheckBarrier(r) \/ Register(r) \/ Recheck(r) \/ Written(r)
    \/ Deregister(r) \/ LoseRequest(r) \/ \E b \in Jobs : SubmitJob(r, b)

-----------------------------------------------------------------------------
(* Restores: the body of "with exclusive_operation(RESTORE_LEASE_NAME)". *)

Goto(i, pc) == restore' = [restore EXCEPT ![i].pc = pc]

AcquireRestore(i) ==
    /\ restore[i].pc = "idle"
    /\ Acquirable(lease, i)
    /\ lease' = Acquired(lease, i, LeaseTTL)
    /\ lease'.token <= MaxToken
    /\ restore' = [restore EXCEPT ![i] = [pc |-> "held", token |-> lease'.token]]
    /\ UNCHANGED <<activity, request, job, worker, scheduler>>

\* count_active_background_jobs
CountJobs(i) ==
    /\ restore[i].pc = "held"
    /\ Goto(i, IF \E b \in Jobs : job[b] \in ActiveJob THEN "releasing" ELSE "counted")
    /\ UNCHANGED <<lease, activity, request, job, worker, scheduler>>

\* count_cluster_write_activities
CountWrites(i) ==
    /\ restore[i].pc = "counted"
    /\ Goto(i, IF \E r \in Requests : activity[r] >= 0 THEN "releasing" ELSE "restoring")
    /\ UNCHANGED <<lease, activity, request, job, worker, scheduler>>

\* restore_database: the job table becomes the one in the backup.
Restored(i) ==
    /\ restore[i].pc = "restoring"
    /\ job' \in [Jobs -> ActiveJob \cup {"NEW", "DONE"}]
    /\ Goto(i, "releasing")
    /\ UNCHANGED <<lease, activity, request, worker, scheduler>>

\* The restore raises: the safety backup is put back.
RestoreFails(i) ==
    /\ restore[i].pc = "restoring"
    /\ Goto(i, "releasing")
    /\ UNCHANGED <<lease, activity, request, job, worker, scheduler>>

ReleaseRestore(i) ==
    /\ restore[i].pc = "releasing"
    /\ lease' = Released(lease, i, restore[i].token)
    /\ Goto(i, "idle")
    /\ UNCHANGED <<activity, request, job, worker, scheduler>>

\* The process dies; its lease stays until it expires.
CrashRestore(i) ==
    /\ restore[i].pc # "idle"
    /\ Goto(i, "idle")
    /\ UNCHANGED <<lease, activity, request, job, worker, scheduler>>

RestoreStep(i) ==
    \/ AcquireRestore(i) \/ CountJobs(i) \/ CountWrites(i) \/ Restored(i)
    \/ RestoreFails(i) \/ ReleaseRestore(i) \/ CrashRestore(i)

-----------------------------------------------------------------------------
(* Workers and schedulers look at the lease, then act in a later step. *)

WorkerChecks(i) ==
    /\ worker[i] = "idle"
    /\ FALSE \in RestoreSeen(i)
    /\ worker' = [worker EXCEPT ![i] = "checked"]
    /\ UNCHANGED <<lease, activity, request, restore, job, scheduler>>

WorkerClaims(i) ==
    /\ worker[i] = "checked"
    /\ \/ \E b \in Jobs :
            /\ job[b] = "PENDING"
            /\ job' = [job EXCEPT ![b] = "RUNNING"]
            /\ worker' = [worker EXCEPT ![i] = b]
       \/ /\ \A b \in Jobs : job[b] # "PENDING"
          /\ worker' = [worker EXCEPT ![i] = "idle"]
          /\ UNCHANGED job
    /\ UNCHANGED <<lease, activity, request, restore, scheduler>>

\* complete_background_job does nothing unless the row is RUNNING.
WorkerSettles(i) ==
    /\ worker[i] \in Jobs
    /\ job' = [job EXCEPT ![worker[i]] = IF @ = "RUNNING" THEN "DONE" ELSE @]
    /\ worker' = [worker EXCEPT ![i] = "idle"]
    /\ UNCHANGED <<lease, activity, request, restore, scheduler>>

SchedulerChecks(i) ==
    /\ scheduler[i] = "idle"
    /\ FALSE \in RestoreSeen(i)
    /\ scheduler' = [scheduler EXCEPT ![i] = "checked"]
    /\ UNCHANGED <<lease, activity, request, restore, job, worker>>

SchedulerProduces(i) ==
    /\ scheduler[i] = "checked"
    /\ \/ \E b \in Jobs : job[b] = "NEW" /\ job' = [job EXCEPT ![b] = "PENDING"]
       \/ UNCHANGED job
    /\ scheduler' = [scheduler EXCEPT ![i] = "idle"]
    /\ UNCHANGED <<lease, activity, request, restore, worker>>

BackgroundStep(i) ==
    \/ WorkerChecks(i) \/ WorkerClaims(i) \/ WorkerSettles(i)
    \/ SchedulerChecks(i) \/ SchedulerProduces(i)

-----------------------------------------------------------------------------
\* A second passes.  A reliable restore has a second of its lease left then, a
\* reliable request some of its activity's time.
Tick ==
    /\ \A i \in Instances \cap Reliable : restore[i].pc \in Exclusive => lease.ttl > 1
    /\ \A r \in Requests \cap Reliable :
          request[r] \in {"registered", "writing"} => activity[r] > 0
    /\ lease' = Aged(lease)
    /\ activity' = [r \in Requests |-> IF activity[r] >= 0 THEN activity[r] - 1 ELSE -1]
    /\ UNCHANGED <<request, restore, job, worker, scheduler>>

BarrierInit ==
    /\ lease = NoLease
    /\ activity = [r \in Requests |-> -1]
    /\ request = [r \in Requests |-> "new"]
    /\ restore = [i \in Instances |-> [pc |-> "idle", token |-> 0]]
    /\ job = [b \in Jobs |-> "NEW"]
    /\ worker = [i \in Instances |-> "idle"]
    /\ scheduler = [i \in Instances |-> "idle"]

BarrierNext ==
    \/ \E r \in Requests : RequestStep(r)
    \/ \E i \in Instances : RestoreStep(i) \/ BackgroundStep(i)
    \/ Tick

BarrierSpec == BarrierInit /\ [][BarrierNext]_barrierVars

-----------------------------------------------------------------------------
(* Properties. *)

\* Two processes that end within their leases never restore at once, whatever
\* slow ones do beside them.
OneRestore ==
    \A i, j \in Instances \cap Reliable :
        restore[i].pc \in Exclusive /\ restore[j].pc \in Exclusive => i = j

\* No write request that ends in time is being handled while the database is
\* replaced in time: either the restore counted its activity or its second look
\* saw the lease.
NoWriteDuringRestore ==
    \A i \in Instances \cap Reliable, r \in Requests \cap Reliable :
        ~(restore[i].pc = "restoring" /\ request[r] = "writing")

\* Fencing, whatever the timing: of the restores that believe they hold the
\* lease no two have the same token, and the current token is the holder's.
TokensFence ==
    \A i \in Instances : restore[i].pc # "idle" =>
        /\ restore[i].token = lease.token => lease.holder = i
        /\ \A j \in Instances :
              restore[j].pc # "idle" /\ restore[j].token = restore[i].token => i = j

\* docs/19_MULTI_INSTANCE_COORDINATION.md: while the restore lease is active
\* workers run no new job.  Here: in another process than the restoring one,
\* none is running while the database is being replaced.
NoJobDuringRestore ==
    \A i, k \in Instances :
        i # k => ~(restore[i].pc = "restoring" /\ worker[k] \in Jobs)
=============================================================================
