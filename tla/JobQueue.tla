------------------------------ MODULE JobQueue ------------------------------
(***************************************************************************)
(* The durable job queue: the background_jobs table together with its      *)
(* execution receipts and replays (app/repositories/job_records.py,        *)
(* job_execution.py, execution_receipts.py).  Every repository function    *)
(* runs in one write_transaction (BEGIN IMMEDIATE), so each is one action. *)
(* Nothing is assumed here about the callers: any worker may call          *)
(* heartbeat, complete or fail on any job at any time; JobWorker adds the  *)
(* worker loop that decides when they really do.                           *)
(*                                                                         *)
(* Time is relative: ttl is lease_expires_at - now and wait is             *)
(* next_attempt_at - now, both counted down by Tick.  A lease has expired  *)
(* when ttl < 0 (the SQL compares strictly) and a job is due when          *)
(* wait = 0 (the SQL uses <=).  Job ids are uuids: an id is never reused.  *)
(***************************************************************************)
EXTENDS Integers, Sequences

CONSTANTS
    Jobs,         \* job identifiers
    Workers,      \* worker identifiers
    Keys,         \* dedupe keys
    Priorities,   \* priorities a caller may give
    MaxAttempts,  \* max_attempts of a job
    Lease,        \* lease_seconds, in ticks
    MaxDelay,     \* longest retry delay, in ticks
    MaxRuns,      \* bound: operator retries of one job
    NoWorker,     \* NULL lease_owner, and the actor of a receipt no worker wrote
    NoKey         \* NULL dedupe_key

ASSUME QueueAssumption ==
    /\ MaxAttempts \in Nat \ {0}
    /\ Lease \in Nat /\ MaxDelay \in Nat \ {0} /\ MaxRuns \in Nat
    /\ Priorities \subseteq Int
    /\ NoWorker \notin Workers /\ NoKey \notin Keys

VARIABLES
    job,       \* the table: a row per identifier
    receipts,  \* execution_receipts of each job, by receipt_sequence
    replayed,  \* the receipts <<job, sequence>> with an execution_replays row
    era        \* created_at of the latest insert; equal within one second

queueVars == <<job, receipts, replayed, era>>

Waiting  == {"PENDING", "RETRY"}
Active   == Waiting \cup {"RUNNING"}
Dead     == {"FAILED", "CANCELLED"}
Terminal == Dead \cup {"SUCCEEDED"}

\* "NEW": not inserted yet; "GONE": deleted by retention.
Row == [status : Active \cup Terminal \cup {"NEW", "GONE"},
        attempts : 0..MaxAttempts, cancel : BOOLEAN,
        owner : Workers \cup {NoWorker}, ttl : -1..Lease, wait : 0..MaxDelay,
        key : Keys \cup {NoKey}, prio : Int, born : Nat,
        run : 0..MaxRuns]  \* run: history, the operator retries so far

Blank == [status |-> "NEW", attempts |-> 0, cancel |-> FALSE,
          owner |-> NoWorker, ttl |-> 0, wait |-> 0, key |-> NoKey,
          prio |-> 0, born |-> 0, run |-> 0]

Receipt == [outcome : Terminal \cup {"RETRY"}, attempt : 0..MaxAttempts,
            by : Workers \cup {NoWorker}, run : 0..MaxRuns]

\* Types, and what the columns mean together: a lease and only a lease makes a
\* job RUNNING, and its holder was counted as an attempt.
TypeOK ==
    /\ job \in [Jobs -> Row]
    /\ receipts \in [Jobs -> Seq(Receipt)]
    /\ replayed \subseteq Jobs \X Nat
    /\ era \in Nat
    /\ \A j \in Jobs : /\ job[j].status = "RUNNING" <=> job[j].owner # NoWorker
                       /\ job[j].status = "RUNNING" => job[j].attempts > 0

-----------------------------------------------------------------------------
(* Row updates, each the SET list of one UPDATE statement. *)

Unleased(r, st) == [r EXCEPT !.status = st, !.owner = NoWorker, !.ttl = 0]

Expired(r) == r.status = "RUNNING" /\ r.ttl < 0

\* (Operators named ..._M are slips this code could contain.  No definition
\* uses them; they show which property would notice.)
ReapNothing_M(r) == r

ReapIgnoresLimit_M(r) ==
    IF ~Expired(r) THEN r
    ELSE [Unleased(r, IF r.cancel THEN "CANCELLED" ELSE "RETRY") EXCEPT !.wait = 0]

\* First UPDATE of claim_background_job: an expired lease is taken back.
Reap(r) ==
    IF ~Expired(r) THEN r
    ELSE [Unleased(r, IF r.cancel THEN "CANCELLED"
                      ELSE IF r.attempts >= MaxAttempts THEN "FAILED"
                      ELSE "RETRY") EXCEPT !.wait = 0]

\* Second UPDATE of claim_background_job, on what the first one left.
Sweep(r) ==
    LET s == Reap(r)
    IN  IF s.status \in Waiting /\ s.cancel
        THEN [s EXCEPT !.status = "CANCELLED"] ELSE s

Eligible(r) ==
    /\ r.status \in Waiting
    /\ ~r.cancel
    /\ r.attempts < MaxAttempts
    /\ r.wait = 0

\* ORDER BY priority DESC, created_at ASC; ties are broken either way.
Before(r, s) == r.prio > s.prio \/ (r.prio = s.prio /\ r.born < s.born)

Taken(r, w) == [r EXCEPT !.status = "RUNNING", !.attempts = @ + 1,
                         !.owner = w, !.ttl = Lease]

Owns(w, j) == job[j].status = "RUNNING" /\ job[j].owner = w

DecisionForgetsCancel_M(r, retryable) ==
    IF ~retryable \/ r.attempts >= MaxAttempts THEN "FAILED" ELSE "RETRY"

\* RetryPolicy.decide
Decision(r, retryable) ==
    IF r.cancel THEN "CANCELLED"
    ELSE IF ~retryable \/ r.attempts >= MaxAttempts THEN "FAILED"
    ELSE "RETRY"

\* record_execution_receipt: the next receipt_sequence of the job.
Record(j, outcome, w) ==
    receipts' = [receipts EXCEPT ![j] =
        Append(@, [outcome |-> outcome, attempt |-> job[j].attempts,
                   by |-> w, run |-> job[j].run])]

\* The unique index idx_jobs_active_dedupe: no second active job for a key.
KeyFree(k) == k = NoKey \/ \A i \in Jobs : job[i].status \in Active => job[i].key # k

-----------------------------------------------------------------------------
(* The repository functions. *)

Fresh(k, p, at) == [Blank EXCEPT !.status = "PENDING", !.key = k, !.prio = p, !.born = at]

\* INSERT of a fresh row; created_at has one-second resolution.
Insert(j, k, p) ==
    /\ job[j].status = "NEW"
    /\ \E d \in {0, 1} :
        /\ era' = era + d
        /\ job' = [job EXCEPT ![j] = Fresh(k, p, era + d)]

\* create_background_job; with the key already active it returns that job.
Create(j, k, p) ==
    /\ KeyFree(k)
    /\ Insert(j, k, p)
    /\ UNCHANGED <<receipts, replayed>>

Swept == [j \in Jobs |-> Sweep(job[j])]

\* claim_background_job, a job found.
Claim(w, j) ==
    /\ Eligible(Sweep(job[j]))
    /\ \A i \in Jobs : Eligible(Sweep(job[i])) => ~Before(Sweep(job[i]), Sweep(job[j]))
    /\ job' = [Swept EXCEPT ![j] = Taken(Sweep(job[j]), w)]
    /\ UNCHANGED <<receipts, replayed, era>>

\* claim_background_job, nothing due: the two sweeps are still committed.
ClaimNothing ==
    /\ \A j \in Jobs : ~Eligible(Sweep(job[j]))
    /\ job' = Swept
    /\ UNCHANGED <<receipts, replayed, era>>

HeartbeatKeepsExpiry_M(w, j) == Owns(w, j) /\ UNCHANGED queueVars

\* heartbeat_background_job; with no row to update it raises ConcurrencyError.
Heartbeat(w, j) ==
    /\ Owns(w, j)
    /\ job' = [job EXCEPT ![j].ttl = Lease]
    /\ UNCHANGED <<receipts, replayed, era>>

CompleteUnfenced_M(w, j) ==
    /\ job[j].status = "RUNNING"
    /\ LET st == IF job[j].cancel THEN "CANCELLED" ELSE "SUCCEEDED"
       IN  /\ job' = [job EXCEPT ![j] = Unleased(@, st)]
           /\ Record(j, st, w)
    /\ UNCHANGED <<replayed, era>>

\* complete_background_job
Complete(w, j) ==
    /\ Owns(w, j)
    /\ LET st == IF job[j].cancel THEN "CANCELLED" ELSE "SUCCEEDED"
       IN  /\ job' = [job EXCEPT ![j] = Unleased(@, st)]
           /\ Record(j, st, w)
    /\ UNCHANGED <<replayed, era>>

\* fail_background_job; a retry waits for the backoff delay d.
Fail(w, j, retryable) ==
    /\ Owns(w, j)
    /\ LET st == Decision(job[j], retryable)
       IN  \E d \in 1..MaxDelay :
             /\ job' = [job EXCEPT ![j] = [Unleased(@, st)
                           EXCEPT !.wait = IF st = "RETRY" THEN d ELSE 0]]
             /\ Record(j, st, w)
    /\ UNCHANGED <<replayed, era>>

\* request_background_job_cancel
RequestCancel(j) ==
    /\ job[j].status \in Active
    /\ IF job[j].status \in Waiting
       THEN /\ job' = [job EXCEPT ![j].cancel = TRUE, ![j].status = "CANCELLED"]
            /\ Record(j, "CANCELLED", NoWorker)
       ELSE /\ job' = [job EXCEPT ![j].cancel = TRUE]
            /\ UNCHANGED receipts
    /\ UNCHANGED <<replayed, era>>

Reopened(r) == [Unleased(r, "PENDING") EXCEPT
    !.attempts = 0, !.cancel = FALSE, !.wait = 0, !.run = @ + 1]

RetryKeepsAttempts_M(j) ==
    /\ job[j].status \in Dead /\ KeyFree(job[j].key) /\ job[j].run < MaxRuns
    /\ job' = [job EXCEPT ![j] = [Reopened(@) EXCEPT !.attempts = job[j].attempts]]
    /\ UNCHANGED <<receipts, replayed, era>>

\* retry_background_job; the unique index refuses a key that is active again.
Retry(j) ==
    /\ job[j].status \in Dead
    /\ KeyFree(job[j].key)
    /\ job[j].run < MaxRuns
    /\ job' = [job EXCEPT ![j] = Reopened(@)]
    /\ UNCHANGED <<receipts, replayed, era>>

\* A dead letter: a FAILED or CANCELLED receipt that was not replayed.
DeadLetter(j, n) == receipts[j][n].outcome \in Dead /\ <<j, n>> \notin replayed

\* replay_execution_receipt, job branch: a new job i from receipt n of job j.
Replay(j, n, i) ==
    /\ DeadLetter(j, n)
    /\ job[j].status \in Dead
    /\ Insert(i, NoKey, job[j].prio)
    /\ replayed' = replayed \cup {<<j, n>>}
    /\ UNCHANGED receipts

Purgeable(j) ==
    \/ job[j].status = "SUCCEEDED"
    \/ job[j].status \in Dead /\ \A n \in DOMAIN receipts[j] : ~DeadLetter(j, n)

\* purge_background_jobs; old is the set of jobs completed before the cutoff.
Purge(old) ==
    /\ \E j \in old : Purgeable(j)
    /\ job' = [j \in Jobs |-> IF j \in old /\ Purgeable(j)
                              THEN [Blank EXCEPT !.status = "GONE"] ELSE job[j]]
    /\ UNCHANGED <<receipts, replayed, era>>

\* One tick of the wall clock.
Tick ==
    /\ job' = [j \in Jobs |->
          [job[j] EXCEPT !.ttl  = IF job[j].status = "RUNNING" /\ @ >= 0 THEN @ - 1 ELSE @,
                         !.wait = IF @ > 0 THEN @ - 1 ELSE @]]
    /\ UNCHANGED <<receipts, replayed, era>>

-----------------------------------------------------------------------------
QueueInit ==
    /\ job = [j \in Jobs |-> Blank]
    /\ receipts = [j \in Jobs |-> <<>>]
    /\ replayed = {}
    /\ era = 0

\* What clients, operators and retention do to the table.
ClientNext ==
    \/ \E j \in Jobs, k \in Keys \cup {NoKey}, p \in Priorities : Create(j, k, p)
    \/ \E j \in Jobs : RequestCancel(j) \/ Retry(j)
    \/ \E j, i \in Jobs : \E n \in DOMAIN receipts[j] : Replay(j, n, i)
    \/ \E old \in SUBSET Jobs : Purge(old)

QueueNext ==
    \/ ClientNext
    \/ ClaimNothing
    \/ \E w \in Workers, j \in Jobs :
        \/ Claim(w, j)
        \/ Heartbeat(w, j)
        \/ Complete(w, j)
        \/ \E retryable \in BOOLEAN : Fail(w, j, retryable)
    \/ Tick

QueueSpec == QueueInit /\ [][QueueNext]_queueVars

-----------------------------------------------------------------------------
(* Properties of the table, whoever calls it. *)

\* A waiting job can always be claimed once its delay is over: no job sits in
\* PENDING or RETRY with its attempts used up or a cancellation pending,
\* where the claim query would pass it over for ever.
NoStrandedJob ==
    \A j \in Jobs : job[j].status \in Waiting =>
        job[j].attempts < MaxAttempts /\ ~job[j].cancel

\* Once a cancellation was accepted the job ends CANCELLED, whether the worker
\* completes, fails or loses its lease (docs/17_BACKGROUND_JOBS.md).
CancelHonoured ==
    \A j \in Jobs : job[j].cancel => job[j].status \in {"RUNNING", "CANCELLED"}

\* Two receipts of workers for one job are for different attempts: an attempt
\* is settled at most once, however late or repeated the calls are.
OneReceiptPerAttempt ==
    \A j \in Jobs : \A m, n \in DOMAIN receipts[j] :
        LET a == receipts[j][m]
            b == receipts[j][n]
        IN  /\ a.by # NoWorker /\ b.by # NoWorker
            /\ a.run = b.run /\ a.attempt = b.attempt
            => m = n

\* At most one active job per dedupe key, through creation, operator retry and
\* replay (scheduled jobs rely on it).
OneActivePerKey ==
    \A i, j \in Jobs :
        /\ job[i].status \in Active /\ job[j].status \in Active
        /\ job[i].key = job[j].key /\ job[i].key # NoKey
        => i = j

-----------------------------------------------------------------------------
(* The refinement mapping: PENDING and RETRY are both "QUEUED". *)

Phase(st) == IF st \in Waiting THEN "QUEUED" ELSE st

Lifecycle == INSTANCE JobLifecycle WITH
    phase <- [j \in Jobs |-> Phase(job[j].status)],
    spent <- [j \in Jobs |-> job[j].attempts]

\* Every step of the table is a step the state diagram of the documentation
\* allows for each job (docs/17_BACKGROUND_JOBS.md).
ImplementsLifecycle == Lifecycle!Spec
=============================================================================
