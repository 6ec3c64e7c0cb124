---------------------------- MODULE ScheduledJobs ----------------------------
(***************************************************************************)
(* Periodic jobs: the maintenance, webhook, collaboration and backup loops *)
(* of every process (app/services/lifecycle_runtime.py), which check the   *)
(* leadership of SchedulerLeader and then create the job of the current    *)
(* time bucket (app/services/scheduled_project_jobs.py), deduplicated by   *)
(* the job queue while it is active.  One kind of job is modelled.         *)
(***************************************************************************)
EXTENDS SchedulerLeader, FiniteSets

CONSTANT Interval  \* seconds a loop sleeps, and length of a time bucket

ASSUME ScheduleAssumption == Interval \in Nat \ {0}

VARIABLES
    stage,  \* where each process's loop is: "wait", "check" or "produce"
    sleep,  \* seconds each loop has still to sleep
    phase,  \* seconds since the current bucket began
    made,   \* jobs created for the current bucket
    queued  \* whether one of them is active

scheduleVars == <<registry, lease, life, belief, tick, check,
                  stage, sleep, phase, made, queued>>

bucket == <<phase, made, queued>>

\* The loop waits a whole interval after whatever it did.
Sleeps(p) ==
    /\ stage' = [stage EXCEPT ![p] = "wait"]
    /\ sleep' = [sleep EXCEPT ![p] = Interval]

\* The loop wakes up and checks the leadership.
Wake(p) ==
    /\ stage[p] = "wait" /\ sleep[p] = 0
    /\ CheckLease(p)
    /\ stage' = [stage EXCEPT ![p] = "check"]
    /\ UNCHANGED <<sleep, bucket>>

Decide(p) ==
    /\ stage[p] = "check"
    /\ Compare(p)
    /\ IF Verified(p)
       THEN stage' = [stage EXCEPT ![p] = "produce"] /\ UNCHANGED sleep
       ELSE Sleeps(p)
    /\ UNCHANGED bucket

\* _maintenance_job: create_background_job with the key of the bucket, which
\* returns the job of that key as long as it is active.
Produce(p) ==
    /\ stage[p] = "produce"
    /\ IF queued THEN UNCHANGED <<made, queued>>
       ELSE made' = made + 1 /\ queued' = TRUE
    /\ Sleeps(p)
    /\ UNCHANGED <<leaderVars, phase>>

\* A worker settles the job.
JobDone ==
    /\ queued /\ queued' = FALSE
    /\ UNCHANGED <<leaderVars, stage, sleep, phase, made>>

\* Everything else a process does; its death ends its loop.
Elsewhere(p) ==
    /\ \/ ProcessStep(p)
       \/ stage[p] # "check" /\ (CheckLease(p) \/ Compare(p))
    /\ stage' = [stage EXCEPT ![p] = IF life'[p] = "dead" THEN "wait" ELSE @]
    /\ UNCHANGED <<sleep, bucket>>

SecondPasses ==
    /\ Second
    /\ sleep' = [p \in Procs |-> IF life[p] = "up" /\ sleep[p] > 0 THEN sleep[p] - 1 ELSE sleep[p]]
    /\ IF phase + 1 < Interval THEN phase' = phase + 1 /\ UNCHANGED <<made, queued>>
       ELSE phase' = 0 /\ made' = 0 /\ queued' = FALSE
    /\ UNCHANGED stage

ScheduleInit ==
    /\ LeaderInit
    /\ stage = [p \in Procs |-> "wait"]
    /\ sleep = [p \in Procs |-> Interval]
    /\ phase = 0 /\ made = 0 /\ queued = FALSE

ScheduleNext ==
    \/ \E p \in Procs : Wake(p) \/ Decide(p) \/ Produce(p) \/ Elsewhere(p)
    \/ JobDone
    \/ SecondPasses

ScheduleSpec == ScheduleInit /\ [][ScheduleNext]_scheduleVars

=============================================================================
