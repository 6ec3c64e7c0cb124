------------------------------ MODULE MCContention ------------------------------
(***************************************************************************)
(* Two who act on one thing, for TLC: two processes that run under one     *)
(* instance id and schedule jobs (ScheduledJobs), two workers of the job   *)
(* queue (JobWorker), approvers and those who change what they approve     *)
(* (PolicyActivation, ConfigChanges), those who scan an SBOM and who       *)
(* decide what was found (SupplyChain), reviewers of its statements        *)
(* (VexStatements).  In the model the components share nothing, so a       *)
(* behaviour is about one of them, chosen at the start; the others stay in *)
(* their initial states.                                                   *)
(***************************************************************************)
EXTENDS ScheduledJobs, PolicyActivation, ConfigChanges, SupplyChain, VexStatements

CONSTANTS p1, p2, i1, i2, f1, f2, q1, q2, a1, r1, g1, g2, u1, u2, x1, x2, m1, m2, c1, c2, t1, t2, n1, n2, k1, k2, d1, d2

CONSTANTS Jobs, Workers, NoWorker, NoKey, NoJob

ASSUME ContentionAssumption == NoWorker \notin Workers /\ NoJob \notin Jobs

VARIABLES job, receipts, replayed, era, loop, threads, effects, batches  \* of JobWorker
VARIABLE about

\* Every worker renews in time, every second tick of a lease of two.
Worker == INSTANCE JobWorker WITH
    Timely <- TRUE, BeatEvery <- 2, Lease <- 2, Faults <- FALSE, Mortal <- {},
    ImportJobs <- Jobs, ImportsAge <- TRUE, Keys <- {}, Priorities <- {0},
    MaxAttempts <- 2, MaxDelay <- 1, MaxRuns <- 0

\* Both processes run under one id.
SharedId == [p \in Procs |-> i1]

queueAndLoops == <<job, receipts, replayed, era, loop, threads, effects, batches>>
contentionVars ==
    <<about, scheduleVars, queueAndLoops, policyVars, configVars, supplyVars, vexVars>>

ContentionInit ==
    /\ about \in {"the schedule", "the queue", "policies", "the configuration",
                 "candidates", "statements"}
    /\ ScheduleInit /\ Worker!WorkerInit /\ PolicyInit /\ ConfigInit /\ SupplyInit /\ VexInit
    /\ about # "the configuration" => current = x1
    /\ alias = [m \in Matches |-> c1]

\* Every decision within the bound was taken.
AllEnded ==
    /\ about = "candidates" /\ spent.renames + spent.decisions = MaxDecisions
    /\ \A t \in Attempts : attempt[t] = Idle
    /\ \A p \in People : deciding[p] = Idle
    /\ UNCHANGED contentionVars

ContentionNext ==
    \/ AllEnded
    \/ about = "the schedule" /\ ScheduleNext
       /\ UNCHANGED <<about, queueAndLoops, policyVars, configVars, supplyVars, vexVars>>
    \/ about = "the queue" /\ Worker!WorkerNext
       /\ UNCHANGED <<about, scheduleVars, policyVars, configVars, supplyVars, vexVars>>
    \/ about = "policies" /\ PolicyNext
       /\ UNCHANGED <<about, scheduleVars, queueAndLoops, configVars, supplyVars, vexVars>>
    \/ about = "the configuration" /\ ConfigNext
       /\ UNCHANGED <<about, scheduleVars, queueAndLoops, policyVars, supplyVars, vexVars>>
    \/ about = "candidates" /\ SupplyNext
       /\ UNCHANGED <<about, scheduleVars, queueAndLoops, policyVars, configVars, vexVars>>
    \/ about = "statements" /\ VexNext
       /\ UNCHANGED <<about, scheduleVars, queueAndLoops, policyVars, configVars, supplyVars>>

ContentionSpec == ContentionInit /\ [][ContentionNext]_contentionVars

\* Every attempt of a job is executed by one thread at a time.
NoOverlap == Worker!NoOverlap
=============================================================================
