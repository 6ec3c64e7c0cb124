------------------------------ MODULE MCProgress ------------------------------
(***************************************************************************)
(* What must go on, for TLC: the job queue under its worker loops, with a  *)
(* worker that dies, faults and abandoned threads; the lease of the        *)
(* scheduler; and the workflow of findings.  They share nothing in the     *)
(* model, so a behaviour is about one of them, chosen at the start: the    *)
(* others stay in their initial states.                                    *)
(***************************************************************************)
EXTENDS JobWorker, FindingWorkflow

CONSTANTS j1, w1, w2, p1, p2, i1, i2, Nobody, NoProc, f1, s1, s2, c1

VARIABLES registry, lease, life, belief, tick, check  \* of SchedulerLeader
VARIABLE about

\* Two processes with an id each: one lives, both are on time.
Scheduler == INSTANCE SchedulerLeader WITH
    Procs <- {p1, p2}, Ids <- {i1, i2}, IdOf <- [p \in {p1, p2} |-> IF p = p2 THEN i2 ELSE i1],
    LeaseTTL <- 2, InstanceTTL <- 2, BeatEvery <- 1, MaxToken <- 4, LastFault <- 1,
    Immortal <- {p1}, Prompt <- {p1, p2}, Timely <- TRUE, Faulty <- {p2}

schedulerVars == <<registry, lease, life, belief, tick, check>>
progressVars == <<about, workerVars, schedulerVars, workflowVars>>

ProgressInit ==
    /\ about \in {"the queue", "the scheduler", "a finding"}
    /\ WorkerInit /\ Scheduler!LeaderInit /\ WorkflowInit

ProgressNext ==
    /\ \/ about = "the queue" /\ WorkerNext /\ UNCHANGED <<schedulerVars, workflowVars>>
       \/ about = "the scheduler" /\ Scheduler!LeaderNext /\ UNCHANGED <<workerVars, workflowVars>>
       \/ about = "a finding" /\ WorkflowNext /\ UNCHANGED <<workerVars, schedulerVars>>
    /\ UNCHANGED about

\* The fairness of the three modules, of each where the behaviour is about it.
QueueFairness ==
    LET It == about = "the queue" IN
    /\ \A w \in Workers : WF_workerVars(It /\ LoopStep(w)) /\ WF_workerVars(It /\ Collect(w))
    /\ WF_workerVars(It /\ \E t \in threads : ThreadStep(t))
    /\ WF_workerVars(It /\ Pass)

SchedulerFairness ==
    LET It == about = "the scheduler" IN
    /\ \A p \in {p1, p2} : /\ WF_schedulerVars(It /\ Scheduler!BeginTick(p))
                           /\ WF_schedulerVars(It /\ Scheduler!TickStep(p))
                           /\ WF_schedulerVars(It /\ Scheduler!Compare(p))
    /\ SF_schedulerVars(It /\ Scheduler!Second)

WorkflowFairness == WF_workflowVars(about = "a finding" /\ Maintain)

ProgressSpec ==
    /\ ProgressInit /\ [][ProgressNext]_progressVars
    /\ QueueFairness /\ SchedulerFairness /\ WorkflowFairness

OnePriority == {0}

LeaderReturns == Scheduler!LeaderReturns
=============================================================================
