---------------------------- MODULE JobLifecycle ----------------------------
(***************************************************************************)
(* What the job queue promises about each job, without leases, timers,     *)
(* receipts or workers: the state diagram of docs/17_BACKGROUND_JOBS.md    *)
(* with the attempts a job has spent.  JobQueue implements it.             *)
(***************************************************************************)
EXTENDS Naturals

CONSTANTS Jobs, MaxAttempts

VARIABLES phase, spent

vars == <<phase, spent>>

Done == {"SUCCEEDED", "FAILED", "CANCELLED"}

Init ==
    /\ phase = [j \in Jobs |-> "NEW"]
    /\ spent = [j \in Jobs |-> 0]

Same(j) == phase'[j] = phase[j] /\ spent'[j] = spent[j]

Becomes(j, p, n) == phase'[j] = p /\ spent'[j] = n

\* A client submits a job, or an operator reopens a dead one.
Submit(j) == phase[j] \in {"NEW", "FAILED", "CANCELLED"} /\ Becomes(j, "QUEUED", 0)

\* An execution begins: the queued job, or one whose last execution was lost.
Start(j) ==
    /\ phase[j] \in {"QUEUED", "RUNNING"}
    /\ spent[j] < MaxAttempts
    /\ Becomes(j, "RUNNING", spent[j] + 1)

Settle(j) ==
    \/ phase[j] = "RUNNING" /\ \E p \in Done : Becomes(j, p, spent[j])
    \/ /\ phase[j] = "RUNNING" /\ spent[j] < MaxAttempts
       /\ Becomes(j, "QUEUED", spent[j])
    \/ phase[j] = "QUEUED" /\ Becomes(j, "CANCELLED", spent[j])

Forget(j) == phase[j] \in Done /\ Becomes(j, "GONE", 0)

\* Settling may sweep several jobs at once; at most one execution begins.
Next ==
    /\ phase' = [j \in Jobs |-> phase'[j]] /\ spent' = [j \in Jobs |-> spent'[j]]
    /\ \A j \in Jobs : Same(j) \/ Submit(j) \/ Start(j) \/ Settle(j) \/ Forget(j)
    /\ \A i, j \in Jobs : Start(i) /\ Start(j) => i = j

Spec == Init /\ [][Next]_vars
=============================================================================
