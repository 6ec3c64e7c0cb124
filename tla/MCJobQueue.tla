----------------------------- MODULE MCJobQueue -----------------------------
(* JobQueue for TLC: the table under arbitrary callers, and its refinement. *)
EXTENDS JobQueue, TLC

CONSTANTS j1, j2, w1, w2, k1

OnePriority == {0}

\* A behaviour is about one job with every caller, or about two jobs that may
\* share a dedupe key, of one worker and without the repetitions one job shows.
VARIABLE shown

Within(limit) == \A j \in Jobs : /\ job[j].attempts <= limit /\ job[j].run <= limit
                                  /\ job[j].owner # w2

Bounded ==
    IF shown = "one job" THEN job[j2].status = "NEW" ELSE Within(1)

TableInit == shown \in {"one job", "two jobs"} /\ QueueInit

TableNext == QueueNext /\ UNCHANGED shown /\ Bounded'

TableSpec == TableInit /\ [][TableNext]_<<queueVars, shown>>
=============================================================================
