----------------------------- MODULE JobWorker ------------------------------
(***************************************************************************)
(* The worker loops over the job queue (app/services/                      *)
(* job_worker_runtime.py) and the handler threads they start (app/         *)
(* services/job_dispatch.py).  A loop claims one job, runs its handler in  *)
(* a thread, renews the lease while it waits, and settles the job.  When a *)
(* renewal fails the loop gives the job up, but nothing can stop the       *)
(* thread: it runs on, with the same worker id, beside whatever its loop   *)
(* claims next.                                                            *)
(***************************************************************************)
EXTENDS JobQueue

CONSTANTS
    Mortal,      \* workers whose process may crash or be shut down
    ImportJobs,  \* jobs whose effect carries a unique source_job_id
    Faults,      \* whether a database call may fail transiently
    ImportsAge,  \* whether IMPORT_RETENTION_DAYS deletes old import batches
    Timely,      \* whether renewals happen on time (FALSE: no timing at all)
    BeatEvery,   \* _lease_heartbeat_interval, in ticks
    NoJob        \* a loop that holds no job

ASSUME WorkerAssumption ==
    /\ Mortal \subseteq Workers /\ ImportJobs \subseteq Jobs
    /\ Faults \in BOOLEAN /\ Timely \in BOOLEAN /\ ImportsAge \in BOOLEAN
    /\ BeatEvery \in Nat \ {0} /\ BeatEvery <= Lease
    /\ NoJob \notin Jobs

VARIABLES
    loop,     \* each worker's loop: the attempt it claimed and where it is, "idle",
              \* "exec" (awaiting the thread), "completing", "failing" or "dead"
    threads,  \* running handler threads, the abandoned ones included
    effects,  \* history: how often the effect of each job was committed
    batches   \* import jobs whose import_batches row exists

workerVars == <<job, receipts, replayed, era, loop, threads, effects, batches>>

\* A loop between two jobs, or one that has ended, remembers nothing.
Free(pc) == [pc |-> pc, job |-> NoJob, run |-> 0, attempt |-> 0,
             retryable |-> FALSE, since |-> 0]

Leave(w, pc) == loop' = [loop EXCEPT ![w] = Free(pc)]
Failing(w, r) == loop' = [loop EXCEPT ![w].pc = "failing", ![w].retryable = r]

\* The thread w's loop is waiting for.
Current(t) == /\ loop[t.w].pc = "exec" /\ loop[t.w].job = t.j
              /\ loop[t.w].run = t.run /\ loop[t.w].attempt = t.attempt

Ended(t) == t.phase \in {"ok", "raised"}

-----------------------------------------------------------------------------
(* The loop. *)

\* Claim a job and start its handler with asyncio.to_thread.
Take(w, j) ==
    /\ loop[w].pc = "idle"
    /\ Claim(w, j)
    /\ loop' = [loop EXCEPT ![w] = [pc |-> "exec", job |-> j, run |-> job[j].run,
                  attempt |-> job'[j].attempts, retryable |-> FALSE, since |-> 0]]
    /\ threads' = threads \cup {[w |-> w, j |-> j, run |-> job[j].run,
                                 attempt |-> job'[j].attempts, phase |-> "begin"]}
    /\ UNCHANGED <<effects, batches>>

Poll(w) ==
    /\ loop[w].pc = "idle"
    /\ ClaimNothing
    /\ UNCHANGED <<loop, threads, effects, batches>>

\* The renewal while waiting; it succeeds only for the owner.
Beat(w) ==
    /\ loop[w].pc = "exec"
    /\ Heartbeat(w, loop[w].job)
    /\ loop' = [loop EXCEPT ![w].since = 0]
    /\ UNCHANGED <<threads, effects, batches>>

\* The renewal raises: the job is no longer ours, or the database call failed.
\* The loop stops waiting; the thread is not stopped.
LoseBeat(w) ==
    /\ loop[w].pc = "exec"
    /\ Faults \/ ~Owns(w, loop[w].job)
    /\ Failing(w, TRUE)
    /\ UNCHANGED <<queueVars, threads, effects, batches>>

\* The awaited thread has ended: take its result or its exception.
Collect(w) ==
    \E t \in threads :
        /\ t.w = w /\ Current(t) /\ Ended(t)
        /\ threads' = threads \ {t}
        /\ IF t.phase = "ok" THEN loop' = [loop EXCEPT ![w].pc = "completing"]
           ELSE \E r \in BOOLEAN : Failing(w, r)
        /\ UNCHANGED <<queueVars, effects, batches>>

Finish(w) ==
    /\ loop[w].pc = "completing"
    /\ \/ Complete(w, loop[w].job) /\ Leave(w, "idle")
       \/ /\ Faults \/ ~Owns(w, loop[w].job)
          /\ Failing(w, TRUE)
          /\ UNCHANGED queueVars
    /\ UNCHANGED <<threads, effects, batches>>

\* Record the failure.  A refused or failed call leaves the job as it is, and
\* the loop goes on to its next claim.
GiveUp(w) ==
    /\ loop[w].pc = "failing"
    /\ \/ Fail(w, loop[w].job, loop[w].retryable)
       \/ (Faults \/ ~Owns(w, loop[w].job)) /\ UNCHANGED queueVars
    /\ Leave(w, "idle")
    /\ UNCHANGED <<threads, effects, batches>>

\* The process dies, its threads with it.
Crash(w) ==
    /\ w \in Mortal /\ loop[w].pc # "dead"
    /\ Leave(w, "dead")
    /\ threads' = {t \in threads : t.w # w}
    /\ UNCHANGED <<queueVars, effects, batches>>

\* Shutdown cancels the loop's task; the thread runs to its end.
Shutdown(w) ==
    /\ w \in Mortal /\ loop[w].pc # "dead"
    /\ Leave(w, "dead")
    /\ UNCHANGED <<queueVars, threads, effects, batches>>

-----------------------------------------------------------------------------
(* The handler thread: execute_background_job. *)

Advance(t, ph) == threads' = (threads \ {t}) \cup {[t EXCEPT !.phase = ph]}

\* Its first and its last call renew the lease, or raise.
Renew(t) ==
    /\ t.phase \in {"begin", "wrap"}
    /\ \/ /\ Heartbeat(t.w, t.j)
          /\ Advance(t, IF t.phase = "begin" THEN "check" ELSE "ok")
       \/ /\ ~Owns(t.w, t.j)
          /\ Advance(t, "raised")
          /\ UNCHANGED queueVars
    /\ UNCHANGED <<loop, effects, batches>>

Applied(j) == j \in batches

Effect(j) ==
    /\ effects' = [effects EXCEPT ![j] = @ + 1]
    /\ batches' = batches \cup (ImportJobs \cap {j})

\* apply_import_batch looks its batch up before it opens the transaction.
LookUp(t) ==
    /\ t.phase = "check"
    /\ Advance(t, IF Applied(t.j) THEN "wrap" ELSE "apply")
    /\ UNCHANGED <<queueVars, loop, effects, batches>>

\* (Operators named ..._M are slips this code could contain.  No definition
\* uses them; they show which property would notice.)
ApplyUnindexed_M(t) ==
    /\ t.phase = "apply"
    /\ Effect(t.j)
    /\ Advance(t, "wrap")
    /\ UNCHANGED <<queueVars, loop>>

\* The transaction with the job's effect; the unique index on source_job_id
\* refuses a second import batch.
Apply(t) ==
    /\ t.phase = "apply"
    /\ ~Applied(t.j)
    /\ Effect(t.j)
    /\ Advance(t, "wrap")
    /\ UNCHANGED <<queueVars, loop>>

\* Any step of the handler may raise instead.
Raise(t) ==
    /\ ~Ended(t)
    /\ Advance(t, "raised")
    /\ UNCHANGED <<queueVars, loop, effects, batches>>

\* The end of a thread nobody waits for.
Discard(t) ==
    /\ Ended(t) /\ ~Current(t)
    /\ threads' = threads \ {t}
    /\ UNCHANGED <<queueVars, loop, effects, batches>>

ThreadStep(t) == Renew(t) \/ LookUp(t) \/ Apply(t) \/ Raise(t) \/ Discard(t)

-----------------------------------------------------------------------------
\* run_maintenance deletes import batches of before the cutoff.  It is days ago:
\* the jobs they belong to have long been settled and their threads have ended.
PurgeImports(old) ==
    /\ ImportsAge /\ old # {}
    /\ \A j \in old : job[j].status \notin Active /\ \A t \in threads : t.j # j
    /\ batches' = batches \ old
    /\ UNCHANGED <<queueVars, loop, threads, effects>>

WorkerInit ==
    /\ QueueInit
    /\ loop = [w \in Workers |-> Free("idle")]
    /\ threads = {}
    /\ effects = [j \in Jobs |-> 0]
    /\ batches = {}

LoopStep(w) ==
    \/ \E j \in Jobs : Take(w, j)
    \/ Poll(w) \/ Beat(w) \/ LoseBeat(w) \/ Collect(w) \/ Finish(w) \/ GiveUp(w)

\* With Timely, no more than BeatEvery ticks pass between two renewals.
Pass ==
    /\ Tick
    /\ Timely => \A w \in Workers : loop[w].pc = "exec" => loop[w].since < BeatEvery
    /\ loop' = [w \in Workers |-> IF Timely /\ loop[w].pc = "exec"
                                  THEN [loop[w] EXCEPT !.since = @ + 1] ELSE loop[w]]
    /\ UNCHANGED <<threads, effects, batches>>

Client == ClientNext /\ UNCHANGED <<loop, threads, effects, batches>>

WorkerNext ==
    \/ Client
    \/ \E w \in Workers : LoopStep(w) \/ Crash(w) \/ Shutdown(w)
    \/ \E t \in threads : ThreadStep(t)
    \/ \E old \in SUBSET batches : PurgeImports(old)
    \/ Pass

WorkerSpec == WorkerInit /\ [][WorkerNext]_workerVars

\* The event loop keeps scheduling every loop, asyncio.wait returns once the
\* thread has ended, a thread that can run does, and the clock advances.  No
\* fairness is assumed of clients, of faults or of retention.
Fairness ==
    /\ \A w \in Workers : WF_workerVars(LoopStep(w)) /\ WF_workerVars(Collect(w))
    /\ WF_workerVars(\E t \in threads : ThreadStep(t))
    /\ WF_workerVars(Pass)

FairWorkerSpec == WorkerSpec /\ Fairness

-----------------------------------------------------------------------------
(* Properties. *)

\* Whoever settles an attempt is the loop that claimed this very attempt.  The
\* table compares worker ids, not attempts: a late completion or failure of an
\* attempt that was taken back must change nothing although its thread has ended
\* well, its worker may own the job again, and abandoned threads of that worker
\* may have renewed the lease in between.
SettledAsClaimed ==
    [][\A j \in Jobs : \A n \in DOMAIN receipts'[j] \ DOMAIN receipts[j] :
          LET r == receipts'[j][n]
          IN  r.by # NoWorker => /\ loop[r.by].job = j
                                 /\ loop[r.by].run = r.run
                                 /\ loop[r.by].attempt = r.attempt]_workerVars

\* docs/17_BACKGROUND_JOBS.md: a CSV import is applied once however often its
\* job is run, and by however many threads at a time.
ImportAppliedOnce == \A j \in ImportJobs : effects[j] <= 1

\* While renewals are on time no job is executed by two threads
\* (docs/135_LONG_RUNNING_JOB_LEASE_HEARTBEAT.md).
NoOverlap ==
    \A s, t \in threads : s.j = t.j => s = t

\* Every submitted job is settled in the end as long as one worker lives: no job
\* stays queued or running for ever.
EverySubmittedJobSettles == \A j \in Jobs : []<>(job[j].status \notin Active)
=============================================================================
