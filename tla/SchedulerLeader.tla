--------------------------- MODULE SchedulerLeader ---------------------------
(***************************************************************************)
(* The instance registry and the scheduler:singleton lease: registration   *)
(* and election in coordination_tick, the checks of                        *)
(* cluster_leadership.py before a scheduled job is produced, start, stop   *)
(* and death of processes (app/services/lifecycle_runtime.py,              *)
(* app/repositories/cluster.py).  age is now - last_heartbeat_at of an      *)
(* ACTIVE row, as far as it matters.                                       *)
(*                                                                         *)
(* A process is one run of the program (a hostname and a PID): it starts   *)
(* once, and a restart is another process with the same id.  The steps of  *)
(* coordination_tick are transactions of their own, in a thread that goes  *)
(* on while its process is being stopped.                                  *)
(***************************************************************************)
EXTENDS ClusterLease

CONSTANTS
    Procs,        \* processes
    Ids,          \* instance ids
    IdOf,         \* INSTANCE_ID of each process
    LeaseTTL,     \* SCHEDULER_LEASE_SECONDS
    InstanceTTL,  \* INSTANCE_TTL_SECONDS
    BeatEvery,    \* INSTANCE_HEARTBEAT_SECONDS
    MaxToken,     \* bound: changes of the lease's owner
    Immortal,     \* processes that are neither stopped nor killed
    Prompt,       \* processes whose heartbeats are on time
    Timely,       \* whether a tick acquires in the second it registered in
    Faulty,       \* processes whose ticks may fail for another reason
    LastFault,    \* bound: the last token under which they fail
    NoProc        \* the process of an id that was never registered

ASSUME LeaderAssumption ==
    /\ IdOf \in [Procs -> Ids] /\ Nobody \notin Ids /\ NoProc \notin Procs
    /\ LeaseTTL \in Nat \ {0} /\ InstanceTTL \in Nat \ {0} /\ MaxToken \in Nat
    /\ BeatEvery \in Nat \ {0}
    /\ Immortal \subseteq Procs /\ Prompt \subseteq Procs /\ Faulty \subseteq Procs
    /\ Timely \in BOOLEAN /\ LastFault \in Nat

VARIABLES
    registry,  \* the cluster_instances row of each id
    lease,     \* the scheduler:singleton row
    life,      \* where each process is in its life
    belief,    \* coordination_state: is_leader and scheduler_token (0: None)
    tick,      \* the next step of each process's coordination_tick
    check      \* the leadership check each process is making: what it read

leaderVars == <<registry, lease, life, belief, tick, check>>

NoCheck == -1

Life == {"new", "starting", "up", "stopping", "deregistering", "stopped", "dead"}

Unbelief == [leader |-> FALSE, token |-> 0]

-----------------------------------------------------------------------------
(* coordination_tick *)

\* The first tick runs before the process serves anything.
Start(p) ==
    /\ life[p] = "new"
    /\ life' = [life EXCEPT ![p] = "starting"]
    /\ tick' = [tick EXCEPT ![p] = "prune"]
    /\ UNCHANGED <<registry, lease, belief, check>>

BeginTick(p) ==
    /\ life[p] = "up" /\ tick[p] = "idle"
    /\ tick' = [tick EXCEPT ![p] = "prune"]
    /\ UNCHANGED <<registry, lease, life, belief, check>>

\* prune_stale_cluster_instances
Prune(p) ==
    /\ tick[p] = "prune"
    /\ registry' = [id \in Ids |->
          IF registry[id].status = "ACTIVE" /\ registry[id].age > InstanceTTL
          THEN [registry[id] EXCEPT !.status = "STALE", !.age = 0] ELSE registry[id]]
    /\ tick' = [tick EXCEPT ![p] = "register"]
    /\ UNCHANGED <<lease, life, belief, check>>

\* A tick that raises: a process that was starting does not start, and the
\* loop of one that is up sleeps before it tries again.
Abort(p) ==
    /\ tick' = [tick EXCEPT ![p] = "asleep"]
    /\ life' = [life EXCEPT ![p] = IF @ = "starting" THEN "dead" ELSE @]
    /\ belief' = [belief EXCEPT ![p].leader = FALSE]
    /\ UNCHANGED <<registry, lease, check>>

\* The id is registered by another process and not yet stale.
Taken(p) == registry[IdOf[p]].status = "ACTIVE" /\ registry[IdOf[p]].proc # p

Enter(p) ==
    /\ registry' = [registry EXCEPT ![IdOf[p]] = [status |-> "ACTIVE", proc |-> p, age |-> 0]]
    /\ tick' = [tick EXCEPT ![p] = "acquire"]
    /\ UNCHANGED <<lease, life, belief, check>>

\* (Operators named ..._M are slips this code could contain.  No definition
\* uses them; they show which property would notice.)
RegisterUnchecked_M(p) == tick[p] = "register" /\ Enter(p)

\* register_cluster_instance
Register(p) ==
    /\ tick[p] = "register"
    /\ IF Taken(p) THEN Abort(p) ELSE Enter(p)

\* acquire_cluster_lease, and the new belief.  (A check that compares between
\* the two finds what it would have found before them.)
Acquire(p) ==
    /\ tick[p] = "acquire"
    /\ IF Acquirable(lease, IdOf[p])
       THEN /\ lease' = Acquired(lease, IdOf[p], LeaseTTL)
            /\ lease'.token <= MaxToken
            /\ belief' = [belief EXCEPT ![p] = [leader |-> TRUE, token |-> lease'.token]]
       ELSE /\ belief' = [belief EXCEPT ![p] = Unbelief]
            /\ UNCHANGED lease
    /\ tick' = [tick EXCEPT ![p] = "idle"]
    /\ life' = [life EXCEPT ![p] = IF @ = "starting" THEN "up" ELSE @]
    /\ UNCHANGED <<registry, check>>

\* p's registration is recent enough for p to sleep once more.
InTime(p) ==
    life[p] = "up" /\ registry[IdOf[p]].proc = p => registry[IdOf[p]].age < BeatEvery

TickFails(p) ==
    /\ lease.token <= LastFault
    /\ p \in Faulty /\ tick[p] \notin {"idle", "asleep"}
    /\ p \in Prompt => InTime(p)
    /\ Abort(p)

TickStep(p) == Prune(p) \/ Register(p) \/ Acquire(p)

-----------------------------------------------------------------------------
(* LifecycleSupervisor.stop *)

Goto(p, where) == life' = [life EXCEPT ![p] = where]

Stop(p) ==
    /\ life[p] = "up" /\ p \notin Immortal
    /\ Goto(p, "stopping")
    /\ UNCHANGED <<registry, lease, belief, tick, check>>

StopRelease(p) ==
    /\ life[p] = "stopping"
    /\ lease' = IF belief[p].token = 0 THEN lease
                ELSE Released(lease, IdOf[p], belief[p].token)
    /\ Goto(p, "deregistering")
    /\ UNCHANGED <<registry, belief, tick, check>>

\* deregister_cluster_instance, whichever process the row shows.
StopDeregister(p) ==
    /\ life[p] = "deregistering"
    /\ registry' = [registry EXCEPT ![IdOf[p]] =
          IF @.status = "NONE" THEN @ ELSE [@ EXCEPT !.status = "STOPPED", !.age = 0]]
    /\ belief' = [belief EXCEPT ![p] = Unbelief]
    /\ Goto(p, "stopped")
    /\ UNCHANGED <<lease, tick, check>>

\* The process dies, or exits once its threads have ended.
Die(p) ==
    /\ \/ life[p] \in Life \ {"new", "dead"} /\ p \notin Immortal
       \/ life[p] = "stopped" /\ tick[p] \in {"idle", "asleep"}
    /\ Goto(p, "dead")
    /\ tick' = [tick EXCEPT ![p] = "idle"]
    /\ belief' = [belief EXCEPT ![p] = Unbelief]
    /\ check' = [check EXCEPT ![p] = NoCheck]
    /\ UNCHANGED <<registry, lease>>

-----------------------------------------------------------------------------
(* is_scheduler_leader *)

\* Read the active lease: its token if this instance holds it, else 0.  The
\* schedules check, and so does every snapshot of the cluster.
CheckLease(p) ==
    /\ life[p] = "up" /\ check[p] = NoCheck
    /\ check' = [check EXCEPT ![p] =
          IF Active(lease) /\ lease.holder = IdOf[p] THEN lease.token ELSE 0]
    /\ UNCHANGED <<registry, lease, life, belief, tick>>

Verified(p) == belief[p].leader /\ check[p] # 0 /\ check[p] = belief[p].token

\* verify_scheduler_leadership: believe nothing that the row read does not show.
Compare(p) ==
    /\ check[p] # NoCheck
    /\ check' = [check EXCEPT ![p] = NoCheck]
    /\ belief' = IF Verified(p) THEN belief ELSE [belief EXCEPT ![p] = Unbelief]
    /\ UNCHANGED <<registry, lease, life, tick>>

-----------------------------------------------------------------------------
\* A second passes.
Second ==
    /\ \A p \in Prompt : InTime(p)
    /\ Timely => \A p \in Procs : tick[p] # "acquire"
    /\ registry' = [id \in Ids |-> [registry[id] EXCEPT
          !.age = IF registry[id].status = "ACTIVE" /\ @ <= InstanceTTL THEN @ + 1 ELSE @]]
    /\ lease' = Aged(lease)
    /\ tick' = [p \in Procs |-> IF tick[p] = "asleep" THEN "idle" ELSE tick[p]]
    /\ UNCHANGED <<life, belief, check>>

LeaderInit ==
    /\ registry = [id \in Ids |-> [status |-> "NONE", proc |-> NoProc, age |-> 0]]
    /\ lease = NoLease
    /\ life = [p \in Procs |-> "new"]
    /\ belief = [p \in Procs |-> Unbelief]
    /\ tick = [p \in Procs |-> "idle"]
    /\ check = [p \in Procs |-> NoCheck]

\* What a process does besides checking its leadership.
ProcessStep(p) ==
    \/ Start(p) \/ BeginTick(p) \/ TickStep(p) \/ TickFails(p)
    \/ Stop(p) \/ StopRelease(p) \/ StopDeregister(p) \/ Die(p)

LeaderNext ==
    \/ \E p \in Procs : ProcessStep(p) \/ CheckLease(p) \/ Compare(p)
    \/ Second

LeaderSpec == LeaderInit /\ [][LeaderNext]_leaderVars

\* A live process keeps running its coordination loop and the checks it began,
\* and time goes on however much happens in a second.  Nothing makes a process
\* start, stop, die or look.
LeaderFairness ==
    /\ \A p \in Procs : /\ WF_leaderVars(BeginTick(p)) /\ WF_leaderVars(TickStep(p))
                        /\ WF_leaderVars(Compare(p))
    /\ SF_leaderVars(Second)

-----------------------------------------------------------------------------
(* Properties. *)

\* Fencing across ids: two processes that believe to lead under one token have
\* one instance id, however late their ticks are.
FencedAcrossIds ==
    \A p, q \in Procs :
        belief[p].leader /\ belief[q].leader /\ belief[p].token = belief[q].token
            => IdOf[p] = IdOf[q]

\* A check p makes now succeeds.
Leads(p) ==
    /\ life[p] = "up" /\ belief[p].leader
    /\ Active(lease) /\ lease.holder = IdOf[p] /\ lease.token = belief[p].token

\* No split brain: at most one running process would pass the check, even when
\* a suspended process wakes up after another took its id over.
OneLeader == \A p, q \in Procs : Leads(p) /\ Leads(q) => p = q

\* While a process that does not die is up, the cluster gets a leader again
\* whenever it has none.
LeaderReturns ==
    []<>((\E p \in Immortal : life[p] = "up") => \E p \in Procs : Leads(p))
=============================================================================
