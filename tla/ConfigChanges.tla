------------------------------ MODULE ConfigChanges ------------------------------
(***************************************************************************)
(* Changes of the configuration under approval                             *)
(* (app/services/config_changes.py, and the baselines of config_drift.py). *)
(* A change is analysed against the active baseline, decided by somebody   *)
(* else, and becomes the baseline when the running configuration is its    *)
(* target and its window is open.  Baseline and configuration are read     *)
(* before the transactions that use them, and a baseline may also be       *)
(* taken from the running configuration at any time.                       *)
(***************************************************************************)
EXTENDS Integers, Sequences, FiniteSets

CONSTANTS
    Changes,       \* config_change_requests
    Actors,        \* administrators
    Configs,       \* configurations, by config_hash
    NoOne,         \* no administrator
    MaxBaselines   \* bound: baselines

ASSUME ConfigAssumption == NoOne \notin Actors /\ MaxBaselines \in Nat

VARIABLES
    current,    \* the running configuration
    snapshot,   \* of each administrator: the configuration the handler collected
    baselines,  \* config_baselines in the order of creation; the last is ACTIVE
    change,     \* the change requests
    window      \* of each change: where its window is in time

configVars == <<current, snapshot, baselines, change, window>>

\* "drafted": the baseline was read, the row is not inserted yet.
Change == [status : {"none", "drafted", "PENDING", "APPROVED", "REJECTED", "APPLIED"},
           base : Nat, target : Configs, by : Actors \cup {NoOne}, decider : Actors \cup {NoOne}]
NoChange == [status |-> "none", base |-> 0, target |-> CHOOSE x \in Configs : TRUE,
             by |-> NoOne, decider |-> NoOne]

RoomLeft == Len(baselines) < MaxBaselines

\* The active baseline is still the one the change was analysed against.
SameBaseline(c) == change[c].base = Len(baselines)

Reconfigure(x) ==
    /\ x # current /\ current' = x
    /\ UNCHANGED <<snapshot, baselines, change, window>>

\* The handler collects the running configuration.
Collect(u) ==
    /\ snapshot' = [snapshot EXCEPT ![u] = {current}]
    /\ UNCHANGED <<current, baselines, change, window>>

CreateBaseline(u, x) ==
    /\ snapshot[u] = {x} /\ RoomLeft
    /\ baselines # <<>> => baselines[Len(baselines)].config # x
    /\ baselines' = Append(baselines, [config |-> x, by |-> {}])
    /\ snapshot' = [snapshot EXCEPT ![u] = {}]
    /\ UNCHANGED <<current, change, window>>

\* create_change_request reads the active baseline, refuses a window that has ended
\* and computes the impact.
Draft(c, u, x) ==
    /\ change[c].status = "none" /\ baselines # <<>>
    /\ x # baselines[Len(baselines)].config
    /\ change' = [change EXCEPT ![c] =
          [NoChange EXCEPT !.status = "drafted", !.base = Len(baselines),
                           !.target = x, !.by = u]]
    /\ \E state \in {"SCHEDULED", "OPEN"} : window' = [window EXCEPT ![c] = state]
    /\ UNCHANGED <<current, snapshot, baselines>>

\* The transaction looks for a duplicate and not at the baseline again.
Submit(c) ==
    /\ change[c].status = "drafted"
    /\ \A d \in Changes :
          change[d].status \in {"PENDING", "APPROVED"} =>
              change[d].base # change[c].base \/ change[d].target # change[c].target
    /\ change' = [change EXCEPT ![c].status = "PENDING"]
    /\ UNCHANGED <<current, snapshot, baselines, window>>

Refuse(c) ==
    /\ change[c].status = "drafted"
    /\ change' = [change EXCEPT ![c] = NoChange]
    /\ window' = [window EXCEPT ![c] = "SCHEDULED"]
    /\ UNCHANGED <<current, snapshot, baselines>>

\* A rejection, too, needs the baseline and the window.
DecideChange(c, u, decision) ==
    /\ change[c].status = "PENDING" /\ u # change[c].by
    /\ SameBaseline(c) /\ window[c] # "EXPIRED"
    /\ change' = [change EXCEPT ![c].status = decision, ![c].decider = u]
    /\ UNCHANGED <<current, snapshot, baselines, window>>

\* (Operators named ..._M are slips this code could contain.  No definition
\* uses them; they show which property would notice.)
PromoteAnyBaseline_M(c, u) ==
    /\ change[c].status = "APPROVED" /\ window[c] = "OPEN"
    /\ snapshot[u] = {change[c].target} /\ RoomLeft
    /\ baselines' = Append(baselines, [config |-> change[c].target, by |-> {c}])
    /\ change' = [change EXCEPT ![c].status = "APPLIED"]
    /\ snapshot' = [snapshot EXCEPT ![u] = {}]
    /\ UNCHANGED <<current, window>>

Promote(c, u) ==
    /\ change[c].status = "APPROVED" /\ window[c] = "OPEN"
    /\ snapshot[u] = {change[c].target} /\ SameBaseline(c) /\ RoomLeft
    /\ baselines' = Append(baselines, [config |-> change[c].target, by |-> {c}])
    /\ change' = [change EXCEPT ![c].status = "APPLIED"]
    /\ snapshot' = [snapshot EXCEPT ![u] = {}]
    /\ UNCHANGED <<current, window>>

\* The request's own window opens and ends, as long as that matters to it.
TimePasses(c) ==
    /\ window[c] # "EXPIRED" /\ change[c].status \in {"drafted", "PENDING", "APPROVED"}
    /\ window' = [window EXCEPT ![c] = IF @ = "SCHEDULED" THEN "OPEN" ELSE "EXPIRED"]
    /\ UNCHANGED <<current, snapshot, baselines, change>>

ConfigInit ==
    /\ current \in Configs
    /\ snapshot = [u \in Actors |-> {}] /\ baselines = <<>>
    /\ change = [c \in Changes |-> NoChange]
    /\ window = [c \in Changes |-> "SCHEDULED"]

ConfigNext ==
    \/ \E x \in Configs : Reconfigure(x)
    \/ \E u \in Actors : Collect(u) \/ \E x \in Configs : CreateBaseline(u, x)
    \/ \E c \in Changes : Submit(c) \/ Refuse(c) \/ TimePasses(c)
    \/ \E c \in Changes, u \in Actors :
          \/ \E x \in Configs : Draft(c, u, x)
          \/ \E d \in {"APPROVED", "REJECTED"} : DecideChange(c, u, d)
          \/ Promote(c, u)

ConfigSpec == ConfigInit /\ [][ConfigNext]_configVars

-----------------------------------------------------------------------------
\* Whoever approved it looked at the very step that was taken: the baseline a
\* change installs is its target, follows at once the baseline its impact was
\* analysed against, and was approved by somebody other than its author; and an
\* applied change installed one baseline.
AppliedIsGoverned ==
    /\ \A n \in DOMAIN baselines : \A c \in baselines[n].by :
          /\ change[c].status = "APPLIED" /\ change[c].target = baselines[n].config
          /\ change[c].base = n - 1
          /\ change[c].decider \in Actors \ {change[c].by}
    /\ \A c \in Changes : change[c].status = "APPLIED" =>
          Cardinality({n \in DOMAIN baselines : c \in baselines[n].by}) = 1
=============================================================================
