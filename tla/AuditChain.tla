------------------------------ MODULE AuditChain ------------------------------
(***************************************************************************)
(* The audit log of a project (app/repositories/audit.py): a chain of      *)
(* events, each with the hash of the one before it, the row with the       *)
(* chain's anchor and head, signed checkpoints of the head, and retention, *)
(* which removes a prefix of the chain and moves the anchor.  Whoever      *)
(* changes anything audited appends an event in the same transaction.      *)
(* Retention is one of the transactions of a maintenance run               *)
(* (app/services/maintenance.py), which may fail or die between any two.   *)
(*                                                                         *)
(* A hash stands for everything it commits to: it is modelled as the       *)
(* sequence of the times of the events up to its own.                      *)
(***************************************************************************)
EXTENDS Integers, Sequences, FiniteSetsExt

CONSTANTS
    MaxEvents,   \* bound: events written
    MaxPoints,   \* bound: no checkpoint is asked for once there are so many
    MaxClock     \* bound: times, in periods of audit_retention_days

ASSUME AuditAssumption == MaxEvents \in Nat /\ MaxPoints \in Nat /\ MaxClock \in Nat

VARIABLES
    head,         \* audit_chain_state
    events,       \* audit_events
    checkpoints,  \* audit_checkpoints
    pruned,       \* audit_prune_history, in the order of the prunings
    clock,        \* the time on the next event
    upkeep        \* how far the maintenance run is

auditVars == <<head, events, checkpoints, pruned, clock, upkeep>>

Genesis == <<>>
Origin == [anchorSeq |-> 0, anchorHash |-> Genesis, lastSeq |-> 0, lastHash |-> Genesis]
Digest(prev, at) == Append(prev, at)

\* The row add_audit_event inserts, and the head it leaves.
NextRow(h) ==
    [seq |-> h.lastSeq + 1, at |-> clock, prev |-> h.lastHash,
     hash |-> Digest(h.lastHash, clock)]
Extended(h) == [h EXCEPT !.lastSeq = @ + 1, !.lastHash = NextRow(h).hash]

Room == head.lastSeq < MaxEvents

AddEvent ==
    /\ Room
    /\ events' = events \cup {NextRow(head)}
    /\ head' = Extended(head)
    /\ UNCHANGED <<checkpoints, pruned, clock>>

\* By an operator, and at start-up when the head has none with the current key.
CreateCheckpoint ==
    /\ Cardinality(checkpoints) < MaxPoints
    /\ checkpoints' = checkpoints \cup {[seq |-> head.lastSeq, hash |-> head.lastHash]}
    /\ UNCHANGED <<head, events, pruned, clock>>

\* The oldest rows up to the first that is young enough; an old row behind a
\* young one stays.
Prefix(cutoff) == {e \in events : \A d \in events : d.seq <= e.seq => d.at < cutoff}

\* (Operators named ..._M are slips this code could contain.  No definition
\* uses them; they show which property would notice.)
\* The rows are deleted by their age.
PrunePrefix_M(cutoff) ==
    LET prefix == Prefix(cutoff)
        from   == CHOOSE e \in prefix : \A d \in prefix : e.seq <= d.seq
        to     == CHOOSE e \in prefix : \A d \in prefix : d.seq <= e.seq
        moved  == [head EXCEPT !.anchorSeq = to.seq, !.anchorHash = to.hash]
    IN  /\ prefix # {} /\ Room
        /\ to.seq \in head.anchorSeq..head.lastSeq
        /\ checkpoints' = checkpoints \cup {[seq |-> to.seq, hash |-> to.hash]}
        /\ pruned' = Append(pruned, [from |-> from.seq, to |-> to.seq, hash |-> to.hash])
        /\ events' = {e \in events : e.at >= cutoff} \cup {NextRow(moved)}
        /\ head' = Extended(moved)
        /\ UNCHANGED clock

PrunePrefix(cutoff) ==
    LET prefix == Prefix(cutoff)
        from   == CHOOSE e \in prefix : \A d \in prefix : e.seq <= d.seq
        to     == CHOOSE e \in prefix : \A d \in prefix : d.seq <= e.seq
        moved  == [head EXCEPT !.anchorSeq = to.seq, !.anchorHash = to.hash]
    IN  /\ prefix # {} /\ Room
        /\ to.seq \in head.anchorSeq..head.lastSeq
        /\ checkpoints' = checkpoints \cup {[seq |-> to.seq, hash |-> to.hash]}
        /\ pruned' = Append(pruned, [from |-> from.seq, to |-> to.seq, hash |-> to.hash])
        /\ events' = {e \in events : e.seq \notin from.seq..to.seq} \cup {NextRow(moved)}
        /\ head' = Extended(moved)
        /\ UNCHANGED clock

-----------------------------------------------------------------------------
\* Anything audited happens, in a transaction of its own.
Act == AddEvent /\ UNCHANGED upkeep
Checkpoint == CreateCheckpoint /\ UNCHANGED upkeep

\* A maintenance run.  Findings are reopened, requests cancelled and stale
\* findings archived, with an event for each.
Reopen ==
    /\ upkeep = "idle" /\ upkeep' = "reopened"
    /\ AddEvent \/ UNCHANGED <<head, events, checkpoints, pruned, clock>>

PruneStage ==
    /\ upkeep = "reopened" /\ upkeep' = "pruned"
    /\ \/ PrunePrefix(clock)
       \/ Prefix(clock) = {} /\ UNCHANGED <<head, events, checkpoints, pruned, clock>>

\* Batches, webhook events and idempotency records are deleted and the receipts
\* are archived; each commits, and only the archive is reported by an event.
Archive ==
    /\ upkeep = "pruned" /\ upkeep' = "archived"
    /\ AddEvent \/ UNCHANGED <<head, events, checkpoints, pruned, clock>>

MaintenanceEnds == upkeep = "archived" /\ upkeep' = "idle" /\ AddEvent

\* record_maintenance_failure; or the process dies and nothing is recorded.
MaintenanceFails ==
    /\ upkeep # "idle" /\ upkeep' = "idle"
    /\ AddEvent \/ UNCHANGED <<head, events, checkpoints, pruned, clock>>

\* Times are not in the order of the chain: a caller may take the time before it
\* waits for the write lock (config_changes.py:154), and hosts set their clocks.
SetClock ==
    /\ clock' \in (0..MaxClock) \ {clock}
    /\ UNCHANGED <<head, events, checkpoints, pruned, upkeep>>

AuditInit ==
    /\ head = Origin /\ events = {} /\ checkpoints = {} /\ pruned = <<>>
    /\ clock = 0 /\ upkeep = "idle"

AuditNext ==
    \/ Act \/ Checkpoint
    \/ Reopen \/ PruneStage \/ Archive \/ MaintenanceEnds \/ MaintenanceFails
    \/ SetClock

AuditSpec == AuditInit /\ [][AuditNext]_auditVars

-----------------------------------------------------------------------------
\* The row of an event as the head's hash has it.
RowAt(n) ==
    [seq |-> n, at |-> head.lastHash[n], prev |-> SubSeq(head.lastHash, 1, n - 1),
     hash |-> SubSeq(head.lastHash, 1, n)]

\* Every event written is still there, linked, or is covered by the history of
\* prunings, whose ranges follow each other up to the anchor.
Covered ==
    /\ head.anchorHash = SubSeq(head.lastHash, 1, head.anchorSeq)
    /\ \A i \in DOMAIN pruned :
          /\ pruned[i].from = (IF i = 1 THEN 1 ELSE pruned[i - 1].to + 1)
          /\ pruned[i].hash = SubSeq(head.lastHash, 1, pruned[i].to)
    /\ head.anchorSeq = (IF pruned = <<>> THEN 0 ELSE pruned[Len(pruned)].to)

\* The audit log loses nothing silently: the retained rows are exactly those after
\* the anchor, what was pruned is covered, and every checkpoint is of this chain,
\* however appends, prunings, checkpoints and clocks interleave and wherever a
\* maintenance run stops.
ChainWhole ==
    /\ head.lastSeq = Len(head.lastHash)
    /\ events = {RowAt(n) : n \in head.anchorSeq + 1..head.lastSeq}
    /\ Covered
    /\ \A c \in checkpoints : c.hash = SubSeq(head.lastHash, 1, c.seq)
=============================================================================
