---------------------------- MODULE WebhookOutbox ----------------------------
(***************************************************************************)
(* The webhook outbox: the webhook_events table with its dead letters      *)
(* (app/repositories/webhook_queue.py, webhook_delivery.py, the webhook    *)
(* branches of execution_receipts.py and maintenance.py), and the threads  *)
(* that run deliver_due_events (app/services/webhooks.py): the job of a    *)
(* time bucket, an administrator's request, or the abandoned thread of a   *)
(* job that lost its lease.  Each repository function is one               *)
(* write_transaction; the HTTP requests are made between them.             *)
(*                                                                         *)
(* age is now - last_attempt_at of a SENDING event, as far as it matters,  *)
(* and wait is next_attempt_at - now.                                      *)
(***************************************************************************)
EXTENDS Integers, FiniteSets

CONSTANTS
    Events,       \* event identifiers (uuids: never reused)
    Callers,      \* threads that run deliver_due_events
    Limit,        \* events one call claims
    MaxAttempts,  \* WEBHOOK_MAX_ATTEMPTS
    Lease,        \* lease_seconds of a claim
    Timeout,      \* longest HTTP request of a timely caller
    MaxDelay,     \* longest retry delay
    MaxRuns,      \* bound: manual retries of one event
    MaxLosses,    \* bound: batches that are abandoned
    PunctualCallers,  \* whether callers keep to Timeout and lose no other time
    NoEvent       \* what an idle caller is working on

ASSUME OutboxAssumption ==
    /\ IsFiniteSet(Events)
    /\ Limit \in Nat \ {0} /\ MaxAttempts \in Nat \ {0} /\ Lease \in Nat \ {0}
    /\ Timeout \in Nat \ {0} /\ MaxDelay \in Nat \ {0}
    /\ MaxRuns \in Nat /\ MaxLosses \in Nat
    /\ PunctualCallers \in BOOLEAN /\ NoEvent \notin Events

VARIABLES
    event,    \* the table: a row per identifier
    letters,  \* FAILED receipts of each event that were not replayed
    era,      \* created_at of the latest insert; equal within one second
    caller,   \* the batch of each caller and the event it is working on
    losses,   \* batches abandoned so far
    overrun   \* history: events whose lease ran out while their caller had them

outboxVars == <<event, letters, era, caller, losses, overrun>>

Waiting == {"PENDING", "RETRY"}
Settled == {"DELIVERED", "FAILED"}

\* "NEW": not inserted yet; "GONE": deleted by retention.
EventRow == [status : Waiting \cup Settled \cup {"NEW", "SENDING", "GONE"},
             attempts : Nat, wait : 0..MaxDelay, age : 0..Lease + 1,
             born : Nat, run : 0..MaxRuns]  \* run: history, the manual retries so far

Blank == [status |-> "NEW", attempts |-> 0, wait |-> 0, age |-> 0, born |-> 0, run |-> 0]

\* at: the event in hand; answer: "none" while its request is under way.
CallerRow == [todo : SUBSET Events, at : Events \cup {NoEvent}, clock : Nat,
              answer : {"none", "ok", "retry", "fail"}]

Idle == [todo |-> {}, at |-> NoEvent, clock |-> 0, answer |-> "none"]

OutboxTypeOK ==
    /\ event \in [Events -> EventRow]
    /\ letters \in [Events -> Nat]
    /\ era \in Nat
    /\ caller \in [Callers -> CallerRow]
    /\ losses \in 0..MaxLosses
    /\ overrun \subseteq Events
    /\ \A c \in Callers : caller[c].at \notin caller[c].todo

-----------------------------------------------------------------------------
(* The table. *)

\* INSERT of a fresh row; created_at has one-second resolution.
Insert(e) ==
    /\ event[e].status = "NEW"
    /\ \E d \in {0, 1} :
        /\ era' = era + d
        /\ event' = [event EXCEPT ![e] = [Blank EXCEPT !.status = "PENDING", !.born = era + d]]

\* enqueue_webhook_events, one endpoint.
Enqueue(e) == Insert(e) /\ UNCHANGED <<letters, caller, losses, overrun>>

\* (Operators named ..._M are slips this code could contain.  No definition
\* uses them; they show which property would notice.)
ExpiredNever_M(r) == FALSE
ExpiredEarly_M(r) == r.status = "SENDING" /\ r.age >= Lease

\* last_attempt_at < lease_cutoff, strictly.
LeaseExpired(r) == r.status = "SENDING" /\ r.age > Lease

\* The first UPDATE of list_due_webhook_events.
Reaped == [e \in Events |->
    IF LeaseExpired(event[e]) THEN [event[e] EXCEPT !.status = "RETRY", !.wait = 0, !.age = 0]
    ELSE event[e]]

Due == {e \in Events : Reaped[e].status \in Waiting /\ Reaped[e].wait = 0}

\* The oldest due events, at most Limit of them; ties are broken either way.
Batches == {S \in SUBSET Due :
    /\ Cardinality(S) = IF Cardinality(Due) <= Limit THEN Cardinality(Due) ELSE Limit
    /\ \A e \in S, f \in Due \ S : event[e].born <= event[f].born}

\* list_due_webhook_events; attempts are counted later, by Record.
ListDue(c) ==
    /\ caller[c] = Idle
    /\ \E S \in Batches \ {{}} :
        /\ event' = [e \in Events |->
              IF e \in S THEN [Reaped[e] EXCEPT !.status = "SENDING", !.age = 0] ELSE Reaped[e]]
        /\ caller' = [caller EXCEPT ![c].todo = S]
    /\ UNCHANGED <<letters, era, losses, overrun>>

\* The new status in record_webhook_delivery, by RetryPolicy.decide.
Decision(attempts, answer) ==
    IF answer = "ok" THEN "DELIVERED"
    ELSE IF answer = "retry" /\ attempts < MaxAttempts THEN "RETRY" ELSE "FAILED"

Reset(r) == [r EXCEPT !.status = "PENDING", !.attempts = 0, !.wait = 0, !.age = 0, !.run = @ + 1]

ManualRetrySending_M(e) ==
    /\ event[e].status \in {"FAILED", "RETRY", "SENDING"} /\ event[e].run < MaxRuns
    /\ event' = [event EXCEPT ![e] = Reset(@)]
    /\ UNCHANGED <<letters, era, caller, losses, overrun>>

\* retry_webhook_event
ManualRetry(e) ==
    /\ event[e].status \in {"FAILED", "RETRY"} /\ event[e].run < MaxRuns
    /\ event' = [event EXCEPT ![e] = Reset(@)]
    /\ UNCHANGED <<letters, era, caller, losses, overrun>>

\* replay_execution_receipt, webhook branch: a new event f for a dead letter of e.
Replay(e, f) ==
    /\ letters[e] > 0 /\ event[e].status = "FAILED"
    /\ Insert(f)
    /\ letters' = [letters EXCEPT ![e] = @ - 1]
    /\ UNCHANGED <<caller, losses, overrun>>

Purgeable(e) ==
    \/ event[e].status = "DELIVERED"
    \/ event[e].status = "FAILED" /\ letters[e] = 0

\* purge_operational_history; old is the set of events last touched before the cutoff.
Purge(old) ==
    /\ \E e \in old : Purgeable(e)
    /\ event' = [e \in Events |-> IF e \in old /\ Purgeable(e)
                                  THEN [Blank EXCEPT !.status = "GONE"] ELSE event[e]]
    /\ UNCHANGED <<letters, era, caller, losses, overrun>>

-----------------------------------------------------------------------------
(* deliver_due_events, one event of the batch after the other. *)

\* The batch is in the order of created_at.
Oldest(c, e) ==
    /\ caller[c].at = NoEvent /\ e \in caller[c].todo
    /\ \A f \in caller[c].todo : event[e].born <= event[f].born

Takes(c, e, answer) ==
    /\ caller' = [caller EXCEPT ![c] =
          [todo |-> @.todo \ {e}, at |-> e, clock |-> 0, answer |-> answer]]
    /\ UNCHANGED <<event, letters, era, losses, overrun>>

\* The request is sent.
Post(c, e) == Oldest(c, e) /\ Takes(c, e, "none")

\* The endpoint is no longer configured: a permanent failure without a request.
Unconfigured(c, e) == Oldest(c, e) /\ Takes(c, e, "fail")

\* A 2xx answer, a failure worth a retry (or an answer that got lost), or a
\* permanent one.
Answer(c) ==
    /\ caller[c].at # NoEvent /\ caller[c].answer = "none"
    /\ \E answer \in {"ok", "retry", "fail"} : caller' = [caller EXCEPT ![c].answer = answer]
    /\ UNCHANGED <<event, letters, era, losses, overrun>>

Recording(c) == caller[c].at # NoEvent /\ caller[c].answer # "none"

\* record_webhook_delivery: whatever the status of the row is by now.
Record(c) ==
    LET e  == caller[c].at
        n  == event[e].attempts + 1
        st == Decision(n, caller[c].answer)
    IN  /\ Recording(c) /\ event[e].status # "GONE"
        /\ \E d \in 1..MaxDelay :
              event' = [event EXCEPT ![e] = [@ EXCEPT !.status = st, !.attempts = n, !.age = 0,
                                                      !.wait = IF st = "RETRY" THEN d ELSE 0]]
        /\ letters' = [letters EXCEPT ![e] = IF st = "FAILED" THEN @ + 1 ELSE @]
        /\ caller' = [caller EXCEPT ![c] = [Idle EXCEPT !.todo = caller[c].todo]]
        /\ UNCHANGED <<era, losses, overrun>>

\* The row is gone: KeyError ends the call, and the rest of the batch waits
\* for its lease to expire.
RecordGone(c) ==
    /\ Recording(c) /\ event[caller[c].at].status = "GONE"
    /\ caller' = [caller EXCEPT ![c] = Idle]
    /\ UNCHANGED <<event, letters, era, losses, overrun>>

\* The process dies, or the call raises: a locked database, or an event that is
\* not among the newest 2000 when it is read back after its record.
Abandon(c) ==
    /\ caller[c] # Idle /\ losses < MaxLosses
    /\ caller' = [caller EXCEPT ![c] = Idle]
    /\ losses' = losses + 1
    /\ UNCHANGED <<event, letters, era, overrun>>

CallerStep(c) ==
    \/ \E e \in Events : Post(c, e) \/ Unconfigured(c, e)
    \/ Answer(c) \/ Record(c) \/ RecordGone(c)

-----------------------------------------------------------------------------
\* The events of a caller's batch that it has not recorded.
Has(c, e) == e \in caller[c].todo \/ e = caller[c].at

\* Time is lost in requests only, and no longer than Timeout in each.
OnTime(c) ==
    \/ caller[c] = Idle
    \/ caller[c].at # NoEvent /\ caller[c].answer = "none" /\ caller[c].clock < Timeout

Tick ==
    /\ PunctualCallers => \A c \in Callers : OnTime(c)
    /\ event' = [e \in Events |-> [event[e] EXCEPT
          !.age = IF event[e].status = "SENDING" /\ @ <= Lease THEN @ + 1 ELSE @,
          !.wait = IF @ > 0 THEN @ - 1 ELSE 0]]
    /\ caller' = [c \in Callers |-> [caller[c] EXCEPT
          !.clock = IF PunctualCallers /\ caller[c] # Idle THEN @ + 1 ELSE 0]]
    /\ overrun' = overrun \cup {e \in Events : /\ event[e].status = "SENDING" /\ event[e].age = Lease
                                               /\ \E c \in Callers : Has(c, e)}
    /\ UNCHANGED <<letters, era, losses>>

OutboxInit ==
    /\ event = [e \in Events |-> Blank]
    /\ letters = [e \in Events |-> 0]
    /\ era = 0
    /\ caller = [c \in Callers |-> Idle]
    /\ losses = 0
    /\ overrun = {}

OutboxNext ==
    \/ \E e \in Events : Enqueue(e) \/ ManualRetry(e)
    \/ \E e, f \in Events : Replay(e, f)
    \/ \E old \in SUBSET Events : Purge(old)
    \/ \E c \in Callers : ListDue(c) \/ CallerStep(c) \/ Abandon(c)
    \/ Tick

OutboxSpec == OutboxInit /\ [][OutboxNext]_outboxVars

\* The delivery job is scheduled for ever, a call that began goes on unless it
\* is abandoned, and time passes whenever it can.
OutboxFairness ==
    /\ \A c \in Callers : WF_outboxVars(ListDue(c)) /\ WF_outboxVars(CallerStep(c))
    /\ SF_outboxVars(Tick)

-----------------------------------------------------------------------------
(* Properties. *)

\* list_due_webhook_events promises recovery after a crash "without delivering
\* the same row concurrently in normal operation" (webhook_delivery.py:22).
NoConcurrentDelivery ==
    \A c, d \in Callers :
        /\ caller[c].at # NoEvent /\ caller[c].at = caller[d].at
        /\ caller[c].answer = "none" /\ caller[d].answer = "none"
        => c = d

\* What list_due_webhook_events keeps, however slow or often lost the callers
\* are: an event gets into the batches of two callers in one way only, that its
\* lease ran out while a caller still had it.
SharedIsOverrun ==
    \A c, d \in Callers, e \in Events :
        Has(c, e) /\ Has(d, e) /\ c # d => e \in overrun

\* record_webhook_delivery: DELIVERED is an end (docs/15_WEBHOOKS_OBSERVABILITY.md),
\* and only the late result of a caller that outlived its lease reopens it.
ReopenedIsOverrun ==
    [][\A e \in Events : event[e].status = "DELIVERED" =>
          event'[e].status \in {"DELIVERED", "GONE"} \/ e \in overrun]_outboxVars

\* Whatever comes late or twice, an event that is going to be sent has attempts
\* left: the limit cannot be passed by losing batches or recording out of turn.
SentWithinLimit ==
    \A e \in Events : event[e].status \in Waiting \cup {"SENDING"} =>
        event[e].attempts < MaxAttempts

\* Every event ends delivered or failed, however many batches get lost: none
\* waits or is being sent for ever.
EveryEventSettles ==
    \A e \in Events : []<>(event[e].status \notin Waiting \cup {"SENDING"})
=============================================================================
