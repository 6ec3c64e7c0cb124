-------------------------- MODULE CollaborationOutbox --------------------------
(***************************************************************************)
(* The collaboration outbox: the collaboration_events table and the links  *)
(* of findings to Jira issues (app/repositories/collaboration.py), the     *)
(* threads that run deliver_collaboration_events                           *)
(* (app/services/collaboration.py), and the servers that receive issues,   *)
(* comments and mails.  As in the webhook outbox each repository function  *)
(* is one write_transaction and requests are made between them; unlike     *)
(* there, a delivered issue creation is linked in a second transaction,    *)
(* and a failed creation can be queued again under its dedupe key.         *)
(*                                                                         *)
(* A finding has one creation event (dedupe key jira-create:<finding>), so *)
(* the event stands for the finding too.  The order of created_at is left  *)
(* open, and so is when an administrator enables or disables a channel.    *)
(***************************************************************************)
EXTENDS Integers, FiniteSets

CONSTANTS
    Creations,      \* issue creations, one per finding
    Notices,        \* mails, reminders and comments, by dedupe key
    Senders,        \* threads that run deliver_collaboration_events
    BatchLimit,     \* events one call claims
    SendAttempts,   \* max_attempts
    SendLease,      \* lease_seconds of a claim
    SendDelay,      \* longest retry delay
    MaxRequeues,    \* bound: requeues of one creation
    MaxDeaths,      \* bound: calls that are abandoned
    NoItem          \* what an idle sender is working on

Items == Creations \cup Notices

ASSUME CollabAssumption ==
    /\ IsFiniteSet(Items) /\ IsFiniteSet(Senders) /\ Creations \cap Notices = {} /\ NoItem \notin Items
    /\ BatchLimit \in Nat \ {0} /\ SendAttempts \in Nat \ {0} /\ SendLease \in Nat \ {0}
    /\ SendDelay \in Nat \ {0} /\ MaxRequeues \in Nat /\ MaxDeaths \in Nat

VARIABLES
    item,     \* collaboration_events, a row per dedupe key
    linked,   \* creations whose finding has a row in finding_external_links
    sender,   \* the batch of each sender and the event in its hands
    made,     \* the servers: issues, comments and mails made for each event
    owed,     \* history: those made by a request whose success was not recorded
    leased,   \* history: who has which event under a lease that did not run out
              \* and that no late result ended
    late,     \* history: leases of each event that ran out under their sender
    orphans,  \* history: delivered creations whose link is lost, as the answer
              \* named no issue or the sender died before linking
    deaths    \* calls abandoned so far

\* What is never read: it only says what happened.
history == <<owed, orphans, leased, late>>

collabVars == <<item, linked, sender, made, deaths, history>>

Open == {"PENDING", "RETRY"}
Closed == {"DELIVERED", "FAILED"}

\* "NEW": not inserted yet.  age: now - last_attempt_at of a SENDING row, as far
\* as it matters; wait: next_attempt_at - now; run: requeues so far.
ItemRow == [status : Open \cup Closed \cup {"NEW", "SENDING"}, attempts : Nat,
            wait : 0..SendDelay, age : 0..SendLease + 1, run : 0..MaxRequeues]

NewItem == [status |-> "NEW", attempts |-> 0, wait |-> 0, age |-> 0, run |-> 0]

\* stage "post": the request is under way; "blank": delivered with no issue to
\* link; "link": recorded, the link is not.
SenderRow == [todo : SUBSET Items, at : Items \cup {NoItem},
              stage : {"post", "ok", "blank", "retry", "fail", "link"}]

Resting == [todo |-> {}, at |-> NoItem, stage |-> "post"]

\* Shape of the state, with what the senders' loop keeps: one event in hand,
\* no longer to do, and only a creation is ever being linked.
CollabTypeOK ==
    /\ item \in [Items -> ItemRow]
    /\ linked \subseteq Creations /\ orphans \subseteq Creations
    /\ sender \in [Senders -> SenderRow]
    /\ made \in [Items -> Nat] /\ owed \in [Items -> Nat] /\ late \in [Items -> Nat]
    /\ leased \subseteq Senders \X Items
    /\ deaths \in 0..MaxDeaths
    /\ \A s \in Senders :
        /\ sender[s].at \notin sender[s].todo
        /\ sender[s].stage = "link" => sender[s].at \in Creations

-----------------------------------------------------------------------------
(* The table. *)

\* queue_event_for_integrations, enqueue_due_reminders: a second event of the
\* same dedupe key is not inserted.
Announce(n) ==
    /\ item[n].status = "NEW"
    /\ item' = [item EXCEPT ![n].status = "PENDING"]
    /\ UNCHANGED <<linked, sender, made, deaths, history>>

Requeued(r) == [r EXCEPT !.status = "PENDING", !.attempts = 0, !.wait = 0, !.age = 0, !.run = @ + 1]

\* (Operators named ..._M are slips this code could contain.  No definition
\* uses them; they show which property would notice.)
QueueCreateAnyEnd_M(f) ==
    /\ f \notin linked
    /\ \/ /\ item[f].status = "NEW"
          /\ item' = [item EXCEPT ![f].status = "PENDING"]
       \/ /\ item[f].status \in Closed /\ item[f].run < MaxRequeues
          /\ item' = [item EXCEPT ![f] = Requeued(@)]
    /\ UNCHANGED <<linked, sender, made, deaths, history>>

\* queue_jira_issue_create: refused when the finding is linked; an existing
\* event is reused, and queued again only if it failed.
QueueCreate(f) ==
    /\ f \notin linked
    /\ \/ /\ item[f].status = "NEW"
          /\ item' = [item EXCEPT ![f].status = "PENDING"]
       \/ /\ item[f].status = "FAILED" /\ item[f].run < MaxRequeues
          /\ item' = [item EXCEPT ![f] = Requeued(@)]
    /\ UNCHANGED <<linked, sender, made, deaths, history>>

OutOfLeaseNever_M(r) == FALSE

\* last_attempt_at < cutoff, strictly.
OutOfLease(r) == r.status = "SENDING" /\ r.age > SendLease

\* The first UPDATE of claim_due_collaboration_events.
Returned == [e \in Items |->
    IF OutOfLease(item[e]) THEN [item[e] EXCEPT !.status = "RETRY", !.wait = 0, !.age = 0]
    ELSE item[e]]

Ready == {e \in Items : Returned[e].status \in Open /\ Returned[e].wait = 0}

\* As many ready events as the limit allows.
Claims == {S \in SUBSET Ready :
    Cardinality(S) = IF Cardinality(Ready) <= BatchLimit THEN Cardinality(Ready) ELSE BatchLimit}

\* claim_due_collaboration_events
Claim(s) ==
    /\ sender[s] = Resting
    /\ \E S \in Claims \ {{}} :
        /\ item' = [e \in Items |->
              IF e \in S THEN [Returned[e] EXCEPT !.status = "SENDING", !.age = 0] ELSE Returned[e]]
        /\ sender' = [sender EXCEPT ![s].todo = S]
        /\ leased' = leased \cup {s} \X S
    /\ UNCHANGED <<linked, made, owed, orphans, late, deaths>>

\* record_collaboration_delivery, by RetryPolicy.decide.
Outcome(attempts, stage) ==
    IF stage \in {"ok", "blank"} THEN "DELIVERED"
    ELSE IF stage = "retry" /\ attempts < SendAttempts THEN "RETRY" ELSE "FAILED"

-----------------------------------------------------------------------------
(* deliver_collaboration_events, one event of the batch after the other. *)

Picks(s, e, stage) ==
    /\ sender[s].at = NoItem /\ e \in sender[s].todo
    /\ sender' = [sender EXCEPT ![s] = [todo |-> @.todo \ {e}, at |-> e, stage |-> stage]]
    /\ UNCHANGED <<item, linked, made, deaths, history>>

\* _deliver_email, _jira_request: the request is sent.
Send(s, e) == Picks(s, e, "post")

\* The channel is disabled, the secret or the configuration unusable, or the
\* address refused: a permanent failure without a request.
Refuse(s, e) == Picks(s, e, "fail")

\* A comment on a finding without an issue: delivered without a request.
Skip(s, e) == e \in Notices /\ Picks(s, e, "blank")

\* A 2xx answer, for a creation perhaps without a key; or a failure, which the
\* server may have acted on: the answer was lost ("retry"), or was too large or
\* unreadable ("fail").
Reply(s) ==
    LET e == sender[s].at IN
    /\ e # NoItem /\ sender[s].stage = "post"
    /\ \E stage \in {"ok", "blank", "retry", "fail"}, acted \in {0, 1} :
        /\ stage \in {"ok", "blank"} => acted = 1
        /\ stage = "blank" => e \in Creations
        /\ sender' = [sender EXCEPT ![s].stage = stage]
        /\ made' = [made EXCEPT ![e] = @ + acted]
        /\ owed' = [owed EXCEPT ![e] = IF stage \in {"ok", "blank"} THEN @ ELSE @ + acted]
    /\ UNCHANGED <<item, linked, orphans, leased, late, deaths>>

\* Only the delivery of a creation has a link to write, if the answer has its key.
LinksNext(e, stage) == stage = "ok" /\ e \in Creations

\* record_collaboration_delivery: whatever the status of the row is by now.
RecordOutcome(s) ==
    LET e  == sender[s].at
        n  == item[e].attempts + 1
        st == Outcome(n, sender[s].stage)
    IN  /\ e # NoItem /\ sender[s].stage \in {"ok", "blank", "retry", "fail"}
        /\ \E d \in 1..SendDelay :
              item' = [item EXCEPT ![e] = [@ EXCEPT !.status = st, !.attempts = n, !.age = 0,
                                                    !.wait = IF st = "RETRY" THEN d ELSE 0]]
        /\ sender' = [sender EXCEPT ![s] =
              IF LinksNext(e, sender[s].stage)
              THEN [@ EXCEPT !.stage = "link"] ELSE [Resting EXCEPT !.todo = sender[s].todo]]
        /\ orphans' = IF sender[s].stage = "blank" /\ e \in Creations THEN orphans \cup {e} ELSE orphans
        /\ leased' = leased \ (Senders \X {e})
        /\ UNCHANGED <<linked, made, owed, late, deaths>>

\* upsert_finding_external_link, a transaction of its own.
Link(s) ==
    /\ sender[s].stage = "link"
    /\ linked' = linked \cup {sender[s].at}
    /\ sender' = [sender EXCEPT ![s] = [Resting EXCEPT !.todo = sender[s].todo]]
    /\ UNCHANGED <<item, made, deaths, history>>

\* The process dies or a transaction raises.  A request under way may still be
\* acted on; what was made and not recorded, or not linked, stays so.
Drop(s) ==
    LET e == sender[s].at IN
    /\ sender[s] # Resting /\ deaths < MaxDeaths
    /\ deaths' = deaths + 1
    /\ sender' = [sender EXCEPT ![s] = Resting]
    /\ \/ /\ e # NoItem /\ sender[s].stage = "post"
          /\ made' = [made EXCEPT ![e] = @ + 1]
          /\ owed' = [owed EXCEPT ![e] = @ + 1]
       \/ /\ UNCHANGED made
          /\ owed' = IF \/ e # NoItem /\ sender[s].stage = "ok"
                        \/ e \in Creations /\ sender[s].stage = "blank"
                     THEN [owed EXCEPT ![e] = @ + 1] ELSE owed
    /\ orphans' = IF sender[s].stage = "link" THEN orphans \cup {e} ELSE orphans
    /\ leased' = leased \ ({s} \X Items)
    /\ UNCHANGED <<item, linked, late>>

SenderStep(s) ==
    \/ \E e \in Items : Send(s, e) \/ Refuse(s, e) \/ Skip(s, e)
    \/ Reply(s) \/ RecordOutcome(s) \/ Link(s)

-----------------------------------------------------------------------------
\* One tick of the wall clock.  It waits for nobody: a batch may outlive its
\* lease in any of its requests.
CollabTick ==
    LET Ends(e) == /\ item[e].status = "SENDING" /\ item[e].age = SendLease
                   /\ \E s \in Senders : <<s, e>> \in leased
    IN  /\ item' = [e \in Items |-> [item[e] EXCEPT
              !.age = IF item[e].status = "SENDING" /\ @ <= SendLease THEN @ + 1 ELSE @,
              !.wait = IF @ > 0 THEN @ - 1 ELSE 0]]
        /\ leased' = leased \ (Senders \X {e \in Items : Ends(e)})
        /\ late' = [e \in Items |-> IF Ends(e) THEN late[e] + 1 ELSE late[e]]
        /\ UNCHANGED <<linked, sender, made, owed, orphans, deaths>>

CollabInit ==
    /\ item = [e \in Items |-> NewItem]
    /\ linked = {} /\ orphans = {} /\ leased = {}
    /\ sender = [s \in Senders |-> Resting]
    /\ made = [e \in Items |-> 0] /\ owed = [e \in Items |-> 0]
    /\ late = [e \in Items |-> 0]
    /\ deaths = 0

CollabNext ==
    \/ \E n \in Notices : Announce(n)
    \/ \E f \in Creations : QueueCreate(f)
    \/ \E s \in Senders : Claim(s) \/ SenderStep(s) \/ Drop(s)
    \/ CollabTick

CollabSpec == CollabInit /\ [][CollabNext]_collabVars

\* The delivery job is scheduled for ever, a call that began goes on unless it
\* is abandoned, and time passes whenever it can.
CollabFairness ==
    /\ \A s \in Senders : WF_collabVars(Claim(s)) /\ WF_collabVars(SenderStep(s))
    /\ SF_collabVars(CollabTick)

-----------------------------------------------------------------------------
(* Properties. *)

\* queue_jira_issue_create and claim_due_collaboration_events: a finding gets a
\* second issue (and a recipient a second mail) for two reasons only.  A request
\* was acted on and its success could not be recorded, or a lease ran out while
\* its sender still had the event.  Each accounts for one more, however results
\* are late, overtake each other, reopen what was delivered or are requeued.
IssuesOwed ==
    \A e \in Items : made[e] <= 1 + owed[e] + late[e]

\* deliver_collaboration_events: a creation recorded as delivered has its link,
\* or somebody is about to write it, or it is known to be lost.
DeliveredIsLinked ==
    \A f \in Creations :
        item[f].status = "DELIVERED" =>
            \/ f \in linked \/ f \in orphans
            \/ \E s \in Senders : sender[s].at = f /\ sender[s].stage = "link"

\* Every event that is queued ends delivered or failed, however many calls die:
\* none waits or is being sent for ever.
EveryItemSettles ==
    \A e \in Items : []<>(item[e].status \notin Open \cup {"SENDING"})
=============================================================================
