------------------------------ MODULE MCOutboxes ------------------------------
(***************************************************************************)
(* The two outboxes for TLC, under callers, senders and ticks that keep to *)
(* no time but what the fairness of their modules says.  They share no     *)
(* table and no thread, so a behaviour is about one of them, chosen at the *)
(* start, and the other stays in its initial state.  It is about one       *)
(* webhook event and both callers ("an event"), both events and one caller *)
(* ("a batch"), or all of them ("batches"); or about one item of the       *)
(* collaboration and both senders ("an item"), or an issue and a mail with *)
(* one sender ("items").                                                   *)
(***************************************************************************)
EXTENDS WebhookOutbox, CollaborationOutbox

CONSTANTS e1, e2, c1, c2, f1, n1, s1, s2

CONSTANT Subjects  \* what the behaviours of a run are about

VARIABLE about

outboxesVars == <<about, outboxVars, collabVars>>

\* The callers and senders of the behaviour.
Active ==
    CASE about \in {"an event", "batches"} -> Callers
      [] about = "a batch"  -> {c1}
      [] about = "an item"  -> Senders
      [] about = "items"    -> {s1}

Collaborates == about \in {"an item", "items"}

\* Nothing fair is ruled out by this.
Within ==
    /\ \A c \in Callers \ Active : caller[c] = Idle
    /\ about = "an event" => event[e2].status = "NEW"
    /\ about = "a batch" => \A e \in Events : event[e].run = 0
    /\ \A s \in Senders \ Active : sender[s] = Resting
    /\ about = "an item" => item[f1].status = "NEW" \/ item[n1].status = "NEW"

OutboxesInit == about \in Subjects /\ OutboxInit /\ CollabInit

OutboxesNext ==
    \/ ~Collaborates /\ OutboxNext /\ UNCHANGED <<about, collabVars>> /\ Within'
    \/ Collaborates /\ CollabNext /\ UNCHANGED <<about, outboxVars>> /\ Within'

\* The fairness of both modules, of those the behaviour is about.
OutboxesFairness ==
    /\ \A c \in Callers : /\ WF_outboxVars(c \in Active /\ ListDue(c))
                          /\ WF_outboxVars(c \in Active /\ CallerStep(c))
    /\ SF_outboxVars(~Collaborates /\ Tick)
    /\ \A s \in Senders : /\ WF_collabVars(s \in Active /\ Claim(s))
                          /\ WF_collabVars(s \in Active /\ SenderStep(s))
    /\ SF_collabVars(Collaborates /\ CollabTick)

OutboxesSpec == OutboxesInit /\ [][OutboxesNext]_outboxesVars /\ OutboxesFairness
=============================================================================
