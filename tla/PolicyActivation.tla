---------------------------- MODULE PolicyActivation ----------------------------
(***************************************************************************)
(* Policies and the scores they give (app/repositories/policies.py,        *)
(* routers/governance_policy.py, services/policies.py; prepare_policy_     *)
(* activation and rescore_all of endpoint_workflows.py, update_scores of   *)
(* finding_ingestion.py).  A policy is activated in three steps that may   *)
(* be hours apart: the request records the active policy and a fingerprint *)
(* of the findings, an approver compares both and scores every finding,    *)
(* and a transaction checks again and writes the scores.  Meanwhile        *)
(* findings are imported, edited and rescored.                             *)
(*                                                                         *)
(* A row_version is only ever compared with an earlier one, so the model   *)
(* keeps, of each request and each scored row, which findings changed      *)
(* since.  The lease of the approval is left out: it ends with its TTL,    *)
(* and the transaction trusts only what it reads.                          *)
(***************************************************************************)
EXTENDS FiniteSets

CONSTANTS
    Policies,        \* policy_versions
    ScoredFindings,  \* findings
    Approvers,       \* approvals under way
    Rescorers,       \* rescorings under way
    First            \* the policy that is active at the beginning

ASSUME PolicyAssumption == First \in Policies

VARIABLES
    status,    \* of each policy
    request,   \* the PENDING request for each policy, or the one being made
    score,     \* of each finding: whether it is live, and whose score it has
    prepared,  \* what each approver prepared
    rescore    \* what each rescoring read

policyVars == <<status, request, score, prepared, rescore>>

\* record: not imported yet, live or archived; by: the policy that scored it.
ScoredRow  == [record : {"absent", "live", "archived"}, by : Policies]
NoRequest  == [at |-> "none", active |-> First, covered |-> {}, changed |-> {}]
NothingPrepared == [target |-> {}, rows |-> {}, changed |-> {}]
NoRescore  == [at |-> "idle", rows |-> {}, by |-> First]

active == CHOOSE p \in Policies : status[p] = "ACTIVE"
Imported == {f \in ScoredFindings : score[f].record # "absent"}
Live     == {f \in ScoredFindings : score[f].record = "live"}

\* The row_version of these findings is incremented: fingerprints taken before
\* and rows prepared before differ from now on.
Bump(F) ==
    /\ request' = [p \in Policies |->
          IF request[p] = NoRequest THEN NoRequest ELSE [request[p] EXCEPT !.changed = @ \cup F]]
    /\ prepared' = [a \in Approvers |->
          IF prepared[a].target # {} THEN [prepared[a] EXCEPT !.changed = @ \cup F]
          ELSE prepared[a]]

\* The fingerprint of the live findings is the request's.
SameFingerprint(r) == Live = r.covered /\ r.changed \cap Live = {}

-----------------------------------------------------------------------------
Add(f) ==
    /\ score[f].record = "absent"
    /\ score' = [score EXCEPT ![f] = [record |-> "live", by |-> active]]
    /\ Bump({f}) /\ UNCHANGED <<status, rescore>>

\* Another import, or an edit; an import scores the finding.
Modify(f) ==
    /\ f \in Live
    /\ score' \in {score, [score EXCEPT ![f].by = active]}
    /\ Bump({f}) /\ UNCHANGED <<status, rescore>>

SetArchived(f) ==
    /\ f \in Imported
    /\ score' = [score EXCEPT ![f].record = IF @ = "live" THEN "archived" ELSE "live"]
    /\ Bump({f}) /\ UNCHANGED <<status, rescore>>

Pending(p) == request[p].at = "pending"

\* The impact and the fingerprint are computed from a read of their own.
Analyse(p) ==
    /\ request[p].at = "none"
    /\ request' = [request EXCEPT ![p] =
          [at |-> "analysed", active |-> First, covered |-> Live, changed |-> {}]]
    /\ UNCHANGED <<status, score, prepared, rescore>>

\* create_policy_activation_request.
Request(p) ==
    /\ request[p].at = "analysed" /\ status[p] # "ACTIVE"
    /\ request' = [request EXCEPT ![p].at = "pending", ![p].active = active]
    /\ UNCHANGED <<status, score, prepared, rescore>>

\* Refused, or rejected by an approver.  What another approver prepared for it
\* will be refused, and is dropped with it.
Reject(p) ==
    /\ request[p] # NoRequest
    /\ request' = [request EXCEPT ![p] = NoRequest]
    /\ prepared' = [a \in Approvers |->
          IF prepared[a].target = {p} THEN NothingPrepared ELSE prepared[a]]
    /\ UNCHANGED <<status, score, rescore>>

\* prepare_policy_activation: compare, and score every live finding.
Prepare(a, p) ==
    /\ prepared[a] = NothingPrepared /\ Pending(p)
    /\ request[p].active = active /\ SameFingerprint(request[p])
    /\ prepared' = [prepared EXCEPT ![a] = [target |-> {p}, rows |-> Live, changed |-> {}]]
    /\ UNCHANGED <<status, request, score, rescore>>

\* (Operators named ..._M are slips this code could contain.  No definition
\* uses them; they show which property would notice.)
Unchanged_M(a) == TRUE

\* approve_policy_activation_request looks at the rows that were prepared.
Unchanged(a) == prepared[a].changed \cap prepared[a].rows = {}

Approve(a, p) ==
    /\ prepared[a].target = {p} /\ Pending(p)
    /\ status[p] # "ACTIVE" /\ request[p].active = active /\ Unchanged(a)
    /\ status' = [q \in Policies |-> IF q = p THEN "ACTIVE"
                                     ELSE IF q = active THEN "RETIRED" ELSE status[q]]
    /\ score' = [f \in ScoredFindings |->
          IF f \in prepared[a].rows THEN [score[f] EXCEPT !.by = p] ELSE score[f]]
    /\ request' = [q \in Policies |->
          IF request[q].at # "analysed" THEN NoRequest
          ELSE [request[q] EXCEPT !.changed = @ \cup prepared[a].rows]]
    /\ prepared' = [b \in Approvers |-> NothingPrepared]
    /\ UNCHANGED rescore

\* Refused, or the approver's process dies.
GiveUp(a) ==
    /\ prepared[a] # NothingPrepared
    /\ prepared' = [prepared EXCEPT ![a] = NothingPrepared]
    /\ UNCHANGED <<status, request, score, rescore>>

\* rescore_all: the findings, then the policy, then one transaction that compares
\* nothing with what was read.  Scores that did not change are not written.
ReadFindings(r) ==
    /\ rescore[r].at = "idle" /\ Live # {}
    /\ rescore' = [rescore EXCEPT ![r] = [at |-> "findings", rows |-> Live, by |-> First]]
    /\ UNCHANGED <<status, request, score, prepared>>

ReadPolicy(r) ==
    /\ rescore[r].at = "findings"
    /\ rescore' = [rescore EXCEPT ![r].at = "policy", ![r].by = active]
    /\ UNCHANGED <<status, request, score, prepared>>

\* others: rows whose data or day of scoring differ.
UpdateScores(r) ==
    /\ rescore[r].at = "policy"
    /\ \E others \in SUBSET rescore[r].rows :
          Bump(others \cup {f \in rescore[r].rows : score[f].by # rescore[r].by})
    /\ score' = [f \in ScoredFindings |->
          IF f \in rescore[r].rows THEN [score[f] EXCEPT !.by = rescore[r].by] ELSE score[f]]
    /\ rescore' = [rescore EXCEPT ![r] = NoRescore]
    /\ UNCHANGED status

PolicyInit ==
    /\ status = [p \in Policies |-> IF p = First THEN "ACTIVE" ELSE "DRAFT"]
    /\ request = [p \in Policies |-> NoRequest]
    /\ score = [f \in ScoredFindings |-> [record |-> "absent", by |-> First]]
    /\ prepared = [a \in Approvers |-> NothingPrepared]
    /\ rescore = [r \in Rescorers |-> NoRescore]

PolicyNext ==
    \/ \E f \in ScoredFindings : Add(f) \/ Modify(f) \/ SetArchived(f)
    \/ \E p \in Policies : Analyse(p) \/ Request(p) \/ Reject(p)
    \/ \E a \in Approvers : GiveUp(a) \/ \E p \in Policies : Prepare(a, p) \/ Approve(a, p)
    \/ \E r \in Rescorers : ReadFindings(r) \/ ReadPolicy(r) \/ UpdateScores(r)

PolicySpec == PolicyInit /\ [][PolicyNext]_policyVars

-----------------------------------------------------------------------------
Activated(p) == status[p] # "ACTIVE" /\ status'[p] = "ACTIVE"

\* A policy becomes active only over the findings whose impact was analysed: none
\* of them was changed by anyone between the analysis and the activation, however
\* long the request waited, and all of them get its scores.  (It may be active
\* over data with another fingerprint: Prepare compares the fingerprint of all
\* findings, but Approve, a transaction later, only the findings scored.)
ActivatedAsAnalysed ==
    [][\A p \in Policies : Activated(p) =>
          \A f \in request[p].covered : f \notin request[p].changed /\ score'[f].by = p]_policyVars

\* A pending request is for a policy that is not active, against the one that is:
\* an activation leaves none behind that was analysed against its predecessor.
PendingAgainstActive ==
    \A p \in Policies : Pending(p) => status[p] # "ACTIVE" /\ request[p].active = active
=============================================================================
