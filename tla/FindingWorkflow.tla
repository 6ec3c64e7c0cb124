--------------------------- MODULE FindingWorkflow ---------------------------
(***************************************************************************)
(* The workflow of findings: the findings table with the observations of   *)
(* the scanners, the requests to verify a remediation and the requests to  *)
(* accept a risk (app/repositories/finding_ingestion.py,                   *)
(* finding_workflow.py, finding_approvals.py, campaigns.py, the first      *)
(* transaction of services/maintenance.py, and the handlers of             *)
(* routers/findings.py and evidence.py).  Each repository function is one  *)
(* transaction; the two handlers that look at a finding before they call   *)
(* one are two steps.                                                      *)
(*                                                                         *)
(* Every update of a finding increments its row_version, and a version     *)
(* kept elsewhere is only compared with it.  So the model keeps, instead   *)
(* of the version, whether it is still the current one ("current").  Dates *)
(* are relative: left is the number of days until exception_expiry.  Of    *)
(* the requests the model keeps the pending ones, for nothing reads a      *)
(* request that was decided or cancelled, and there is at most one of each *)
(* kind for a finding, for a new one is refused while one is pending.      *)
(***************************************************************************)
EXTENDS Integers, FiniteSetsExt

CONSTANTS
    Findings,   \* canonical findings
    Sources,    \* scanner sources
    Callers,    \* operators with an edit under way
    Threshold,  \* VERIFICATION_ABSENCE_SCANS
    ExpiryDays  \* the longest exception a caller asks for

ASSUME WorkflowAssumption ==
    /\ Threshold \in Nat \ {0} /\ ExpiryDays \in Nat
    /\ IsFiniteSet(Findings) /\ IsFiniteSet(Sources)

VARIABLES
    finding,       \* the findings table
    misses,        \* of each source record: consecutive_absent_scans
    verification,  \* the PENDING remediation_verification_requests row of each finding
    approval,      \* the PENDING risk_approval_requests row of each finding
    call           \* the edit each operator is making

workflowVars == <<finding, misses, verification, approval, call>>

\* STATUS_TRANSITIONS
Transitions ==
    [OPEN          |-> {"OPEN", "IN_PROGRESS", "MITIGATED", "RISK_ACCEPTED", "CLOSED"},
     IN_PROGRESS   |-> {"OPEN", "IN_PROGRESS", "MITIGATED", "RISK_ACCEPTED", "CLOSED"},
     MITIGATED     |-> {"MITIGATED", "OPEN", "IN_PROGRESS", "CLOSED"},
     RISK_ACCEPTED |-> {"RISK_ACCEPTED", "OPEN", "IN_PROGRESS", "CLOSED"},
     CLOSED        |-> {"CLOSED", "OPEN"}]

Status      == {"OPEN", "IN_PROGRESS", "MITIGATED", "RISK_ACCEPTED", "CLOSED"}
Resolution  == {"UNVERIFIED", "READY", "PENDING", "VERIFIED", "REJECTED", "REOPENED",
                "NOT_REQUIRED"}
RecordState == {"ACTIVE", "STALE", "ARCHIVED"}
Worked      == {"OPEN", "IN_PROGRESS"}

ManualThreshold == 2  \* what update_workflow compares with

\* Counts of missed scans beyond every threshold are not told apart.
Enough == Max({Threshold, ManualThreshold})
Missed(n) == IF n < Enough THEN n + 1 ELSE n

Never == -1  \* the source has not reported the finding
Days  == -1..ExpiryDays

\* record "NONE": not imported yet.  left: 0 when exception_expiry is ''.
FindingRow == [status : Status, resolution : Resolution, record : RecordState \cup {"NONE"},
               absent : 0..Enough, left : Days]

\* observed: observed_absence_count; scan: method SCAN_ABSENCE.
VerificationRow == [pending : BOOLEAN, current : BOOLEAN, scan : BOOLEAN,
                    observed : 0..Enough]

\* was: history, the status of the finding the request was made for.
ApprovalRow == [pending : BOOLEAN, current : BOOLEAN, left : Days, was : Status]

\* op EDIT: update_workflow; BULK: bulk_update_workflow, which may keep the
\* status.  guarded: the caller gave the row_version it saw.
CallRow == [op : {"IDLE", "EDIT", "BULK"}, ids : SUBSET Findings,
            to : Status \cup {"KEEP"}, left : Days, guarded : BOOLEAN, current : BOOLEAN]

Unseen         == [status |-> "OPEN", resolution |-> "UNVERIFIED", record |-> "NONE",
                   absent |-> 0, left |-> 0]
NoVerification == [pending |-> FALSE, current |-> FALSE, scan |-> FALSE, observed |-> 0]
NoApproval     == [pending |-> FALSE, current |-> FALSE, left |-> 0, was |-> "OPEN"]
NoCall         == [op |-> "IDLE", ids |-> {}, to |-> "KEEP", left |-> 0,
                   guarded |-> FALSE, current |-> FALSE]

\* What the columns and the calls under way may hold.
FindingTypeOK ==
    /\ finding \in [Findings -> FindingRow]
    /\ misses \in [Sources -> [Findings -> Never..Enough]]
    /\ verification \in [Findings -> VerificationRow]
    /\ approval \in [Findings -> ApprovalRow]
    /\ call \in [Callers -> CallRow]

Known(f) == finding[f].record # "NONE"

-----------------------------------------------------------------------------
(* What an increment of row_version does to the versions kept elsewhere. *)

\* Nothing reads the method and the count of a request that cannot be decided.
OldVerification(v) ==
    [pending |-> v.pending, current |-> FALSE, scan |-> FALSE, observed |-> 0]
OldApproval(a) == [a EXCEPT !.current = FALSE, !.was = "OPEN"]
OldCalls(F) == [c \in Callers |-> IF call[c].ids \cap F = {} THEN call[c]
                                  ELSE [call[c] EXCEPT !.current = FALSE]]

\* Both requests of the findings of F.
OldRequests(F) ==
    /\ verification' = [f \in Findings |->
          IF f \in F THEN OldVerification(verification[f]) ELSE verification[f]]
    /\ approval' = [f \in Findings |->
          IF f \in F THEN OldApproval(approval[f]) ELSE approval[f]]

-----------------------------------------------------------------------------
(* apply_import_batch *)

\* The source records after source s reported R.
SeenBy(s, R, snapshot) ==
    [misses EXCEPT ![s] = [f \in Findings |->
        IF f \in R THEN 0
        ELSE IF snapshot /\ misses[s][f] # Never THEN Missed(misses[s][f])
        ELSE misses[s][f]]]

Absences(seen, f) == Min({seen[s][f] : s \in {x \in Sources : seen[x][f] # Never}})
Present(seen, f)  == \E s \in Sources : seen[s][f] = 0

\* A finding that was resolved: a source that did not see it sees it (again).
Resolved(r) ==
    \/ r.status = "CLOSED" /\ r.resolution = "VERIFIED"
    \/ r.status = "MITIGATED" /\ r.resolution \in {"PENDING", "READY"}

Redetected(r) == [r EXCEPT !.record = "ACTIVE", !.absent = 0,
                           !.status = "OPEN", !.resolution = "REOPENED"]

Reported(r) == [r EXCEPT !.record = "ACTIVE", !.absent = 0,
                         !.resolution = IF @ = "READY" THEN "UNVERIFIED" ELSE @]
Missing(r, n) ==
    [r EXCEPT !.record = "STALE", !.absent = n,
              !.resolution = IF r.status = "MITIGATED" /\ n >= Threshold
                                /\ @ \notin {"PENDING", "VERIFIED"}
                             THEN "READY" ELSE @]

\* Rows of the file may give new findings a status and an exception.
Import(s, R, snapshot, st, left) ==
    LET seen    == SeenBy(s, R, snapshot)
        Hit     == R \cup IF snapshot THEN {f \in Findings : misses[s][f] # Never} ELSE {}
        Back(f) == f \in R /\ misses[s][f] # 0 /\ Resolved(finding[f])
        Row(f)  == IF Known(f) THEN finding[f]
                   ELSE [Unseen EXCEPT !.status = st, !.left = left]
    IN /\ R # {} \/ snapshot
       /\ misses' = seen
       /\ finding' = [f \in Findings |->
             IF f \notin Hit THEN finding[f]
             ELSE IF ~Present(seen, f) THEN Missing(finding[f], Absences(seen, f))
             ELSE IF Back(f) THEN Redetected(finding[f])
             ELSE Reported(Row(f))]
       /\ verification' = [f \in Findings |->
             IF f \notin Hit THEN verification[f]
             ELSE IF Back(f) THEN NoVerification
             ELSE OldVerification(verification[f])]
       /\ approval' = [f \in Findings |->
             IF f \in Hit THEN OldApproval(approval[f]) ELSE approval[f]]
       /\ call' = OldCalls(Hit)

\* bulk_update_intel, update_scores: columns the workflow does not read.
Touch(F) ==
    /\ \A f \in F : Known(f)
    /\ OldRequests(F)
    /\ call' = OldCalls(F)
    /\ UNCHANGED <<finding, misses>>

-----------------------------------------------------------------------------
(* Edits of operators: the handler's look at the finding, then its write. *)

Editable(f, to) == Known(f) /\ finding[f].record # "ARCHIVED"
                   /\ (to # "KEEP" => to \in Transitions[finding[f].status])

\* finding_update (an approver may accept a risk at once), api_update_workflow.
\* (A version that was read before the look and is still current at the write
\* was current at the look.)
BeginEdit(c, f, to, left, guarded) ==
    /\ call[c] = NoCall
    /\ to # "CLOSED" /\ Editable(f, to)
    /\ to # "RISK_ACCEPTED" => left = 0
    /\ left >= 0
    /\ call' = [call EXCEPT ![c] = [op |-> "EDIT", ids |-> {f}, to |-> to, left |-> left,
                                    guarded |-> guarded, current |-> guarded]]
    /\ UNCHANGED <<finding, misses, verification, approval>>

\* bulk_update looks at its findings one by one.
Looked(F, to) == [op |-> "BULK", ids |-> F, to |-> to, left |-> 0,
                  guarded |-> FALSE, current |-> FALSE]

LookAtBulk(c, f, to) ==
    /\ call[c] \in {NoCall, Looked(call[c].ids \ {f}, to)}
    /\ to \notin {"RISK_ACCEPTED", "CLOSED"} /\ Editable(f, to)
    /\ call' = [call EXCEPT ![c] = Looked(call[c].ids \cup {f}, to)]
    /\ UNCHANGED <<finding, misses, verification, approval>>

\* The row update_workflow writes.
Edited(r, to, left) ==
    [r EXCEPT !.status = to, !.left = left,
              !.resolution =
        CASE to = "MITIGATED" ->
                IF r.status = "MITIGATED" THEN @
                ELSE IF r.absent >= ManualThreshold THEN "READY" ELSE "UNVERIFIED"
          [] to \in Worked ->
                IF r.status # to /\ (r.status \in {"CLOSED", "MITIGATED"} \/ @ = "VERIFIED")
                THEN "REOPENED" ELSE "UNVERIFIED"
          [] to = "RISK_ACCEPTED" -> "NOT_REQUIRED"]

\* update_workflow: a caller that gave an old version gets a ConcurrencyError; a
\* finding that is worked on again has its pending verification cancelled.
Edit(c) ==
    /\ call[c].op = "EDIT"
    /\ IF call[c].guarded /\ ~call[c].current
       THEN /\ call' = [call EXCEPT ![c] = NoCall]
            /\ UNCHANGED <<finding, verification, approval>>
       ELSE \E f \in call[c].ids :
            /\ finding' = [finding EXCEPT ![f] = Edited(@, call[c].to, call[c].left)]
            /\ verification' = [verification EXCEPT ![f] =
                  IF call[c].to \in Worked THEN NoVerification ELSE OldVerification(@)]
            /\ approval' = [approval EXCEPT ![f] = OldApproval(@)]
            /\ call' = [OldCalls({f}) EXCEPT ![c] = NoCall]
    /\ UNCHANGED misses

\* The row _bulk_update_workflow_conn writes.
Bulked(r, to) == IF to = "KEEP" THEN r ELSE [r EXCEPT !.status = to, !.left = 0]

\* (Operators named ..._M are slips this code could contain.  No definition
\* uses them; they show which property would notice.)
BulkKeepsVersions_M(F, to) ==
    /\ finding' = [f \in Findings |-> IF f \in F THEN Bulked(finding[f], to) ELSE finding[f]]
    /\ UNCHANGED <<misses, verification, approval>>

Bulk(F, to) ==
    /\ finding' = [f \in Findings |-> IF f \in F THEN Bulked(finding[f], to) ELSE finding[f]]
    /\ OldRequests(F)
    /\ UNCHANGED misses

WriteBulk(c) ==
    /\ call[c].op = "BULK"
    /\ Bulk(call[c].ids, call[c].to)
    /\ call' = [OldCalls(call[c].ids) EXCEPT ![c] = NoCall]

\* create_campaign with apply_workflow
Campaign(F) ==
    /\ F # {} /\ \A f \in F : Known(f)
    /\ Bulk(F, "IN_PROGRESS")
    /\ call' = OldCalls(F)

SetRecordKeepsVersion_M(f, record) ==
    /\ Known(f)
    /\ finding' = [finding EXCEPT ![f].record = record]
    /\ UNCHANGED <<misses, verification, approval, call>>

\* update_record_state
SetRecord(f, record) ==
    /\ Known(f)
    /\ finding' = [finding EXCEPT ![f].record = record]
    /\ OldRequests({f})
    /\ call' = OldCalls({f})
    /\ UNCHANGED misses

-----------------------------------------------------------------------------
(* Verification of a remediation *)

\* create_remediation_verification_request
RequestVerification(f, scan) ==
    /\ finding[f].record # "ARCHIVED" /\ finding[f].status = "MITIGATED" /\ Known(f)
    /\ ~verification[f].pending
    /\ scan => finding[f].record = "STALE" /\ finding[f].absent >= Threshold
    /\ finding' = [finding EXCEPT ![f].resolution = "PENDING"]
    /\ verification' = [verification EXCEPT ![f] =
          [pending |-> TRUE, scan |-> scan, observed |-> finding[f].absent,
           current |-> TRUE]]
    /\ approval' = [approval EXCEPT ![f] = OldApproval(@)]
    /\ call' = OldCalls({f})
    /\ UNCHANGED misses

DecideKeepsVersion_M(f, approved) ==
    /\ verification[f].pending /\ verification[f].current
    /\ finding' = [finding EXCEPT ![f].status     = IF approved THEN "CLOSED" ELSE "IN_PROGRESS",
                                  ![f].resolution = IF approved THEN "VERIFIED" ELSE "REJECTED"]
    /\ verification' = [verification EXCEPT ![f] = NoVerification]
    /\ UNCHANGED <<misses, approval, call>>

\* decide_remediation_verification_request
DecideVerification(f, approved) ==
    /\ verification[f].pending /\ verification[f].current
    /\ finding' = [finding EXCEPT ![f].status     = IF approved THEN "CLOSED" ELSE "IN_PROGRESS",
                                  ![f].resolution = IF approved THEN "VERIFIED" ELSE "REJECTED"]
    /\ verification' = [verification EXCEPT ![f] = NoVerification]
    /\ approval' = [approval EXCEPT ![f] = OldApproval(@)]
    /\ call' = OldCalls({f})
    /\ UNCHANGED misses

-----------------------------------------------------------------------------
(* Acceptance of a risk *)

\* create_risk_approval_request, by finding_update or the API
RequestAcceptance(f, left) ==
    /\ Known(f) /\ finding[f].record # "ARCHIVED" /\ left >= 0
    /\ ~approval[f].pending
    /\ approval' = [approval EXCEPT ![f] =
          [pending |-> TRUE, left |-> left, was |-> finding[f].status, current |-> TRUE]]
    /\ UNCHANGED <<finding, misses, verification, call>>

\* decide_risk_approval_request
DecideAcceptance(f, approved) ==
    /\ approval[f].pending /\ approval[f].left >= 0 /\ finding[f].record # "ARCHIVED"
    /\ approved => approval[f].current
    /\ approval' = [approval EXCEPT ![f] = NoApproval]
    /\ IF approved
       THEN /\ finding' = [finding EXCEPT ![f].status = "RISK_ACCEPTED",
                                          ![f].left = approval[f].left]
            /\ verification' = [verification EXCEPT ![f] = OldVerification(@)]
            /\ call' = OldCalls({f})
       ELSE UNCHANGED <<finding, verification, call>>
    /\ UNCHANGED misses

\* Midnight.
Day(n) == IF n >= 0 THEN n - 1 ELSE n

NewDay ==
    /\ finding' = [f \in Findings |-> [finding[f] EXCEPT
          !.left = IF finding[f].status = "RISK_ACCEPTED" THEN Day(@) ELSE @]]
    /\ approval' = [f \in Findings |-> [approval[f] EXCEPT
          !.left = IF approval[f].pending THEN Day(@) ELSE @]]
    /\ call' = [c \in Callers |-> [call[c] EXCEPT
          !.left = IF call[c].to = "RISK_ACCEPTED" THEN Day(@) ELSE @]]
    /\ UNCHANGED <<misses, verification>>

Lapsed == {f \in Findings : finding[f].status = "RISK_ACCEPTED" /\ finding[f].left < 0}

ObsoleteIfExpired_M(f) == approval[f].pending /\ approval[f].left < 0

\* A request that cannot be granted any more.
Obsolete(f) ==
    /\ approval[f].pending
    /\ \/ ~approval[f].current \/ f \in Lapsed
       \/ finding[f].record = "ARCHIVED" \/ approval[f].left < 0

\* run_maintenance: reopen the expired, cancel the obsolete requests, and archive
\* A, long stale.
Maintenance(A) ==
    /\ \A f \in A : finding[f].record = "STALE"
    /\ finding' = [f \in Findings |-> [finding[f] EXCEPT
          !.status = IF f \in Lapsed THEN "OPEN" ELSE @,
          !.left   = IF f \in Lapsed THEN 0 ELSE @,
          !.record = IF f \in A THEN "ARCHIVED" ELSE @]]
    /\ verification' = [f \in Findings |->
          IF f \in A \cup Lapsed THEN OldVerification(verification[f]) ELSE verification[f]]
    /\ approval' = [f \in Findings |->
          IF Obsolete(f) THEN NoApproval
          ELSE IF f \in A THEN OldApproval(approval[f]) ELSE approval[f]]
    /\ call' = OldCalls(A \cup Lapsed)
    /\ UNCHANGED misses

Maintain == \E A \in SUBSET Findings : Maintenance(A)

-----------------------------------------------------------------------------
WorkflowInit ==
    /\ finding = [f \in Findings |-> Unseen]
    /\ misses = [s \in Sources |-> [f \in Findings |-> Never]]
    /\ verification = [f \in Findings |-> NoVerification]
    /\ approval = [f \in Findings |-> NoApproval]
    /\ call = [c \in Callers |-> NoCall]

ImportNext ==
    \E s \in Sources, R \in SUBSET Findings, snapshot \in BOOLEAN, st \in Status, left \in Days :
        /\ st # "RISK_ACCEPTED" => left = 0
        /\ (\A f \in R : Known(f)) => st = "OPEN"  \* only new findings take it
        /\ Import(s, R, snapshot, st, left)

CallNext(c) ==
    \/ \E f \in Findings, to \in Status, left \in Days, guarded \in BOOLEAN :
          BeginEdit(c, f, to, left, guarded)
    \/ \E f \in Findings, to \in Status \cup {"KEEP"} : LookAtBulk(c, f, to)
    \/ Edit(c)
    \/ WriteBulk(c)

RequestNext(f) ==
    \/ \E scan \in BOOLEAN : RequestVerification(f, scan)
    \/ \E approved \in BOOLEAN : DecideVerification(f, approved) \/ DecideAcceptance(f, approved)
    \/ \E left \in Days : RequestAcceptance(f, left)
    \/ \E record \in RecordState : SetRecord(f, record)

WorkflowNext ==
    \/ ImportNext
    \/ \E c \in Callers : CallNext(c)
    \/ \E f \in Findings : RequestNext(f)
    \/ \E F \in SUBSET Findings : Touch(F) \/ Campaign(F)
    \/ NewDay
    \/ Maintain

WorkflowSpec == WorkflowInit /\ [][WorkflowNext]_workflowVars

\* The maintenance schedule produces a run every interval; nothing makes a user act.
FairWorkflowSpec == WorkflowSpec /\ WF_workflowVars(Maintain)

-----------------------------------------------------------------------------
(* Properties. *)

\* Approving a verification closes the finding as the requester described it:
\* as long as a request can be decided, the finding is MITIGATED, missed as often
\* as recorded, and for SCAN_ABSENCE stale, with no source that sees it.
VerifiedAsRequested ==
    \A f \in Findings : verification[f].pending /\ verification[f].current =>
        /\ finding[f].status = "MITIGATED" /\ finding[f].resolution = "PENDING"
        /\ finding[f].absent = verification[f].observed
        /\ verification[f].scan => /\ finding[f].record = "STALE"
                                   /\ finding[f].absent >= Threshold
                                   /\ ~Present(misses, f)

\* A risk is accepted only for a finding in the status the request was made for
\* (docs/12_RBAC_APPROVALS.md, step 5).
AcceptedAsRequested ==
    \A f \in Findings : approval[f].pending /\ approval[f].current =>
        finding[f].status = approval[f].was

\* An edit that gives its row_version writes only what its checks allow at the
\* time of the write, although they are made in an earlier transaction.
GuardedEditIsLegal ==
    \A c \in Callers : call[c].guarded /\ call[c].current =>
        \A f \in call[c].ids : /\ finding[f].record # "ARCHIVED"
                               /\ call[c].to \in Transitions[finding[f].status]

\* Whoever sees PENDING finds a request that waits (the list of requests and the
\* finding do not drift apart).
PendingIsRequested ==
    \A f \in Findings : finding[f].resolution = "PENDING" => verification[f].pending

\* The absences of a finding are those of the source that missed it least, and
\* it has none while a source sees it (docs/29_MULTI_SCANNER_RECONCILIATION.md).
AbsencesAgree ==
    \A f \in Findings : Known(f) =>
        finding[f].absent = IF Present(misses, f) THEN 0 ELSE Absences(misses, f)

\* Requests to accept a risk that cannot be granted any more do not stay, nor do
\* acceptances that have expired.
AcceptancesSettle ==
    \A f \in Findings :
        /\ []<>~(approval[f].pending /\ ~approval[f].current)
        /\ []<>~(finding[f].status = "RISK_ACCEPTED" /\ finding[f].left < 0)
=============================================================================
