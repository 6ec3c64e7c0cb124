----------------------- MODULE FindingWorkflowProofs -----------------------
(***************************************************************************)
(* The workflow of findings for every number of findings, sources and      *)
(* operators, every absence threshold and every length of exceptions: what *)
(* is decided about a finding is decided about the finding as requested.   *)
(***************************************************************************)
EXTENDS FindingWorkflow, WellFoundedInduction, TLAPS

-----------------------------------------------------------------------------
(* Counting missed scans. *)

Below == {p \in Nat \X Nat : p[1] < p[2]}

LEMMA BelowWellFounded == IsWellFoundedOn(Below, Nat)
BY NatLessThanWellFounded, Zenon DEF OpToRel, Below

\* Min returns the least element of any nonempty set of naturals.
LEMMA MinIsLeast ==
    ASSUME NEW S, S \subseteq Nat, S # {}
    PROVE  Min(S) \in S /\ \A y \in S : Min(S) <= y
<1>1. PICK x \in S : \A y \in S : ~ (<<y, x>> \in Below)
  BY WFMin, BelowWellFounded, Zenon
<1>2. ASSUME NEW y \in S
      PROVE  x <= y
  <2>1. y < x => <<y, x>> \in Below
    BY SMT DEF Below
  <2>2. QED
    BY <2>1, <1>1
<1>3. QED
  BY <1>2 DEF Min

LEMMA EnoughIsEnough == Enough \in Nat /\ Threshold <= Enough /\ ManualThreshold <= Enough
<1>1. ManualThreshold \in Nat /\ Threshold \in Nat
  BY WorkflowAssumption DEF ManualThreshold
<1>2. \E x \in {Threshold, ManualThreshold} : \A y \in {Threshold, ManualThreshold} : x >= y
  BY <1>1
<1>3. QED
  BY <1>1, <1>2 DEF Enough, Max

Counts == Never..Enough

LEMMA MissedTyped ==
    ASSUME NEW n \in Counts, n # Never
    PROVE  Missed(n) \in 1..Enough
BY EnoughIsEnough, WorkflowAssumption DEF Counts, Never, Missed, ManualThreshold

\* The absences of a finding that some source knows and none sees.
LEMMA AbsencesTyped ==
    ASSUME NEW seen \in [Sources -> [Findings -> Counts]], NEW f \in Findings,
           NEW x \in Sources, seen[x][f] # Never
    PROVE  Absences(seen, f) \in 0..Enough
<1> DEFINE S == {seen[y][f] : y \in {z \in Sources : seen[z][f] # Never}}
<1>0. \A y \in Sources : seen[y][f] \in Counts
  OBVIOUS
<1>1. S \subseteq 0..Enough /\ S # {}
  <2>1. seen[x][f] \in S
    OBVIOUS
  <2>2. ASSUME NEW n \in S
        PROVE  n \in 0..Enough
    BY <1>0, EnoughIsEnough DEF Counts, Never
  <2>3. QED
    BY <2>1, <2>2
<1>2. S \subseteq Nat
  BY <1>1, EnoughIsEnough
<1>3. Min(S) \in S
  BY <1>1, <1>2, MinIsLeast
<1>4. QED
  BY <1>1, <1>3 DEF Absences

-----------------------------------------------------------------------------
(* Rows. *)

LEMMA RowFields ==
    ASSUME NEW r \in FindingRow
    PROVE  /\ r.status \in Status /\ r.resolution \in Resolution
           /\ r.record \in RecordState \cup {"NONE"} /\ r.absent \in 0..Enough /\ r.left \in Days
BY DEF FindingRow

\* One column at a time, an update keeps the type of a row.
LEMMA SetColumn ==
    ASSUME NEW r \in FindingRow
    PROVE  /\ \A x \in Status : [r EXCEPT !.status = x] \in FindingRow
           /\ \A x \in Resolution : [r EXCEPT !.resolution = x] \in FindingRow
           /\ \A x \in RecordState \cup {"NONE"} : [r EXCEPT !.record = x] \in FindingRow
           /\ \A x \in 0..Enough : [r EXCEPT !.absent = x] \in FindingRow
           /\ \A x \in Days : [r EXCEPT !.left = x] \in FindingRow
<1>1. \A x \in Status : [r EXCEPT !.status = x] \in FindingRow
  BY DEF FindingRow
<1>2. \A x \in Resolution : [r EXCEPT !.resolution = x] \in FindingRow
  BY DEF FindingRow
<1>3. \A x \in RecordState \cup {"NONE"} : [r EXCEPT !.record = x] \in FindingRow
  BY DEF FindingRow
<1>4. \A x \in 0..Enough : [r EXCEPT !.absent = x] \in FindingRow
  BY DEF FindingRow
<1>5. \A x \in Days : [r EXCEPT !.left = x] \in FindingRow
  BY DEF FindingRow
<1>6. QED
  BY <1>1, <1>2, <1>3, <1>4, <1>5

LEMMA UnseenTyped == Unseen \in FindingRow
BY EnoughIsEnough, WorkflowAssumption DEF Unseen, FindingRow, Status, Resolution, Days

\* The rows an import writes.
LEMMA ReopenedTyped ==
    ASSUME NEW r \in FindingRow
    PROVE  Redetected(r) \in FindingRow
<1>1. 0 \in 0..Enough /\ "ACTIVE" \in RecordState /\ "OPEN" \in Status /\ "REOPENED" \in Resolution
  BY EnoughIsEnough DEF RecordState, Status, Resolution
<1>2. QED
  BY <1>1, RowFields DEF Redetected, FindingRow

LEMMA ReportedTyped ==
    ASSUME NEW r \in FindingRow
    PROVE  Reported(r) \in FindingRow
<1>1. 0 \in 0..Enough /\ "ACTIVE" \in RecordState /\ "UNVERIFIED" \in Resolution
  BY EnoughIsEnough DEF RecordState, Resolution
<1>2. QED
  BY <1>1, RowFields DEF Reported, FindingRow

LEMMA MissingTyped ==
    ASSUME NEW r \in FindingRow, NEW n \in 0..Enough
    PROVE  Missing(r, n) \in FindingRow
<1>1. "STALE" \in RecordState /\ "READY" \in Resolution
  BY DEF RecordState, Resolution
<1>2. QED
  BY <1>1, RowFields DEF Missing, FindingRow

\* The row update_workflow writes, for the statuses its callers may ask for.
LEMMA EditedTyped ==
    ASSUME NEW r \in FindingRow, NEW to \in Status \ {"CLOSED"}, NEW left \in Days
    PROVE  /\ Edited(r, to, left) \in FindingRow
           /\ Edited(r, to, left).record = r.record
           /\ Edited(r, to, left).absent = r.absent
           /\ Edited(r, to, left).resolution = "PENDING" => to \notin Worked
           /\ Edited(r, to, left).resolution = "PENDING" => r.resolution = "PENDING"
<1> DEFINE e == Edited(r, to, left).resolution
<1>1. /\ e \in Resolution
      /\ e = "PENDING" => to \notin Worked /\ r.resolution = "PENDING"
  <2>1. CASE to = "MITIGATED"
    BY <2>1, RowFields DEF Edited, FindingRow, Resolution, Worked
  <2>2. CASE to \in Worked
    BY <2>2, RowFields DEF Edited, FindingRow, Resolution, Worked
  <2>3. CASE to = "RISK_ACCEPTED"
    BY <2>3, RowFields DEF Edited, FindingRow, Resolution, Worked
  <2>4. QED
    BY <2>1, <2>2, <2>3 DEF Status, Worked
<1>2. PICK x : Edited(r, to, left) = [r EXCEPT !.status = to, !.left = left, !.resolution = x]
  BY Zenon DEF Edited
<1>3. x = e
  BY <1>2 DEF FindingRow
<1> HIDE DEF e
<1>4. QED
  BY <1>1, <1>2, <1>3, RowFields DEF FindingRow

-----------------------------------------------------------------------------
(* Versions kept elsewhere. *)

LEMMA OldVerificationTyped ==
    ASSUME NEW v \in VerificationRow
    PROVE  /\ OldVerification(v) \in VerificationRow
           /\ OldVerification(v).pending = v.pending /\ ~OldVerification(v).current
<1>1. v.pending \in BOOLEAN /\ 0 \in 0..Enough
  BY EnoughIsEnough DEF VerificationRow
<1>2. QED
  BY <1>1, Zenon DEF OldVerification, VerificationRow

LEMMA OldApprovalTyped ==
    ASSUME NEW a \in ApprovalRow
    PROVE  /\ OldApproval(a) \in ApprovalRow /\ ~OldApproval(a).current
           /\ OldApproval(a).pending => a.pending
BY DEF OldApproval, ApprovalRow, Status

\* call'[c] of a caller left alone, except perhaps for its version.
SameCall(x, y) == x.op = y.op /\ x.ids = y.ids /\ x.to = y.to /\ x.guarded = y.guarded

LEMMA OldCallsTyped ==
    ASSUME call \in [Callers -> CallRow], NEW F \in SUBSET Findings, NEW c \in Callers
    PROVE  /\ OldCalls(F)[c] \in CallRow
           /\ SameCall(OldCalls(F)[c], call[c])
           /\ OldCalls(F)[c].current => call[c].current
           /\ OldCalls(F)[c].current => \A f \in F : f \notin call[c].ids
<1>1. CASE call[c].ids \cap F = {}
  BY <1>1 DEF OldCalls, SameCall
<1>2. CASE call[c].ids \cap F # {}
  <2>1. OldCalls(F)[c] = [call[c] EXCEPT !.current = FALSE]
    BY <1>2 DEF OldCalls
  <2>2. QED
    BY <2>1 DEF CallRow, SameCall
<1>3. QED
  BY <1>1, <1>2

LEMMA BlanksTyped ==
    /\ NoVerification \in VerificationRow /\ ~NoVerification.pending
    /\ NoApproval \in ApprovalRow /\ ~NoApproval.pending
    /\ NoCall \in CallRow /\ ~NoCall.guarded /\ NoCall.ids = {} /\ NoCall.op = "IDLE"
BY EnoughIsEnough, WorkflowAssumption
   DEF NoVerification, NoApproval, NoCall, VerificationRow, ApprovalRow, CallRow, Status, Days

-----------------------------------------------------------------------------
(* The inductive invariant. *)

\* A finding exists before anything is said about it, and once and for all; only
\* what has been written down can be asked for.
KnownFirst ==
    /\ \A f \in Findings : Known(f) \/ finding[f] = Unseen
    /\ \A s \in Sources, f \in Findings : misses[s][f] # Never => Known(f)
    /\ \A f \in Findings : approval[f].pending => Known(f)
    /\ \A c \in Callers : /\ \A f \in call[c].ids : Known(f)
                          /\ call[c].op = "EDIT" => call[c].to \in Status \ {"CLOSED"}
                          /\ call[c].op = "BULK" => ~call[c].guarded

WorkflowInv ==
    /\ FindingTypeOK /\ KnownFirst /\ AbsencesAgree /\ PendingIsRequested
    /\ VerifiedAsRequested /\ AcceptedAsRequested /\ GuardedEditIsLegal

\* What the three captured versions promise: whoever still has the current one
\* finds the row as it was.
Same(f) == /\ finding'[f].status = finding[f].status
           /\ finding'[f].resolution = finding[f].resolution
           /\ finding'[f].record = finding[f].record
           /\ finding'[f].absent = finding[f].absent
           /\ \A s \in Sources : misses'[s][f] = misses[s][f]

KeepsVerification(f) ==
    verification'[f].pending /\ verification'[f].current =>
        verification'[f] = verification[f] /\ Same(f)

KeepsApproval(f) ==
    approval'[f].pending /\ approval'[f].current =>
        /\ approval[f].pending /\ approval[f].current /\ approval'[f].was = approval[f].was
        /\ finding'[f].status = finding[f].status

KeepsCall(c) ==
    call'[c].guarded /\ call'[c].current =>
        /\ call[c].guarded /\ call[c].current
        /\ call'[c].ids = call[c].ids /\ call'[c].to = call[c].to
        /\ \A f \in call[c].ids : /\ finding'[f].status = finding[f].status
                                  /\ finding'[f].record = finding[f].record

LEMMA KeepsVerifications ==
    ASSUME VerifiedAsRequested, \A f \in Findings : KeepsVerification(f)
    PROVE  VerifiedAsRequested'
BY DEF VerifiedAsRequested, KeepsVerification, Same, Present

LEMMA KeepsApprovals ==
    ASSUME AcceptedAsRequested, \A f \in Findings : KeepsApproval(f)
    PROVE  AcceptedAsRequested'
BY DEF AcceptedAsRequested, KeepsApproval

LEMMA KeepsCalls ==
    ASSUME GuardedEditIsLegal, \A c \in Callers : KeepsCall(c)
    PROVE  GuardedEditIsLegal'
BY DEF GuardedEditIsLegal, KeepsCall

LEMMA InitHolds == WorkflowInit => WorkflowInv
<1> SUFFICES ASSUME WorkflowInit
             PROVE  WorkflowInv
  OBVIOUS
<1>1. FindingTypeOK
  BY UnseenTyped, BlanksTyped, EnoughIsEnough DEF WorkflowInit, FindingTypeOK, Never
<1>2. KnownFirst
  BY BlanksTyped DEF WorkflowInit, KnownFirst
<1>3. AbsencesAgree /\ PendingIsRequested
  BY DEF WorkflowInit, AbsencesAgree, PendingIsRequested, Known, Unseen
<1>4. VerifiedAsRequested /\ AcceptedAsRequested /\ GuardedEditIsLegal
  BY BlanksTyped DEF WorkflowInit, VerifiedAsRequested, AcceptedAsRequested, GuardedEditIsLegal
<1>5. QED
  BY <1>1, <1>2, <1>3, <1>4 DEF WorkflowInv

-----------------------------------------------------------------------------
(* What a step that makes the versions of F old preserves. *)

LEMMA Outdated ==
    ASSUME WorkflowInv, NEW F \in SUBSET Findings,
           \A f \in Findings : f \notin F =>
              finding'[f] = finding[f] /\ \A s \in Sources : misses'[s][f] = misses[s][f],
           \A f \in Findings : \/ f \notin F /\ verification'[f] = verification[f]
                               \/ ~(verification'[f].pending /\ verification'[f].current),
           \A f \in Findings : \/ f \notin F /\ approval'[f] = approval[f]
                               \/ ~(approval'[f].pending /\ approval'[f].current),
           \A c \in Callers : call'[c] = OldCalls(F)[c] \/ ~call'[c].guarded
    PROVE  VerifiedAsRequested' /\ AcceptedAsRequested' /\ GuardedEditIsLegal'
<1>1. \A f \in Findings : KeepsVerification(f)
  BY DEF KeepsVerification, Same
<1>2. \A f \in Findings : KeepsApproval(f)
  BY DEF KeepsApproval
<1>3. ASSUME NEW c \in Callers
      PROVE  KeepsCall(c)
  <2>1. call \in [Callers -> CallRow]
    BY DEF WorkflowInv, FindingTypeOK
  <2>2. \A f \in call[c].ids : f \in Findings
    BY <2>1 DEF CallRow
  <2>3. CASE ~call'[c].guarded
    BY <2>3 DEF KeepsCall
  <2>4. CASE call'[c] = OldCalls(F)[c]
    <3>1. /\ SameCall(OldCalls(F)[c], call[c])
          /\ OldCalls(F)[c].current => call[c].current /\ \A f \in F : f \notin call[c].ids
      BY <2>1, OldCallsTyped
    <3>2. QED
      BY <2>2, <2>4, <3>1 DEF KeepsCall, SameCall
  <2>5. QED
    BY <2>3, <2>4
<1>4. QED
  BY <1>1, <1>2, <1>3, KeepsVerifications, KeepsApprovals, KeepsCalls DEF WorkflowInv

LEMMA KnownStays ==
    ASSUME WorkflowInv,
           \A f \in Findings : Known(f)' \/ (~Known(f) /\ finding'[f] = finding[f]),
           \A s \in Sources, f \in Findings : misses'[s][f] # Never => misses[s][f] # Never \/ Known(f)',
           \A f \in Findings : approval'[f].pending => approval[f].pending \/ Known(f)',
           \A c \in Callers : call'[c] = NoCall \/ SameCall(call'[c], call[c])
    PROVE  KnownFirst'
<1>1. \A f \in Findings : Known(f) => Known(f)'
  OBVIOUS
<1>2. \A f \in Findings : Known(f)' \/ finding'[f] = Unseen
  BY DEF WorkflowInv, KnownFirst
<1>3. \A s \in Sources, f \in Findings : misses'[s][f] # Never => Known(f)'
  BY <1>1 DEF WorkflowInv, KnownFirst
<1>4. \A f \in Findings : approval'[f].pending => Known(f)'
  BY <1>1 DEF WorkflowInv, KnownFirst
<1>5. ASSUME NEW c \in Callers
      PROVE  /\ \A f \in call'[c].ids : Known(f)'
             /\ call'[c].op = "EDIT" => call'[c].to \in Status \ {"CLOSED"}
             /\ call'[c].op = "BULK" => ~call'[c].guarded
  <2>1. \A f \in call[c].ids : f \in Findings /\ Known(f)
    BY DEF WorkflowInv, KnownFirst, FindingTypeOK, CallRow
  <2>2. QED
    BY <1>1, <2>1, BlanksTyped DEF WorkflowInv, KnownFirst, SameCall
<1>6. QED
  BY <1>2, <1>3, <1>4, <1>5 DEF KnownFirst

LEMMA OldRequestsTyped ==
    ASSUME FindingTypeOK, NEW F \in SUBSET Findings, OldRequests(F)
    PROVE  /\ verification' \in [Findings -> VerificationRow]
           /\ approval' \in [Findings -> ApprovalRow]
           /\ \A f \in Findings : /\ verification[f].pending <=> verification'[f].pending
                                  /\ f \notin F => verification'[f] = verification[f]
                                                  /\ approval'[f] = approval[f]
                                  /\ f \in F => ~verification'[f].current /\ ~approval'[f].current
                                  /\ approval'[f].pending => approval[f].pending
<1>1. /\ verification' = [f \in Findings |->
            IF f \in F THEN OldVerification(verification[f]) ELSE verification[f]]
      /\ approval' = [f \in Findings |->
            IF f \in F THEN OldApproval(approval[f]) ELSE approval[f]]
  BY DEF OldRequests
<1>2. \A f \in Findings : verification[f] \in VerificationRow /\ approval[f] \in ApprovalRow
  BY DEF FindingTypeOK
<1>3. QED
  BY <1>1, <1>2, OldVerificationTyped, OldApprovalTyped

\* A step that changes no observation leaves the counts of absences right.
LEMMA AbsencesStay ==
    ASSUME AbsencesAgree, misses' = misses,
           \A f \in Findings : finding'[f].absent = finding[f].absent /\ (Known(f)' => Known(f))
    PROVE  AbsencesAgree'
<1> SUFFICES ASSUME NEW f \in Findings, Known(f)'
             PROVE  finding'[f].absent = IF Present(misses', f) THEN 0 ELSE Absences(misses', f)
  BY DEF AbsencesAgree
<1>1. QED
  BY DEF AbsencesAgree

\* Rows of F whose state of record, status or versions alone change.
LEMMA OldRequestsStep ==
    ASSUME WorkflowInv, NEW F \in SUBSET Findings, OldRequests(F), misses' = misses,
           finding' \in [Findings -> FindingRow], \A f \in F : Known(f),
           \A f \in Findings : f \notin F => finding'[f] = finding[f],
           \A f \in F : /\ Known(f)' /\ finding'[f].absent = finding[f].absent
                        /\ finding'[f].resolution = finding[f].resolution,
           call' \in [Callers -> CallRow],
           \A c \in Callers : call'[c] = OldCalls(F)[c] \/ call'[c] = NoCall
    PROVE  WorkflowInv'
<1>1. FindingTypeOK /\ KnownFirst /\ AbsencesAgree /\ PendingIsRequested
  BY DEF WorkflowInv
<1>2. /\ verification' \in [Findings -> VerificationRow]
      /\ approval' \in [Findings -> ApprovalRow]
      /\ \A f \in Findings : /\ verification[f].pending <=> verification'[f].pending
                             /\ f \notin F => verification'[f] = verification[f]
                                             /\ approval'[f] = approval[f]
                             /\ f \in F => ~verification'[f].current /\ ~approval'[f].current
                             /\ approval'[f].pending => approval[f].pending
  BY <1>1, OldRequestsTyped
<1>3. \A c \in Callers : call'[c] = NoCall \/ SameCall(call'[c], call[c])
  BY <1>1, OldCallsTyped DEF FindingTypeOK
<1>4. \A f \in Findings : /\ finding'[f].absent = finding[f].absent
                          /\ finding'[f].resolution = finding[f].resolution
                          /\ Known(f)' <=> Known(f)
  BY DEF Known
<1>5. FindingTypeOK'
  BY <1>1, <1>2 DEF FindingTypeOK
<1>6. KnownFirst'
  BY <1>2, <1>3, <1>4, KnownStays DEF Known
<1>7. AbsencesAgree'
  BY <1>1, <1>4, AbsencesStay
<1>8. PendingIsRequested'
  BY <1>1, <1>2, <1>4 DEF PendingIsRequested
<1>9. VerifiedAsRequested' /\ AcceptedAsRequested' /\ GuardedEditIsLegal'
  <2>1. \A f \in Findings : \/ f \notin F /\ verification'[f] = verification[f]
                            \/ ~(verification'[f].pending /\ verification'[f].current)
    BY <1>2
  <2>2. \A f \in Findings : \/ f \notin F /\ approval'[f] = approval[f]
                            \/ ~(approval'[f].pending /\ approval'[f].current)
    BY <1>2
  <2>3. \A c \in Callers : call'[c] = OldCalls(F)[c] \/ ~call'[c].guarded
    BY BlanksTyped
  <2>4. QED
    BY <2>1, <2>2, <2>3, Outdated
<1>10. QED
  BY <1>5, <1>6, <1>7, <1>8, <1>9 DEF WorkflowInv

-----------------------------------------------------------------------------
(* One lemma for each kind of step. *)

LEMMA OldCallsOfStep ==
    ASSUME WorkflowInv, NEW F \in SUBSET Findings
    PROVE  /\ OldCalls(F) \in [Callers -> CallRow]
           /\ \A c \in Callers : [OldCalls(F) EXCEPT ![c] = NoCall] \in [Callers -> CallRow]
<1>1. call \in [Callers -> CallRow]
  BY DEF WorkflowInv, FindingTypeOK
<1>2. \A c \in Callers : OldCalls(F)[c] \in CallRow
  BY <1>1, OldCallsTyped
<1>3. OldCalls(F) \in [Callers -> CallRow]
  BY <1>2 DEF OldCalls
<1>4. QED
  BY <1>3, BlanksTyped

LEMMA FindingTyped ==
    ASSUME WorkflowInv
    PROVE  finding \in [Findings -> FindingRow]
BY DEF WorkflowInv, FindingTypeOK

LEMMA TouchStep ==
    ASSUME WorkflowInv, NEW F \in SUBSET Findings, Touch(F)
    PROVE  WorkflowInv'
<1>1. OldRequests(F) /\ misses' = misses /\ finding' = finding /\ call' = OldCalls(F)
  BY DEF Touch
<1>2. \A f \in F : Known(f) /\ Known(f)'
  BY <1>1 DEF Touch, Known
<1>3. QED
  BY <1>1, <1>2, FindingTyped, OldCallsOfStep, OldRequestsStep

LEMMA SetRecordStep ==
    ASSUME WorkflowInv, NEW f \in Findings, NEW record \in RecordState, SetRecord(f, record)
    PROVE  WorkflowInv'
<1>1. /\ OldRequests({f}) /\ misses' = misses /\ call' = OldCalls({f})
      /\ Known(f) /\ finding' = [finding EXCEPT ![f].record = record]
  BY DEF SetRecord
<1>2. finding[f] \in FindingRow
  BY FindingTyped
<1>3. finding'[f] = [finding[f] EXCEPT !.record = record]
  BY <1>1, FindingTyped
<1>4. /\ finding' \in [Findings -> FindingRow]
      /\ \A g \in Findings : g \notin {f} => finding'[g] = finding[g]
  <2>1. [finding[f] EXCEPT !.record = record] \in FindingRow
    BY <1>2, SetColumn
  <2>2. QED
    BY <1>1, <2>1, FindingTyped
<1>5. /\ finding'[f].absent = finding[f].absent
      /\ finding'[f].resolution = finding[f].resolution
      /\ Known(f)'
  BY <1>2, <1>3 DEF FindingRow, Known, RecordState
<1>6. QED
  BY <1>1, <1>4, <1>5, OldCallsOfStep, OldRequestsStep

\* Bulk changes and campaigns.
LEMMA BulkStep ==
    ASSUME WorkflowInv, NEW F \in SUBSET Findings, NEW to \in Status \cup {"KEEP"},
           Bulk(F, to), \A f \in F : Known(f), call' \in [Callers -> CallRow],
           \A c \in Callers : call'[c] = OldCalls(F)[c] \/ call'[c] = NoCall
    PROVE  WorkflowInv'
<1>1. /\ OldRequests(F) /\ misses' = misses
      /\ finding' = [f \in Findings |-> IF f \in F THEN Bulked(finding[f], to) ELSE finding[f]]
  BY DEF Bulk
<1>2. ASSUME NEW r \in FindingRow
      PROVE  /\ Bulked(r, to) \in FindingRow
             /\ Bulked(r, to).absent = r.absent
             /\ Bulked(r, to).resolution = r.resolution
             /\ Bulked(r, to).record = r.record
  <2>1. CASE to = "KEEP"
    BY <2>1 DEF Bulked
  <2>2. CASE to # "KEEP"
    <3>1. to \in Status /\ 0 \in Days
      BY <2>2, WorkflowAssumption DEF Days
    <3>2. Bulked(r, to) = [r EXCEPT !.status = to, !.left = 0]
      BY <2>2 DEF Bulked
    <3>3. QED
      BY <3>1, <3>2 DEF FindingRow
  <2>3. QED
    BY <2>1, <2>2
<1>3. /\ finding' \in [Findings -> FindingRow]
      /\ \A f \in Findings : f \notin F => finding'[f] = finding[f]
      /\ \A f \in F : finding'[f] = Bulked(finding[f], to)
  BY <1>1, <1>2, FindingTyped
<1>4. \A f \in F : /\ Known(f)' /\ finding'[f].absent = finding[f].absent
                   /\ finding'[f].resolution = finding[f].resolution
  BY <1>2, <1>3, FindingTyped DEF Known
<1>5. QED
  BY <1>1, <1>3, <1>4, OldRequestsStep

LEMMA WriteBulkStep ==
    ASSUME WorkflowInv, NEW c \in Callers, WriteBulk(c)
    PROVE  WorkflowInv'
<1>1. /\ Bulk(call[c].ids, call[c].to)
      /\ call' = [OldCalls(call[c].ids) EXCEPT ![c] = NoCall]
  BY DEF WriteBulk
<1>2. /\ call[c].ids \in SUBSET Findings /\ call[c].to \in Status \cup {"KEEP"}
      /\ \A f \in call[c].ids : Known(f)
  BY DEF WorkflowInv, FindingTypeOK, CallRow, KnownFirst
<1>3. /\ call' \in [Callers -> CallRow]
      /\ \A d \in Callers : call'[d] = OldCalls(call[c].ids)[d] \/ call'[d] = NoCall
  BY <1>1, <1>2, OldCallsOfStep
<1>4. QED
  BY <1>1, <1>2, <1>3, BulkStep

LEMMA CampaignStep ==
    ASSUME WorkflowInv, NEW F \in SUBSET Findings, Campaign(F)
    PROVE  WorkflowInv'
<1>1. Bulk(F, "IN_PROGRESS") /\ call' = OldCalls(F) /\ \A f \in F : Known(f)
  BY DEF Campaign
<1>2. "IN_PROGRESS" \in Status \cup {"KEEP"}
  BY DEF Status
<1>3. QED
  BY <1>1, <1>2, OldCallsOfStep, BulkStep

\* A look writes nothing but the caller's own notes.
LEMMA LookStep ==
    ASSUME WorkflowInv, UNCHANGED <<finding, misses, verification, approval>>,
           NEW c \in Callers, NEW x \in CallRow, call' = [call EXCEPT ![c] = x],
           x.op = "EDIT" => x.to \in Status \ {"CLOSED"},
           x.op = "BULK" => ~x.guarded,
           \A f \in x.ids : Known(f),
           x.guarded => \A f \in x.ids : /\ finding[f].record # "ARCHIVED"
                                         /\ x.to \in Transitions[finding[f].status]
    PROVE  WorkflowInv'
<1>1. /\ finding' = finding /\ misses' = misses /\ verification' = verification
      /\ approval' = approval
  OBVIOUS
<1>2. call'[c] = x /\ \A d \in Callers : d # c => call'[d] = call[d]
  BY DEF WorkflowInv, FindingTypeOK
<1>3. FindingTypeOK'
  BY <1>1 DEF WorkflowInv, FindingTypeOK
<1>4. KnownFirst'
  <2>1. \A f \in Findings : Known(f)' \/ finding'[f] = Unseen
    BY <1>1 DEF WorkflowInv, KnownFirst, Known
  <2>2. \A s \in Sources, f \in Findings : misses'[s][f] # Never => Known(f)'
    BY <1>1 DEF WorkflowInv, KnownFirst, Known
  <2>3. ASSUME NEW d \in Callers
        PROVE  /\ \A f \in call'[d].ids : Known(f)'
               /\ call'[d].op = "EDIT" => call'[d].to \in Status \ {"CLOSED"}
               /\ call'[d].op = "BULK" => ~call'[d].guarded
    <3>1. CASE d = c
      BY <1>1, <1>2, <3>1 DEF Known
    <3>2. CASE d # c
      BY <1>1, <1>2, <3>2 DEF WorkflowInv, KnownFirst, Known
    <3>3. QED
      BY <3>1, <3>2
  <2>4. \A f \in Findings : approval'[f].pending => Known(f)'
    BY <1>1 DEF WorkflowInv, KnownFirst, Known
  <2>5. QED
    BY <2>1, <2>2, <2>3, <2>4 DEF KnownFirst
<1>5. AbsencesAgree' /\ PendingIsRequested' /\ VerifiedAsRequested' /\ AcceptedAsRequested'
  BY <1>1 DEF WorkflowInv, AbsencesAgree, PendingIsRequested, VerifiedAsRequested,
              AcceptedAsRequested, Known
<1>6. GuardedEditIsLegal'
  BY <1>1, <1>2 DEF WorkflowInv, GuardedEditIsLegal
<1>7. QED
  BY <1>3, <1>4, <1>5, <1>6 DEF WorkflowInv

LEMMA BeginEditStep ==
    ASSUME WorkflowInv, NEW c \in Callers, NEW f \in Findings, NEW to \in Status,
           NEW left \in Days, NEW guarded \in BOOLEAN, BeginEdit(c, f, to, left, guarded)
    PROVE  WorkflowInv'
<1> DEFINE x == [op |-> "EDIT", ids |-> {f}, to |-> to, left |-> left,
                 guarded |-> guarded, current |-> guarded]
<1>1. /\ UNCHANGED <<finding, misses, verification, approval>>
      /\ call' = [call EXCEPT ![c] = x] /\ to # "CLOSED"
      /\ Known(f) /\ finding[f].record # "ARCHIVED"
      /\ to # "KEEP" => to \in Transitions[finding[f].status]
  BY DEF BeginEdit, Editable
<1>2. x \in CallRow /\ x.op = "EDIT" /\ x.ids = {f} /\ x.to = to
  BY DEF CallRow
<1>3. to # "KEEP"
  BY DEF Status
<1> HIDE DEF x
<1>4. QED
  BY <1>1, <1>2, <1>3, LookStep

LEMMA LookAtBulkStep ==
    ASSUME WorkflowInv, NEW c \in Callers, NEW f \in Findings, NEW to \in Status \cup {"KEEP"},
           LookAtBulk(c, f, to)
    PROVE  WorkflowInv'
<1> DEFINE x == Looked(call[c].ids \cup {f}, to)
<1>1. /\ UNCHANGED <<finding, misses, verification, approval>>
      /\ call' = [call EXCEPT ![c] = x] /\ Known(f)
  BY DEF LookAtBulk, Editable
<1>2. call[c].ids \in SUBSET Findings /\ \A g \in call[c].ids : Known(g)
  BY DEF WorkflowInv, FindingTypeOK, CallRow, KnownFirst
<1>3. /\ x \in CallRow /\ x.op = "BULK" /\ x.ids = call[c].ids \cup {f} /\ ~x.guarded
  BY <1>2, WorkflowAssumption DEF CallRow, Looked, Days
<1> HIDE DEF x
<1>4. QED
  BY <1>1, <1>2, <1>3, LookStep

LEMMA RequestAcceptanceStep ==
    ASSUME WorkflowInv, NEW f \in Findings, NEW left \in Days, RequestAcceptance(f, left)
    PROVE  WorkflowInv'
<1> DEFINE a == [pending |-> TRUE, left |-> left, was |-> finding[f].status, current |-> TRUE]
<1>1. /\ finding' = finding /\ misses' = misses /\ verification' = verification /\ call' = call
      /\ approval' = [approval EXCEPT ![f] = a]
  BY DEF RequestAcceptance
<1>2. a \in ApprovalRow /\ a.was = finding[f].status
  BY FindingTyped, RowFields DEF ApprovalRow
<1> HIDE DEF a
<1>3. approval'[f] = a /\ \A g \in Findings : g # f => approval'[g] = approval[g]
  BY <1>1 DEF WorkflowInv, FindingTypeOK
<1>4. FindingTypeOK'
  BY <1>1, <1>2 DEF WorkflowInv, FindingTypeOK
<1>5. KnownFirst'
  <2>1. Known(f)
    BY DEF RequestAcceptance
  <2>2. \A g \in Findings : approval'[g].pending => approval[g].pending \/ Known(g)'
    BY <1>1, <1>3, <2>1 DEF Known
  <2>3. QED
    BY <1>1, <2>2, KnownStays DEF Known, SameCall
<1>6. AbsencesAgree' /\ PendingIsRequested' /\ VerifiedAsRequested' /\ GuardedEditIsLegal'
  BY <1>1 DEF WorkflowInv, AbsencesAgree, PendingIsRequested, VerifiedAsRequested,
              GuardedEditIsLegal, Known
<1>7. AcceptedAsRequested'
  BY <1>1, <1>2, <1>3 DEF WorkflowInv, AcceptedAsRequested
<1>8. QED
  BY <1>4, <1>5, <1>6, <1>7 DEF WorkflowInv

LEMMA DayTyped ==
    ASSUME NEW n \in Days
    PROVE  Day(n) \in Days
BY WorkflowAssumption DEF Day, Days

\* A day that passes changes dates only, and dates are in none of the promises.
LEMMA NewDayStep ==
    ASSUME WorkflowInv, NewDay
    PROVE  WorkflowInv'
<1>1. misses' = misses /\ verification' = verification
  BY DEF NewDay
<1>2. ASSUME NEW f \in Findings
      PROVE  /\ finding'[f] \in FindingRow
             /\ finding'[f].status = finding[f].status
             /\ finding'[f].resolution = finding[f].resolution
             /\ finding'[f].record = finding[f].record
             /\ finding'[f].absent = finding[f].absent
             /\ finding'[f].status # "RISK_ACCEPTED" => finding'[f] = finding[f]
  <2>1. finding[f] \in FindingRow
    BY FindingTyped
  <2> DEFINE n == IF finding[f].status = "RISK_ACCEPTED" THEN Day(finding[f].left)
                                                          ELSE finding[f].left
  <2>2. finding'[f] = [finding[f] EXCEPT !.left = n]
    BY DEF NewDay
  <2>3. n \in Days /\ (finding[f].status # "RISK_ACCEPTED" => n = finding[f].left)
    BY <2>1, DayTyped, RowFields
  <2> HIDE DEF n
  <2>4. QED
    BY <2>1, <2>2, <2>3 DEF FindingRow
<1>3. ASSUME NEW f \in Findings
      PROVE  /\ approval'[f] \in ApprovalRow
             /\ approval'[f].pending => approval[f].pending
             /\ approval'[f].current => approval[f].current
             /\ approval'[f].was = approval[f].was
  <2>1. approval[f] \in ApprovalRow
    BY DEF WorkflowInv, FindingTypeOK
  <2> DEFINE n == IF approval[f].pending THEN Day(approval[f].left) ELSE approval[f].left
  <2>2. approval'[f] = [approval[f] EXCEPT !.left = n]
    BY DEF NewDay
  <2>3. n \in Days
    BY <2>1, DayTyped DEF ApprovalRow
  <2> HIDE DEF n
  <2>4. QED
    BY <2>1, <2>2, <2>3 DEF ApprovalRow
<1>4. ASSUME NEW c \in Callers
      PROVE  /\ call'[c] \in CallRow
             /\ SameCall(call'[c], call[c])
             /\ call'[c].current => call[c].current
  <2>1. call[c] \in CallRow
    BY DEF WorkflowInv, FindingTypeOK
  <2> DEFINE n == IF call[c].to = "RISK_ACCEPTED" THEN Day(call[c].left) ELSE call[c].left
  <2>2. call'[c] = [call[c] EXCEPT !.left = n]
    BY DEF NewDay
  <2>3. n \in Days
    BY <2>1, DayTyped DEF CallRow
  <2> HIDE DEF n
  <2>4. QED
    BY <2>1, <2>2, <2>3 DEF CallRow, SameCall
<1>5. FindingTypeOK'
  <2>1. finding' \in [Findings -> FindingRow]
    BY <1>2 DEF NewDay
  <2>2. approval' \in [Findings -> ApprovalRow]
    BY <1>3 DEF NewDay
  <2>3. call' \in [Callers -> CallRow]
    BY <1>4 DEF NewDay
  <2>4. QED
    BY <1>1, <2>1, <2>2, <2>3 DEF WorkflowInv, FindingTypeOK
<1>6. \A f \in Findings : Known(f)' <=> Known(f)
  BY <1>2 DEF Known
<1>7. KnownFirst'
  <2>1. \A f \in Findings : finding[f] = Unseen => finding'[f] = finding[f]
    BY <1>2 DEF Unseen
  <2>2. \A f \in Findings : Known(f)' \/ (~Known(f) /\ finding'[f] = finding[f])
    BY <1>6, <2>1 DEF WorkflowInv, KnownFirst
  <2>3. QED
    BY <1>1, <1>3, <1>4, <2>2, KnownStays
<1>8. AbsencesAgree'
  BY <1>1, <1>2, <1>6, AbsencesStay DEF WorkflowInv
<1>9. PendingIsRequested'
  BY <1>1, <1>2 DEF WorkflowInv, PendingIsRequested
<1>10. VerifiedAsRequested'
  <2>1. \A f \in Findings : KeepsVerification(f)
    BY <1>1, <1>2 DEF KeepsVerification, Same
  <2>2. QED
    BY <2>1, KeepsVerifications DEF WorkflowInv
<1>11. AcceptedAsRequested'
  <2>1. \A f \in Findings : KeepsApproval(f)
    BY <1>2, <1>3 DEF KeepsApproval
  <2>2. QED
    BY <2>1, KeepsApprovals DEF WorkflowInv
<1>12. GuardedEditIsLegal'
  <2>1. ASSUME NEW c \in Callers
        PROVE  KeepsCall(c)
    <3>1. \A f \in call[c].ids : f \in Findings
      BY DEF WorkflowInv, FindingTypeOK, CallRow
    <3>2. QED
      BY <1>2, <1>4, <3>1 DEF KeepsCall, SameCall
  <2>2. QED
    BY <2>1, KeepsCalls DEF WorkflowInv
<1>13. QED
  BY <1>5, <1>7, <1>8, <1>9, <1>10, <1>11, <1>12 DEF WorkflowInv

\* Writes to one finding f that make row r of it, with the requests v and a about it.
LEMMA OneFindingStep ==
    ASSUME WorkflowInv, NEW f \in Findings, Known(f), misses' = misses,
           NEW r \in FindingRow, finding' = [finding EXCEPT ![f] = r],
           r.record # "NONE", r.absent = finding[f].absent,
           NEW v \in VerificationRow, verification' = [verification EXCEPT ![f] = v],
           r.resolution = "PENDING" => v.pending,
           v.pending /\ v.current =>
              /\ r.status = "MITIGATED" /\ r.resolution = "PENDING" /\ r.absent = v.observed
              /\ v.scan => r.record = "STALE" /\ r.absent >= Threshold /\ ~Present(misses, f),
           NEW a \in ApprovalRow, approval' = [approval EXCEPT ![f] = a], ~(a.pending /\ a.current),
           call' \in [Callers -> CallRow],
           \A c \in Callers : call'[c] = OldCalls({f})[c] \/ call'[c] = NoCall
    PROVE  WorkflowInv'
<1>1. /\ finding'[f] = r /\ verification'[f] = v /\ approval'[f] = a
      /\ \A g \in Findings \ {f} : /\ finding'[g] = finding[g]
                                   /\ verification'[g] = verification[g]
                                   /\ approval'[g] = approval[g]
  BY DEF WorkflowInv, FindingTypeOK
<1>2. FindingTypeOK'
  BY DEF WorkflowInv, FindingTypeOK
<1>3. KnownFirst'
  <2>1. \A g \in Findings : Known(g)' \/ (~Known(g) /\ finding'[g] = finding[g])
    BY <1>1 DEF Known
  <2>2. \A c \in Callers : call'[c] = NoCall \/ SameCall(call'[c], call[c])
    BY OldCallsTyped DEF WorkflowInv, FindingTypeOK
  <2>3. \A g \in Findings : approval'[g].pending => approval[g].pending \/ Known(g)'
    BY <1>1 DEF Known
  <2>4. QED
    BY <2>1, <2>2, <2>3, KnownStays
<1>4. AbsencesAgree'
  <2>1. \A g \in Findings : finding'[g].absent = finding[g].absent /\ (Known(g)' => Known(g))
    BY <1>1 DEF Known
  <2>2. QED
    BY <2>1, AbsencesStay DEF WorkflowInv
<1>5. PendingIsRequested'
  <2>1. \A g \in Findings : finding'[g].resolution = "PENDING" => verification'[g].pending
    BY <1>1 DEF WorkflowInv, PendingIsRequested
  <2>2. QED
    BY <2>1 DEF PendingIsRequested
<1>6. VerifiedAsRequested'
  <2> SUFFICES ASSUME NEW g \in Findings, verification'[g].pending, verification'[g].current
               PROVE  /\ finding'[g].status = "MITIGATED" /\ finding'[g].resolution = "PENDING"
                      /\ finding'[g].absent = verification'[g].observed
                      /\ verification'[g].scan => /\ finding'[g].record = "STALE"
                                                  /\ finding'[g].absent >= Threshold
                                                  /\ ~Present(misses, g)
    BY DEF VerifiedAsRequested
  <2>1. CASE g = f
    BY <1>1, <2>1
  <2>2. CASE g # f
    BY <1>1, <2>2 DEF WorkflowInv, VerifiedAsRequested
  <2>3. QED
    BY <2>1, <2>2
<1>7. AcceptedAsRequested'
  <2>1. \A g \in Findings : KeepsApproval(g)
    BY <1>1 DEF KeepsApproval
  <2>2. QED
    BY <2>1, KeepsApprovals DEF WorkflowInv
<1>8. GuardedEditIsLegal'
  <2>1. ASSUME NEW c \in Callers
        PROVE  KeepsCall(c)
    <3>1. CASE call'[c] = NoCall
      BY <3>1, BlanksTyped DEF KeepsCall
    <3>2. CASE call'[c] = OldCalls({f})[c]
      <4>1. /\ SameCall(OldCalls({f})[c], call[c])
            /\ OldCalls({f})[c].current => call[c].current /\ f \notin call[c].ids
        BY OldCallsTyped DEF WorkflowInv, FindingTypeOK
      <4>2. \A g \in call[c].ids : g \in Findings
        BY DEF WorkflowInv, FindingTypeOK, CallRow
      <4>3. QED
        BY <1>1, <3>2, <4>1, <4>2 DEF KeepsCall, SameCall
    <3>3. QED
      BY <3>1, <3>2
  <2>2. QED
    BY <2>1, KeepsCalls DEF WorkflowInv
<1>9. QED
  BY <1>2, <1>3, <1>4, <1>5, <1>6, <1>7, <1>8 DEF WorkflowInv

LEMMA EditStep ==
    ASSUME WorkflowInv, NEW c \in Callers, Edit(c)
    PROVE  WorkflowInv'
<1>1. CASE call[c].guarded /\ ~call[c].current
  <2>1. UNCHANGED <<finding, misses, verification, approval>> /\ call' = [call EXCEPT ![c] = NoCall]
    BY <1>1 DEF Edit
  <2>2. QED
    BY <2>1, BlanksTyped, LookStep
<1>2. CASE ~(call[c].guarded /\ ~call[c].current)
  <2> DEFINE to == call[c].to
             left == call[c].left
  <2>1. PICK f \in call[c].ids :
           /\ finding' = [finding EXCEPT ![f] = Edited(@, to, left)]
           /\ verification' = [verification EXCEPT ![f] =
                 IF to \in Worked THEN NoVerification ELSE OldVerification(@)]
           /\ approval' = [approval EXCEPT ![f] = OldApproval(@)]
           /\ call' = [OldCalls({f}) EXCEPT ![c] = NoCall]
    BY <1>2 DEF Edit
  <2>2. /\ f \in Findings /\ Known(f) /\ to \in Status \ {"CLOSED"} /\ left \in Days
        /\ misses' = misses
    BY DEF Edit, WorkflowInv, FindingTypeOK, KnownFirst, CallRow
  <2> DEFINE r == Edited(finding[f], to, left)
             v == IF to \in Worked THEN NoVerification ELSE OldVerification(verification[f])
             a == OldApproval(approval[f])
  <2>3. /\ finding' = [finding EXCEPT ![f] = r]
        /\ verification' = [verification EXCEPT ![f] = v]
        /\ approval' = [approval EXCEPT ![f] = a]
    BY <2>1, <2>2
  <2>4. /\ r \in FindingRow /\ r.record = finding[f].record /\ r.absent = finding[f].absent
        /\ r.resolution = "PENDING" => to \notin Worked /\ finding[f].resolution = "PENDING"
    BY <2>2, FindingTyped, EditedTyped
  <2>5. verification[f] \in VerificationRow /\ approval[f] \in ApprovalRow
    BY <2>2 DEF WorkflowInv, FindingTypeOK
  <2>6. /\ v \in VerificationRow /\ ~(v.pending /\ v.current)
        /\ to \notin Worked /\ verification[f].pending => v.pending
    BY <2>5, BlanksTyped, OldVerificationTyped
  <2>7. a \in ApprovalRow /\ ~(a.pending /\ a.current)
    BY <2>5, OldApprovalTyped
  <2>8. r.resolution = "PENDING" => v.pending
    BY <2>2, <2>4, <2>6 DEF WorkflowInv, PendingIsRequested
  <2>9. r.record # "NONE"
    BY <2>2, <2>4 DEF Known
  <2>10. /\ call' \in [Callers -> CallRow]
         /\ \A d \in Callers : call'[d] = OldCalls({f})[d] \/ call'[d] = NoCall
    BY <2>1, <2>2, OldCallsOfStep
  <2> HIDE DEF r, v, a
  <2>11. QED
    BY <2>2, <2>3, <2>4, <2>6, <2>7, <2>8, <2>9, <2>10, OneFindingStep
<1>3. QED
  BY <1>1, <1>2

LEMMA RequestVerificationStep ==
    ASSUME WorkflowInv, NEW f \in Findings, NEW scan \in BOOLEAN, RequestVerification(f, scan)
    PROVE  WorkflowInv'
<1> DEFINE r == [finding[f] EXCEPT !.resolution = "PENDING"]
           v == [pending |-> TRUE, scan |-> scan, observed |-> finding[f].absent, current |-> TRUE]
           a == OldApproval(approval[f])
<1>1. /\ finding[f].status = "MITIGATED" /\ Known(f) /\ misses' = misses
      /\ scan => finding[f].record = "STALE" /\ finding[f].absent >= Threshold
      /\ finding' = [finding EXCEPT ![f] = r]
      /\ verification' = [verification EXCEPT ![f] = v]
      /\ approval' = [approval EXCEPT ![f] = a]
      /\ call' = OldCalls({f})
  BY FindingTyped DEF RequestVerification
<1>2. finding[f] \in FindingRow
  BY FindingTyped
<1>3. /\ r \in FindingRow /\ r.status = finding[f].status /\ r.resolution = "PENDING"
      /\ r.record = finding[f].record /\ r.absent = finding[f].absent
  BY <1>2 DEF FindingRow, Resolution
<1>4. v \in VerificationRow /\ v.pending /\ v.observed = finding[f].absent /\ (v.scan <=> scan)
  BY <1>2, RowFields DEF VerificationRow
<1>5. a \in ApprovalRow /\ ~(a.pending /\ a.current)
  BY OldApprovalTyped DEF WorkflowInv, FindingTypeOK
<1>6. scan => ~Present(misses, f)
  <2>1. Present(misses, f) => finding[f].absent = 0
    BY <1>1 DEF WorkflowInv, AbsencesAgree
  <2>2. QED
    BY <1>1, <2>1, WorkflowAssumption
<1> HIDE DEF r, v, a
<1>7. QED
  BY <1>1, <1>3, <1>4, <1>5, <1>6, OldCallsOfStep, OneFindingStep DEF Known

LEMMA DecideVerificationStep ==
    ASSUME WorkflowInv, NEW f \in Findings, NEW approved \in BOOLEAN,
           DecideVerification(f, approved)
    PROVE  WorkflowInv'
<1> DEFINE st == IF approved THEN "CLOSED" ELSE "IN_PROGRESS"
           rs == IF approved THEN "VERIFIED" ELSE "REJECTED"
           r == [finding[f] EXCEPT !.status = st, !.resolution = rs]
           a == OldApproval(approval[f])
<1>1. /\ verification[f].pending /\ verification[f].current /\ misses' = misses
      /\ finding' = [finding EXCEPT ![f] = r]
      /\ verification' = [verification EXCEPT ![f] = NoVerification]
      /\ approval' = [approval EXCEPT ![f] = a]
      /\ call' = OldCalls({f})
  BY FindingTyped DEF DecideVerification
<1>2. finding[f] \in FindingRow
  BY FindingTyped
<1>3. Known(f)
  BY <1>1 DEF WorkflowInv, KnownFirst, VerifiedAsRequested, Unseen
<1>4. st \in Status /\ rs \in Resolution /\ rs # "PENDING"
  BY DEF Status, Resolution
<1> HIDE DEF st, rs
<1>5. /\ r \in FindingRow /\ r.resolution # "PENDING"
      /\ r.record = finding[f].record /\ r.absent = finding[f].absent
  BY <1>2, <1>4 DEF FindingRow
<1>6. a \in ApprovalRow /\ ~(a.pending /\ a.current)
  BY OldApprovalTyped DEF WorkflowInv, FindingTypeOK
<1> HIDE DEF r, a
<1>7. QED
  BY <1>1, <1>3, <1>5, <1>6, BlanksTyped, OldCallsOfStep, OneFindingStep DEF Known

LEMMA DecideAcceptanceStep ==
    ASSUME WorkflowInv, NEW f \in Findings, NEW approved \in BOOLEAN,
           DecideAcceptance(f, approved)
    PROVE  WorkflowInv'
<1>1. /\ misses' = misses /\ approval[f].pending /\ approval[f].left >= 0
      /\ approval' = [approval EXCEPT ![f] = NoApproval]
  BY DEF DecideAcceptance
<1>2. CASE approved
  <2> DEFINE r == [finding[f] EXCEPT !.status = "RISK_ACCEPTED", !.left = approval[f].left]
             v == OldVerification(verification[f])
  <2>1. /\ finding' = [finding EXCEPT ![f] = r]
        /\ verification' = [verification EXCEPT ![f] = v]
        /\ call' = OldCalls({f})
    BY <1>2, FindingTyped DEF DecideAcceptance
  <2>2. finding[f] \in FindingRow /\ approval[f].left \in Days
    BY FindingTyped DEF WorkflowInv, FindingTypeOK, ApprovalRow
  <2>3. /\ r \in FindingRow /\ r.resolution = finding[f].resolution
        /\ r.record = finding[f].record /\ r.absent = finding[f].absent
    BY <2>2 DEF FindingRow, Status
  <2>4. Known(f)
    BY <1>1 DEF WorkflowInv, KnownFirst
  <2>5. /\ v \in VerificationRow /\ ~v.current /\ (verification[f].pending => v.pending)
    BY OldVerificationTyped DEF WorkflowInv, FindingTypeOK
  <2>6. r.resolution = "PENDING" => v.pending
    BY <2>3, <2>5 DEF WorkflowInv, PendingIsRequested
  <2> HIDE DEF r, v
  <2>7. QED
    BY <1>1, <2>1, <2>3, <2>4, <2>5, <2>6, BlanksTyped, OldCallsOfStep, OneFindingStep DEF Known
<1>3. CASE ~approved
  <2>1. finding' = finding /\ verification' = verification /\ call' = call
    BY <1>3 DEF DecideAcceptance
  <2>2. /\ approval'[f] = NoApproval
        /\ \A g \in Findings : g # f => approval'[g] = approval[g]
    BY <1>1 DEF WorkflowInv, FindingTypeOK
  <2>3. FindingTypeOK'
    BY <1>1, <2>1, BlanksTyped DEF WorkflowInv, FindingTypeOK
  <2>4. KnownFirst'
    <3>1. \A g \in Findings : approval'[g].pending => approval[g].pending \/ Known(g)'
      BY <2>2, BlanksTyped
    <3>2. QED
      BY <1>1, <2>1, <3>1, KnownStays DEF Known, SameCall
  <2>5. AbsencesAgree' /\ PendingIsRequested' /\ VerifiedAsRequested' /\ GuardedEditIsLegal'
    BY <1>1, <2>1 DEF WorkflowInv, AbsencesAgree, PendingIsRequested, VerifiedAsRequested,
                      GuardedEditIsLegal, Known
  <2>6. AcceptedAsRequested'
    BY <2>1, <2>2, BlanksTyped DEF WorkflowInv, AcceptedAsRequested
  <2>7. QED
    BY <2>3, <2>4, <2>5, <2>6 DEF WorkflowInv
<1>4. QED
  BY <1>2, <1>3

LEMMA MaintenanceStep ==
    ASSUME WorkflowInv, NEW A \in SUBSET Findings, Maintenance(A)
    PROVE  WorkflowInv'
<1> DEFINE F == A \cup Lapsed
<1>1. F \in SUBSET Findings
  BY DEF Lapsed
<1>2. ASSUME NEW f \in F
      PROVE  Known(f)
  <2>1. finding[f].status = "RISK_ACCEPTED" \/ finding[f].record = "STALE"
    BY DEF Maintenance, Lapsed
  <2>2. Unseen.status = "OPEN" /\ Unseen.record = "NONE"
    BY DEF Unseen
  <2>3. Known(f) \/ finding[f] = Unseen
    BY <1>1 DEF WorkflowInv, KnownFirst
  <2>4. QED
    BY <2>1, <2>2, <2>3 DEF Known
<1>3. misses' = misses /\ call' = OldCalls(F)
  BY DEF Maintenance
<1>4. ASSUME NEW f \in Findings
      PROVE  /\ finding'[f] \in FindingRow
             /\ f \notin F => finding'[f] = finding[f]
             /\ finding'[f].resolution = finding[f].resolution
             /\ finding'[f].absent = finding[f].absent
             /\ Known(f)' <=> Known(f)
  <2> DEFINE st == IF f \in Lapsed THEN "OPEN" ELSE finding[f].status
             n == IF f \in Lapsed THEN 0 ELSE finding[f].left
             rec == IF f \in A THEN "ARCHIVED" ELSE finding[f].record
  <2>1. finding'[f] = [finding[f] EXCEPT !.status = st, !.left = n, !.record = rec]
    BY DEF Maintenance
  <2>2. finding[f] \in FindingRow
    BY FindingTyped
  <2>3. /\ st \in Status /\ n \in Days /\ rec \in RecordState \cup {"NONE"}
        /\ rec = "NONE" <=> finding[f].record = "NONE"
    <3>1. st \in Status /\ n \in Days
      BY <2>2, RowFields, WorkflowAssumption DEF Status, Days
    <3>2. rec \in RecordState \cup {"NONE"}
      BY <2>2, RowFields DEF RecordState
    <3>3. f \in A => finding[f].record # "NONE"
      BY <1>2 DEF Known
    <3>4. rec = "NONE" <=> finding[f].record = "NONE"
      BY <3>3
    <3>5. QED
      BY <3>1, <3>2, <3>4
  <2>4. f \notin F => st = finding[f].status /\ n = finding[f].left /\ rec = finding[f].record
    OBVIOUS
  <2> HIDE DEF st, n, rec, F
  <2>5. /\ finding'[f] \in FindingRow
        /\ finding'[f].resolution = finding[f].resolution
        /\ finding'[f].absent = finding[f].absent
        /\ finding'[f].record = rec
    BY <2>1, <2>2, <2>3 DEF FindingRow
  <2>6. f \notin F => finding'[f] = finding[f]
    <3>1. [finding[f] EXCEPT !.status = finding[f].status, !.left = finding[f].left,
                             !.record = finding[f].record] = finding[f]
      BY <2>2 DEF FindingRow
    <3>2. QED
      BY <2>1, <2>4, <3>1
  <2>7. QED
    BY <2>3, <2>5, <2>6 DEF Known
<1>5. ASSUME NEW f \in Findings
      PROVE  /\ verification'[f] \in VerificationRow
             /\ verification[f].pending <=> verification'[f].pending
             /\ \/ f \notin F /\ verification'[f] = verification[f]
                \/ ~(verification'[f].pending /\ verification'[f].current)
  <2>1. verification[f] \in VerificationRow
    BY DEF WorkflowInv, FindingTypeOK
  <2>2. verification'[f] = IF f \in F THEN OldVerification(verification[f]) ELSE verification[f]
    BY DEF Maintenance
  <2> HIDE DEF F
  <2>3. QED
    BY <2>1, <2>2, OldVerificationTyped
<1>6. ASSUME NEW f \in Findings
      PROVE  /\ approval'[f] \in ApprovalRow
             /\ approval'[f].pending => approval[f].pending
             /\ \/ f \notin F /\ approval'[f] = approval[f]
                \/ ~(approval'[f].pending /\ approval'[f].current)
  <2>1. approval[f] \in ApprovalRow
    BY DEF WorkflowInv, FindingTypeOK
  <2>2. approval'[f] = IF Obsolete(f) THEN NoApproval
                       ELSE IF f \in A THEN OldApproval(approval[f]) ELSE approval[f]
    BY DEF Maintenance
  <2>3. CASE Obsolete(f)
    BY <2>2, <2>3, BlanksTyped
  <2>4. CASE ~Obsolete(f) /\ f \in A
    BY <2>1, <2>2, <2>4, OldApprovalTyped
  <2>5. CASE ~Obsolete(f) /\ f \notin A
    <3>1. approval'[f] = approval[f]
      BY <2>2, <2>5
    <3>2. f \in Lapsed => ~approval[f].pending
      BY <2>5 DEF Obsolete
    <3>3. QED
      BY <2>1, <2>5, <3>1, <3>2
  <2>6. QED
    BY <2>3, <2>4, <2>5
<1>7. FindingTypeOK'
  <2>1. call' \in [Callers -> CallRow]
    BY <1>1, <1>3, OldCallsOfStep
  <2>2. finding' \in [Findings -> FindingRow]
    BY <1>4 DEF Maintenance
  <2>3. verification' \in [Findings -> VerificationRow]
    BY <1>5 DEF Maintenance
  <2>4. approval' \in [Findings -> ApprovalRow]
    BY <1>6 DEF Maintenance
  <2>5. QED
    BY <1>3, <2>1, <2>2, <2>3, <2>4 DEF WorkflowInv, FindingTypeOK
<1> HIDE DEF F
<1>8. KnownFirst'
  <2>1. \A f \in Findings : Known(f)' \/ (~Known(f) /\ finding'[f] = finding[f])
    BY <1>2, <1>4
  <2>2. \A c \in Callers : SameCall(call'[c], call[c])
    BY <1>1, <1>3, OldCallsTyped DEF WorkflowInv, FindingTypeOK
  <2>3. QED
    BY <1>3, <1>6, <2>1, <2>2, KnownStays
<1>9. AbsencesAgree'
  BY <1>3, <1>4, AbsencesStay DEF WorkflowInv
<1>10. PendingIsRequested'
  BY <1>4, <1>5 DEF WorkflowInv, PendingIsRequested
<1>11. VerifiedAsRequested' /\ AcceptedAsRequested' /\ GuardedEditIsLegal'
  BY <1>1, <1>3, <1>4, <1>5, <1>6, Outdated
<1>12. QED
  BY <1>7, <1>8, <1>9, <1>10, <1>11 DEF WorkflowInv

LEMMA ImportStep ==
    ASSUME WorkflowInv, NEW s \in Sources, NEW R \in SUBSET Findings, NEW snapshot \in BOOLEAN,
           NEW st \in Status, NEW left \in Days, Import(s, R, snapshot, st, left)
    PROVE  WorkflowInv'
<1> DEFINE seen == SeenBy(s, R, snapshot)
           Hit == R \cup IF snapshot THEN {f \in Findings : misses[s][f] # Never} ELSE {}
           Back(f) == f \in R /\ misses[s][f] # 0 /\ Resolved(finding[f])
           Row(f) == IF Known(f) THEN finding[f]
                     ELSE [Unseen EXCEPT !.status = st, !.left = left]
<1>1. /\ misses' = seen
      /\ finding' = [f \in Findings |->
             IF f \notin Hit THEN finding[f]
             ELSE IF ~Present(seen, f) THEN Missing(finding[f], Absences(seen, f))
             ELSE IF Back(f) THEN Redetected(finding[f])
             ELSE Reported(Row(f))]
      /\ verification' = [f \in Findings |->
             IF f \notin Hit THEN verification[f]
             ELSE IF Back(f) THEN NoVerification
             ELSE OldVerification(verification[f])]
      /\ approval' = [f \in Findings |->
             IF f \in Hit THEN OldApproval(approval[f]) ELSE approval[f]]
      /\ call' = OldCalls(Hit)
  BY Zenon DEF Import
<1>2. misses \in [Sources -> [Findings -> Counts]]
  BY DEF WorkflowInv, FindingTypeOK, Counts
<1>3. /\ seen \in [Sources -> [Findings -> Counts]]
      /\ \A x \in Sources : \A f \in Findings :
            seen[x][f] = IF x # s THEN misses[x][f]
                         ELSE IF f \in R THEN 0
                         ELSE IF snapshot /\ misses[s][f] # Never THEN Missed(misses[s][f])
                         ELSE misses[s][f]
  <2>1. \A f \in Findings : misses[s][f] # Never => Missed(misses[s][f]) \in Counts
    BY <1>2, MissedTyped, EnoughIsEnough DEF Counts, Never
  <2>2. 0 \in Counts
    BY EnoughIsEnough DEF Counts, Never
  <2>3. QED
    BY <1>2, <2>1, <2>2 DEF SeenBy
<1>4. Hit \in SUBSET Findings
  OBVIOUS
<1>5. \A f \in Findings : /\ f \in R => f \in Hit /\ Present(seen, f)
                          /\ f \in Hit => f \in R \/ misses[s][f] # Never
                          /\ f \in Hit => seen[s][f] # Never
                          /\ f \notin Hit => \A x \in Sources : seen[x][f] = misses[x][f]
  <2>1. \A f \in Findings : f \in R => seen[s][f] = 0
    BY <1>3
  <2>2. \A f \in Findings : f \in R => f \in Hit /\ Present(seen, f)
    BY <2>1 DEF Present
  <2>3. \A f \in Findings : f \in Hit => f \in R \/ misses[s][f] # Never
    OBVIOUS
  <2>4. \A f \in Findings : snapshot /\ misses[s][f] # Never => f \in Hit
    OBVIOUS
  <2>5. \A f \in Findings : f \notin Hit => \A x \in Sources : seen[x][f] = misses[x][f]
    BY <1>3, <2>2, <2>4
  <2>6. ASSUME NEW f \in Findings, f \in Hit
        PROVE  seen[s][f] # Never
    <3>1. CASE f \in R
      BY <2>1, <3>1 DEF Never
    <3>2. CASE f \notin R
      <4>1. misses[s][f] \in Counts /\ misses[s][f] # Never
        BY <1>2, <2>3, <2>6, <3>2
      <4>2. seen[s][f] = Missed(misses[s][f]) \/ seen[s][f] = misses[s][f]
        BY <1>3, <3>2
      <4>3. QED
        BY <4>1, <4>2, MissedTyped, EnoughIsEnough DEF Never
    <3>3. QED
      BY <3>1, <3>2
  <2>7. QED
    BY <2>2, <2>3, <2>5, <2>6
<1> HIDE DEF seen, Hit
<1>6. ASSUME NEW f \in Findings, f \in Hit, ~Present(seen, f)
      PROVE  Known(f) /\ Absences(seen, f) \in 0..Enough
  <2>1. Known(f)
    BY <1>5, <1>6 DEF WorkflowInv, KnownFirst
  <2>2. QED
    BY <1>3, <1>5, <1>6, <2>1, AbsencesTyped
<1>7. ASSUME NEW f \in Findings
      PROVE  Row(f) \in FindingRow /\ (Row(f).resolution = "PENDING" => Row(f) = finding[f])
  <2>1. [Unseen EXCEPT !.status = st, !.left = left] \in FindingRow
    BY UnseenTyped DEF FindingRow
  <2>2. [Unseen EXCEPT !.status = st, !.left = left].resolution = "UNVERIFIED"
    BY DEF Unseen
  <2>3. QED
    BY <2>1, <2>2, FindingTyped
<1> HIDE DEF Row, Back
<1>8. ASSUME NEW f \in Findings
      PROVE  /\ finding'[f] \in FindingRow
             /\ f \notin Hit => finding'[f] = finding[f]
             /\ f \in Hit => Known(f)'
             /\ f \in Hit => finding'[f].absent = IF Present(seen, f) THEN 0 ELSE Absences(seen, f)
             /\ finding'[f].resolution = "PENDING" =>
                   finding[f].resolution = "PENDING" /\ (f \in Hit => ~Present(seen, f) \/ ~Back(f))
  <2>1. finding[f] \in FindingRow
    BY FindingTyped
  <2>2. CASE f \notin Hit
    BY <1>1, <2>1, <2>2
  <2>3. CASE f \in Hit /\ ~Present(seen, f)
    <3> DEFINE r == Missing(finding[f], Absences(seen, f))
    <3>1. finding'[f] = r /\ Absences(seen, f) \in 0..Enough
      BY <1>1, <1>6, <2>3
    <3>2. r \in FindingRow
      BY <2>1, <3>1, MissingTyped
    <3>3. /\ r.record = "STALE" /\ r.absent = Absences(seen, f)
          /\ r.resolution = "PENDING" => finding[f].resolution = "PENDING"
      BY <2>1 DEF Missing, FindingRow
    <3> HIDE DEF r
    <3>4. QED
      BY <2>3, <3>1, <3>2, <3>3 DEF Known
  <2>4. CASE f \in Hit /\ Present(seen, f) /\ Back(f)
    <3>1. finding'[f] = Redetected(finding[f])
      BY <1>1, <2>4
    <3>2. /\ Redetected(finding[f]).record = "ACTIVE" /\ Redetected(finding[f]).absent = 0
          /\ Redetected(finding[f]).resolution = "REOPENED"
      BY <2>1 DEF Redetected, FindingRow
    <3>3. QED
      BY <2>1, <2>4, <3>1, <3>2, ReopenedTyped DEF Known
  <2>5. CASE f \in Hit /\ Present(seen, f) /\ ~Back(f)
    <3>1. finding'[f] = Reported(Row(f))
      BY <1>1, <2>5
    <3>2. /\ Reported(Row(f)).record = "ACTIVE" /\ Reported(Row(f)).absent = 0
          /\ Reported(Row(f)).resolution = "PENDING" => Row(f).resolution = "PENDING"
      BY <1>7 DEF Reported, FindingRow
    <3>3. QED
      BY <1>7, <2>5, <3>1, <3>2, ReportedTyped DEF Known
  <2>6. QED
    BY <2>2, <2>3, <2>4, <2>5
<1>9. ASSUME NEW f \in Findings
      PROVE  /\ verification'[f] \in VerificationRow
             /\ f \notin Hit => verification'[f] = verification[f]
             /\ f \in Hit => ~(verification'[f].pending /\ verification'[f].current)
             /\ ~(f \in Hit /\ Back(f)) /\ verification[f].pending => verification'[f].pending
  <2>1. verification[f] \in VerificationRow
    BY DEF WorkflowInv, FindingTypeOK
  <2>2. QED
    BY <1>1, <2>1, BlanksTyped, OldVerificationTyped
<1>10. ASSUME NEW f \in Findings
       PROVE  /\ approval'[f] \in ApprovalRow
              /\ f \notin Hit => approval'[f] = approval[f]
              /\ f \in Hit => ~(approval'[f].pending /\ approval'[f].current)
              /\ approval'[f].pending => approval[f].pending
  <2>1. approval[f] \in ApprovalRow
    BY DEF WorkflowInv, FindingTypeOK
  <2>2. QED
    BY <1>1, <2>1, OldApprovalTyped
<1>11. FindingTypeOK'
  <2>1. call' \in [Callers -> CallRow]
    BY <1>1, <1>4, OldCallsOfStep
  <2>2. finding' \in [Findings -> FindingRow]
    BY <1>1, <1>8
  <2>3. verification' \in [Findings -> VerificationRow]
    BY <1>1, <1>9
  <2>4. approval' \in [Findings -> ApprovalRow]
    BY <1>1, <1>10
  <2>5. QED
    BY <1>1, <1>3, <2>1, <2>2, <2>3, <2>4 DEF FindingTypeOK, Counts
<1>12. KnownFirst'
  <2>1. \A f \in Findings : Known(f)' \/ (~Known(f) /\ finding'[f] = finding[f])
    BY <1>8 DEF Known
  <2>2. \A x \in Sources, f \in Findings : misses'[x][f] # Never => misses[x][f] # Never \/ Known(f)'
    BY <1>1, <1>5, <1>8
  <2>3. \A c \in Callers : SameCall(call'[c], call[c])
    BY <1>1, <1>4, OldCallsTyped DEF WorkflowInv, FindingTypeOK
  <2>4. QED
    BY <1>10, <2>1, <2>2, <2>3, KnownStays
<1>13. AbsencesAgree'
  <2> SUFFICES ASSUME NEW f \in Findings, Known(f)'
               PROVE  finding'[f].absent = IF Present(misses', f) THEN 0 ELSE Absences(misses', f)
    BY DEF AbsencesAgree
  <2>1. CASE f \in Hit
    BY <1>1, <1>8, <2>1
  <2>2. CASE f \notin Hit
    <3>1. Known(f) /\ finding'[f] = finding[f]
      BY <1>8, <2>2 DEF Known
    <3>2. \A x \in Sources : misses'[x][f] = misses[x][f]
      BY <1>1, <1>5, <2>2
    <3>3. Present(misses', f) <=> Present(misses, f)
      BY <3>2 DEF Present
    <3>4. Absences(misses', f) = Absences(misses, f)
      <4>1. {misses'[x][f] : x \in {y \in Sources : misses'[y][f] # Never}}
               = {misses[x][f] : x \in {y \in Sources : misses[y][f] # Never}}
        BY <3>2
      <4>2. QED
        BY <4>1 DEF Absences
    <3>5. QED
      BY <3>1, <3>3, <3>4 DEF WorkflowInv, AbsencesAgree
  <2>3. QED
    BY <2>1, <2>2
<1>14. PendingIsRequested'
  <2> SUFFICES ASSUME NEW f \in Findings, finding'[f].resolution = "PENDING"
               PROVE  verification'[f].pending
    BY DEF PendingIsRequested
  <2>1. verification[f].pending
    BY <1>8 DEF WorkflowInv, PendingIsRequested
  <2>2. f \in Hit /\ Back(f) => Present(seen, f)
    BY <1>5 DEF Back
  <2>3. QED
    BY <1>8, <1>9, <2>1, <2>2
<1>15. VerifiedAsRequested' /\ AcceptedAsRequested' /\ GuardedEditIsLegal'
  <2>1. \A f \in Findings : f \notin Hit =>
           finding'[f] = finding[f] /\ \A x \in Sources : misses'[x][f] = misses[x][f]
    BY <1>1, <1>5, <1>8
  <2>2. QED
    BY <1>1, <1>4, <1>9, <1>10, <2>1, Outdated
<1>16. QED
  BY <1>11, <1>12, <1>13, <1>14, <1>15 DEF WorkflowInv

-----------------------------------------------------------------------------
(* The theorems. *)

LEMMA InvHolds == WorkflowSpec => []WorkflowInv
<1>1. WorkflowInit => WorkflowInv
  BY InitHolds
<1>2. ASSUME WorkflowInv, [WorkflowNext]_workflowVars
      PROVE  WorkflowInv'
  <2>1. CASE ImportNext
    BY <1>2, <2>1, ImportStep DEF ImportNext
  <2>2. ASSUME NEW c \in Callers, CallNext(c)
        PROVE  WorkflowInv'
    BY <1>2, <2>2, BeginEditStep, LookAtBulkStep, EditStep, WriteBulkStep DEF CallNext
  <2>3. ASSUME NEW f \in Findings, RequestNext(f)
        PROVE  WorkflowInv'
    BY <1>2, <2>3, RequestVerificationStep, DecideVerificationStep, DecideAcceptanceStep,
       RequestAcceptanceStep, SetRecordStep DEF RequestNext
  <2>4. ASSUME NEW F \in SUBSET Findings, Touch(F) \/ Campaign(F)
        PROVE  WorkflowInv'
    BY <1>2, <2>4, TouchStep, CampaignStep
  <2>5. CASE NewDay
    BY <1>2, <2>5, NewDayStep
  <2>6. CASE Maintain
    BY <1>2, <2>6, MaintenanceStep DEF Maintain
  <2>7. CASE UNCHANGED workflowVars
    BY <1>2, <2>7 DEF workflowVars, WorkflowInv, FindingTypeOK, KnownFirst, AbsencesAgree,
       PendingIsRequested, VerifiedAsRequested, AcceptedAsRequested, GuardedEditIsLegal, Known
  <2>8. QED
    BY <1>2, <2>1, <2>2, <2>3, <2>4, <2>5, <2>6, <2>7 DEF WorkflowNext
<1>3. QED
  BY <1>1, <1>2, PTL DEF WorkflowSpec

\* The tables keep their types; the count of absences, a minimum over the sources
\* that know the finding, is one of the counts.
THEOREM WorkflowTyped == WorkflowSpec => []FindingTypeOK
BY InvHolds, PTL DEF WorkflowInv

\* decide_remediation_verification_request closes a finding only in the state, and
\* with the absences, its requester described.
THEOREM WorkflowVerifiedAsRequested == WorkflowSpec => []VerifiedAsRequested
BY InvHolds, PTL DEF WorkflowInv

\* decide_risk_approval_request accepts a risk only in the status it was asked for.
THEOREM WorkflowAcceptedAsRequested == WorkflowSpec => []AcceptedAsRequested
BY InvHolds, PTL DEF WorkflowInv

\* An edit that names its row_version is checked against the row it overwrites.
THEOREM WorkflowGuardedEditIsLegal == WorkflowSpec => []GuardedEditIsLegal
BY InvHolds, PTL DEF WorkflowInv

\* Every finding shown as waiting for a verification has a request that waits.
THEOREM WorkflowPendingIsRequested == WorkflowSpec => []PendingIsRequested
BY InvHolds, PTL DEF WorkflowInv

\* The reconciled count of absences agrees with the records of the sources.
THEOREM WorkflowAbsencesAgree == WorkflowSpec => []AbsencesAgree
BY InvHolds, PTL DEF WorkflowInv
=============================================================================
