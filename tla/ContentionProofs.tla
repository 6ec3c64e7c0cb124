------------------------------ MODULE ContentionProofs ------------------------------
(***************************************************************************)
(* Proofs about decisions that several make at once.  The two approvals of *)
(* the governance pages, changes of the configuration (module              *)
(* ConfigChanges) and activations of a policy (PolicyActivation), and what *)
(* a project decides of the vulnerabilities of its components, the         *)
(* candidates of OSV (SupplyChain) and the statements it exports           *)
(* (VexStatements), for any number of administrators, changes, policies,   *)
(* findings and components.  The leaders of the schedulers                 *)
(* (SchedulerLeader), for every number of processes and ids, every TTL and *)
(* every timing, with failing ticks and shared ids, and that the loops of  *)
(* ScheduledJobs do nothing else to them.  And of the workers that         *)
(* MCContention composes with these, from JobQueueProofs, that no two      *)
(* threads execute one job.                                                *)
(***************************************************************************)
EXTENDS MCContention, NumberLemmas, FiniteSetTheorems, TLAPS

-----------------------------------------------------------------------------
(* Changes of the configuration. *)

Baseline == [config : Configs, by : SUBSET Changes]

\* Shape of the state.
ConfigTypeOK ==
    /\ current \in Configs
    /\ snapshot \in [Actors -> SUBSET Configs]
    /\ baselines \in Seq(Baseline)
    /\ change \in [Changes -> Change]
    /\ window \in [Changes -> {"SCHEDULED", "OPEN", "EXPIRED"}]

\* The baseline of a change is one that exists, or the absence of any.
BaseExists == \A c \in Changes : change[c].base <= Len(baselines)

\* Four eyes, from the decision on.
DecidedByAnother ==
    \A c \in Changes : change[c].status \in {"APPROVED", "REJECTED", "APPLIED"} =>
        change[c].decider \in Actors \ {change[c].by}

\* A baseline made by a change is that change's next step.
MadeByItsChange ==
    \A n \in DOMAIN baselines : \A c \in baselines[n].by :
        /\ change[c].status = "APPLIED" /\ change[c].target = baselines[n].config
        /\ change[c].base = n - 1

AppliedMadeOne ==
    \A c \in Changes : change[c].status = "APPLIED" =>
        \E n \in DOMAIN baselines : c \in baselines[n].by

ConfigInv ==
    ConfigTypeOK /\ BaseExists /\ DecidedByAnother /\ MadeByItsChange /\ AppliedMadeOne

LEMMA NoChangeTyped ==
    ASSUME current \in Configs
    PROVE  NoChange \in Change /\ NoChange.base = 0 /\ NoChange.status = "none"
BY DEF NoChange, Change

LEMMA BaselinesTyped ==
    ASSUME ConfigTypeOK
    PROVE  /\ Len(baselines) \in Nat /\ DOMAIN baselines = 1..Len(baselines)
           /\ \A n \in DOMAIN baselines : baselines[n] \in Baseline /\ baselines[n].by \subseteq Changes
<1>1. \A n \in DOMAIN baselines : baselines[n] \in Baseline
  BY DEF ConfigTypeOK
<1>2. QED
  BY <1>1 DEF ConfigTypeOK, Baseline

LEMMA ConfigInitInv == ConfigInit => ConfigInv
<1> SUFFICES ASSUME ConfigInit
             PROVE  ConfigInv
  OBVIOUS
<1>1. current \in Configs /\ baselines = <<>> /\ change = [c \in Changes |-> NoChange]
  BY DEF ConfigInit
<1>2. \A c \in Changes : change[c].status = "none" /\ change[c].base = 0
  BY <1>1, NoChangeTyped
<1>3. ConfigTypeOK
  BY <1>1, NoChangeTyped DEF ConfigInit, ConfigTypeOK
<1>4. BaseExists /\ DecidedByAnother /\ MadeByItsChange /\ AppliedMadeOne
  BY <1>1, <1>2 DEF BaseExists, DecidedByAnother, MadeByItsChange, AppliedMadeOne
<1>5. QED
  BY <1>3, <1>4 DEF ConfigInv

\* One change moves and no baseline is made: what the new row must satisfy.
LEMMA OneChangeMoves ==
    ASSUME ConfigInv, baselines' = baselines, current' \in Configs,
           snapshot' \in [Actors -> SUBSET Configs],
           window' \in [Changes -> {"SCHEDULED", "OPEN", "EXPIRED"}],
           NEW c \in Changes, NEW row \in Change, change' = [change EXCEPT ![c] = row],
           change[c].status # "APPLIED", row.status # "APPLIED",
           row.base <= Len(baselines),
           row.status \in {"APPROVED", "REJECTED"} => row.decider \in Actors \ {row.by}
    PROVE  ConfigInv'
<1> USE DEF ConfigInv
<1>1. ConfigTypeOK'
  BY DEF ConfigTypeOK
<1>2. \A d \in Changes : change'[d] = IF d = c THEN row ELSE change[d]
  BY DEF ConfigTypeOK
<1>3. BaseExists'
  BY <1>2 DEF BaseExists
<1>4. DecidedByAnother'
  BY <1>2 DEF DecidedByAnother
<1>5. MadeByItsChange'
  <2>1. \A n \in DOMAIN baselines : c \notin baselines[n].by /\ baselines[n].by \subseteq Changes
    BY BaselinesTyped DEF MadeByItsChange
  <2>2. QED
    BY <1>2, <2>1 DEF MadeByItsChange
<1>6. AppliedMadeOne'
  BY <1>2 DEF AppliedMadeOne
<1>7. QED
  BY <1>1, <1>3, <1>4, <1>5, <1>6

\* A baseline is appended, made by B: nobody, or one approved change that becomes
\* APPLIED with it.
LEMMA BaselineAppended ==
    ASSUME ConfigInv, NEW B \in SUBSET Changes, NEW x \in Configs,
           baselines' = Append(baselines, [config |-> x, by |-> B]),
           current' = current, window' = window,
           snapshot' \in [Actors -> SUBSET Configs],
           change' = [c \in Changes |-> IF c \in B THEN [change[c] EXCEPT !.status = "APPLIED"]
                                        ELSE change[c]],
           \A c \in B : /\ change[c].status = "APPROVED" /\ change[c].target = x
                        /\ change[c].base = Len(baselines)
    PROVE  ConfigInv'
<1> DEFINE new == [config |-> x, by |-> B]
<1> USE DEF ConfigInv
<1>0. ConfigTypeOK /\ baselines \in Seq(Baseline) /\ new \in Baseline /\ Len(baselines) \in Nat
  BY DEF ConfigTypeOK, Baseline
<1>1. /\ Len(baselines') = Len(baselines) + 1 /\ DOMAIN baselines' = 1..Len(baselines) + 1
      /\ DOMAIN baselines = 1..Len(baselines)
      /\ \A n \in DOMAIN baselines : baselines'[n] = baselines[n]
      /\ baselines'[Len(baselines) + 1] = new
  BY <1>0
<1>2. \A c \in Changes :
        /\ change[c] \in Change
        /\ change'[c] = IF c \in B THEN [change[c] EXCEPT !.status = "APPLIED"] ELSE change[c]
  BY <1>0 DEF ConfigTypeOK
<1>3. \A c \in Changes :
        /\ change'[c] \in Change /\ change'[c].base = change[c].base
        /\ change'[c].target = change[c].target /\ change'[c].by = change[c].by
        /\ change'[c].decider = change[c].decider
        /\ change'[c].status = IF c \in B THEN "APPLIED" ELSE change[c].status
  BY <1>2 DEF Change
<1>4. ConfigTypeOK'
  BY <1>0, <1>3 DEF ConfigTypeOK
<1>5. BaseExists'
  BY <1>0, <1>1, <1>2, <1>3 DEF BaseExists, Change
<1>6. DecidedByAnother'
  BY <1>3 DEF DecidedByAnother
<1>7. MadeByItsChange'
  <2>1. \A n \in DOMAIN baselines : baselines[n].by \subseteq Changes /\ baselines[n].by \cap B = {}
    BY <1>0, BaselinesTyped DEF MadeByItsChange
  <2>2. SUFFICES ASSUME NEW n \in DOMAIN baselines', NEW c \in baselines'[n].by
                 PROVE  /\ change'[c].status = "APPLIED"
                        /\ change'[c].target = baselines'[n].config
                        /\ change'[c].base = n - 1
    BY DEF MadeByItsChange
  <2>3. CASE n \in DOMAIN baselines
    BY <1>1, <1>3, <2>1, <2>2, <2>3 DEF MadeByItsChange
  <2>4. CASE n = Len(baselines) + 1
    BY <1>0, <1>1, <1>3, <2>2, <2>4
  <2>5. QED
    BY <1>0, <1>1, <2>3, <2>4
<1>8. AppliedMadeOne'
  BY <1>0, <1>1, <1>3 DEF AppliedMadeOne
<1>9. QED
  BY <1>4, <1>5, <1>6, <1>7, <1>8

\* Only the running configuration, snapshots and windows change.
LEMMA ChangesRest ==
    ASSUME ConfigInv, baselines' = baselines, change' = change, current' \in Configs,
           snapshot' \in [Actors -> SUBSET Configs],
           window' \in [Changes -> {"SCHEDULED", "OPEN", "EXPIRED"}]
    PROVE  ConfigInv'
BY DEF ConfigInv, ConfigTypeOK, BaseExists, DecidedByAnother, MadeByItsChange, AppliedMadeOne

LEMMA ConfigStep == ConfigInv /\ [ConfigNext]_configVars => ConfigInv'
<1> SUFFICES ASSUME ConfigInv, [ConfigNext]_configVars
             PROVE  ConfigInv'
  OBVIOUS
<1>0. /\ ConfigTypeOK /\ BaseExists /\ current \in Configs
      /\ snapshot \in [Actors -> SUBSET Configs]
      /\ window \in [Changes -> {"SCHEDULED", "OPEN", "EXPIRED"}]
      /\ baselines \in Seq(Baseline) /\ Len(baselines) \in Nat
      /\ \A c \in Changes : change[c] \in Change /\ change[c].base <= Len(baselines)
  BY DEF ConfigInv, ConfigTypeOK, BaseExists
<1>1. ASSUME NEW x \in Configs, Reconfigure(x)
      PROVE  ConfigInv'
  BY <1>0, <1>1, ChangesRest DEF Reconfigure
<1>2. ASSUME NEW u \in Actors, Collect(u)
      PROVE  ConfigInv'
  BY <1>0, <1>2, ChangesRest DEF Collect
<1>3. ASSUME NEW u \in Actors, NEW x \in Configs, CreateBaseline(u, x)
      PROVE  ConfigInv'
  <2>1. change' = [c \in Changes |-> IF c \in {} THEN [change[c] EXCEPT !.status = "APPLIED"]
                                     ELSE change[c]]
    BY <1>0, <1>3 DEF CreateBaseline, ConfigTypeOK
  <2>2. /\ baselines' = Append(baselines, [config |-> x, by |-> {}])
        /\ current' = current /\ window' = window /\ snapshot' \in [Actors -> SUBSET Configs]
    BY <1>0, <1>3 DEF CreateBaseline
  <2>3. QED
    BY <2>1, <2>2, BaselineAppended
<1>4. ASSUME NEW c \in Changes, NEW u \in Actors, NEW x \in Configs, Draft(c, u, x)
      PROVE  ConfigInv'
  <2> DEFINE row == [NoChange EXCEPT !.status = "drafted", !.base = Len(baselines),
                                     !.target = x, !.by = u]
  <2>1. row \in Change /\ row.status = "drafted" /\ row.base = Len(baselines)
    BY <1>0, NoChangeTyped DEF Change
  <2>2. /\ change' = [change EXCEPT ![c] = row] /\ change[c].status = "none"
        /\ baselines' = baselines /\ current' \in Configs
        /\ snapshot' \in [Actors -> SUBSET Configs]
        /\ window' \in [Changes -> {"SCHEDULED", "OPEN", "EXPIRED"}]
    BY <1>0, <1>4 DEF Draft
  <2>3. change[c].status # "APPLIED"
    BY <2>2
  <2> HIDE DEF row
  <2>4. row.base <= Len(baselines) /\ row.status \notin {"APPROVED", "REJECTED", "APPLIED"}
    BY <1>0, <2>1
  <2>5. QED
    BY <2>1, <2>4, <2>2, <2>3, OneChangeMoves
<1>5. ASSUME NEW c \in Changes, Submit(c)
      PROVE  ConfigInv'
  <2> DEFINE row == [change[c] EXCEPT !.status = "PENDING"]
  <2>1. /\ row \in Change /\ row.status = "PENDING" /\ row.base <= Len(baselines)
        /\ row.status \notin {"APPROVED", "REJECTED", "APPLIED"}
    BY <1>0 DEF Change
  <2>2. /\ change' = [change EXCEPT ![c] = row] /\ change[c].status = "drafted"
        /\ baselines' = baselines /\ current' \in Configs
        /\ snapshot' \in [Actors -> SUBSET Configs]
        /\ window' \in [Changes -> {"SCHEDULED", "OPEN", "EXPIRED"}]
    BY <1>0, <1>5 DEF Submit
  <2> HIDE DEF row
  <2>3. QED
    BY <2>1, <2>2, OneChangeMoves
<1>6. ASSUME NEW c \in Changes, Refuse(c)
      PROVE  ConfigInv'
  <2>1. /\ change' = [change EXCEPT ![c] = NoChange] /\ change[c].status = "drafted"
        /\ baselines' = baselines /\ current' \in Configs
        /\ snapshot' \in [Actors -> SUBSET Configs]
        /\ window' \in [Changes -> {"SCHEDULED", "OPEN", "EXPIRED"}]
    BY <1>0, <1>6 DEF Refuse
  <2>2. /\ NoChange \in Change /\ NoChange.base <= Len(baselines)
        /\ NoChange.status \notin {"APPROVED", "REJECTED", "APPLIED"}
    BY <1>0, NoChangeTyped
  <2>3. change[c].status # "APPLIED"
    BY <2>1
  <2>4. QED
    BY <2>1, <2>2, <2>3, OneChangeMoves
<1>7. ASSUME NEW c \in Changes, TimePasses(c)
      PROVE  ConfigInv'
  BY <1>0, <1>7, ChangesRest DEF TimePasses
<1>8. ASSUME NEW c \in Changes, NEW u \in Actors, NEW d \in {"APPROVED", "REJECTED"},
             DecideChange(c, u, d)
      PROVE  ConfigInv'
  <2> DEFINE row == [change[c] EXCEPT !.status = d, !.decider = u]
  <2>1. /\ row \in Change /\ row.status = d /\ row.base <= Len(baselines)
        /\ row.decider = u /\ row.by = change[c].by
    BY <1>0 DEF Change
  <2>2. /\ change' = [change EXCEPT ![c] = row] /\ change[c].status = "PENDING"
        /\ u # change[c].by
        /\ baselines' = baselines /\ current' \in Configs
        /\ snapshot' \in [Actors -> SUBSET Configs]
        /\ window' \in [Changes -> {"SCHEDULED", "OPEN", "EXPIRED"}]
    BY <1>0, <1>8 DEF DecideChange
  <2> HIDE DEF row
  <2>3. QED
    BY <2>1, <2>2, OneChangeMoves
<1>9. ASSUME NEW c \in Changes, NEW u \in Actors, Promote(c, u)
      PROVE  ConfigInv'
  <2>1. change' = [d \in Changes |-> IF d \in {c} THEN [change[d] EXCEPT !.status = "APPLIED"]
                                     ELSE change[d]]
    BY <1>0, <1>9 DEF Promote, ConfigTypeOK
  <2>2. /\ change[c].status = "APPROVED" /\ change[c].base = Len(baselines)
        /\ change[c].target \in Configs
        /\ baselines' = Append(baselines, [config |-> change[c].target, by |-> {c}])
        /\ current' = current /\ window' = window /\ snapshot' \in [Actors -> SUBSET Configs]
    BY <1>0, <1>9 DEF Promote, SameBaseline, Change
  <2>3. QED
    BY <2>1, <2>2, BaselineAppended
<1>10. CASE UNCHANGED configVars
  BY <1>0, <1>10, ChangesRest DEF configVars
<1>11. QED
  BY <1>1, <1>2, <1>3, <1>4, <1>5, <1>6, <1>7, <1>8, <1>9, <1>10 DEF ConfigNext

\* The state of the changes and baselines keeps its shape.
THEOREM ConfigTyped == ConfigSpec => []ConfigTypeOK
<1>1. ConfigInv => ConfigTypeOK
  BY DEF ConfigInv
<1>2. QED
  BY ConfigInitInv, ConfigStep, <1>1, PTL DEF ConfigSpec

\* A baseline that a change installed is that change's target, follows the baseline
\* its impact was analysed against, and was approved by another administrator; an
\* applied change installed exactly one (decide_change_request, promote_change_request).
THEOREM ConfigApplied == ConfigSpec => []AppliedIsGoverned
<1>1. ConfigInv => AppliedIsGoverned
  <2> SUFFICES ASSUME ConfigInv
               PROVE  AppliedIsGoverned
    OBVIOUS
  <2>1. /\ baselines \in Seq(Baseline) /\ DOMAIN baselines \subseteq Nat
        /\ \A n \in DOMAIN baselines : baselines[n].by \subseteq Changes
    BY BaselinesTyped DEF ConfigInv, ConfigTypeOK
  <2>2. ASSUME NEW n \in DOMAIN baselines, NEW c \in baselines[n].by
        PROVE  /\ change[c].status = "APPLIED" /\ change[c].target = baselines[n].config
               /\ change[c].base = n - 1
               /\ change[c].decider \in Actors \ {change[c].by}
    BY <2>1, <2>2 DEF ConfigInv, MadeByItsChange, DecidedByAnother
  <2>3. ASSUME NEW c \in Changes, change[c].status = "APPLIED"
        PROVE  Cardinality({n \in DOMAIN baselines : c \in baselines[n].by}) = 1
    <3>1. PICK k \in DOMAIN baselines : c \in baselines[k].by
      BY <2>3 DEF ConfigInv, AppliedMadeOne
    <3>2. ASSUME NEW n \in DOMAIN baselines, c \in baselines[n].by
          PROVE  n = k
      <4>1. change[c].base = n - 1 /\ change[c].base = k - 1
        BY <2>2, <3>1, <3>2
      <4>2. QED
        BY <2>1, <4>1
    <3>3. {n \in DOMAIN baselines : c \in baselines[n].by} = {k}
      BY <3>1, <3>2
    <3>4. QED
      BY <3>3, FS_Singleton
  <2>4. QED
    BY <2>2, <2>3 DEF AppliedIsGoverned
<1>2. QED
  BY ConfigInitInv, ConfigStep, <1>1, PTL DEF ConfigSpec

-----------------------------------------------------------------------------
(* Activations of a policy. *)

RequestRow  == [at : {"none", "analysed", "pending"}, active : Policies,
                covered : SUBSET ScoredFindings, changed : SUBSET ScoredFindings]
PreparedRow == [target : SUBSET Policies, rows : SUBSET ScoredFindings,
                changed : SUBSET ScoredFindings]
RescoreRow  == [at : {"idle", "findings", "policy"}, rows : SUBSET ScoredFindings, by : Policies]

\* Shape of the state.
PolicyTypeOK ==
    /\ status \in [Policies -> {"DRAFT", "ACTIVE", "RETIRED"}]
    /\ request \in [Policies -> RequestRow]
    /\ score \in [ScoredFindings -> ScoredRow]
    /\ prepared \in [Approvers -> PreparedRow]
    /\ rescore \in [Rescorers -> RescoreRow]

OneActive == \E p \in Policies : \A q \in Policies : status[q] = "ACTIVE" <=> q = p

\* What an approver prepared is for a request that is still pending, for all the
\* findings it covers, and knows of every change of theirs since the analysis.
PreparedForRequest ==
    \A a \in Approvers : \A p \in prepared[a].target :
        /\ Pending(p) /\ prepared[a].target = {p}
        /\ prepared[a].rows = request[p].covered
        /\ request[p].changed \cap prepared[a].rows \subseteq prepared[a].changed

PolicyInv == PolicyTypeOK /\ OneActive /\ PendingAgainstActive /\ PreparedForRequest

LEMMA ActiveIs ==
    ASSUME OneActive
    PROVE  active \in Policies /\ \A q \in Policies : status[q] = "ACTIVE" <=> q = active
BY DEF OneActive, active

LEMMA RowsTyped ==
    /\ NoRequest \in RequestRow /\ NothingPrepared \in PreparedRow /\ NoRescore \in RescoreRow
    /\ NoRequest.at = "none" /\ NothingPrepared.target = {}
BY PolicyAssumption DEF NoRequest, NothingPrepared, NoRescore, RequestRow, PreparedRow, RescoreRow

LEMMA PolicyInitInv == PolicyInit => PolicyInv
<1> SUFFICES ASSUME PolicyInit
             PROVE  PolicyInv
  OBVIOUS
<1>1. PolicyTypeOK
  BY RowsTyped, PolicyAssumption DEF PolicyInit, PolicyTypeOK, ScoredRow
<1>2. OneActive
  BY PolicyAssumption DEF PolicyInit, OneActive
<1>3. PendingAgainstActive /\ PreparedForRequest
  BY RowsTyped DEF PolicyInit, PendingAgainstActive, PreparedForRequest, Pending
<1>4. QED
  BY <1>1, <1>2, <1>3 DEF PolicyInv

\* Requests and what was prepared for them notice a change of F alike.
LEMMA BumpKeeps ==
    ASSUME PolicyInv, NEW F \in SUBSET ScoredFindings, Bump(F), status' = status,
           score' \in [ScoredFindings -> ScoredRow], rescore' \in [Rescorers -> RescoreRow]
    PROVE  PolicyInv'
<1>1. PolicyTypeOK /\ OneActive /\ PendingAgainstActive /\ PreparedForRequest
  BY DEF PolicyInv
<1>2. \A p \in Policies :
        /\ request[p] \in RequestRow
        /\ request'[p] = IF request[p] = NoRequest THEN NoRequest
                         ELSE [request[p] EXCEPT !.changed = @ \cup F]
  BY <1>1 DEF Bump, PolicyTypeOK
<1>3. ASSUME NEW p \in Policies
      PROVE  /\ request'[p] \in RequestRow
             /\ request'[p].at = request[p].at /\ request'[p].active = request[p].active
             /\ request'[p].covered = request[p].covered
             /\ request'[p].changed \subseteq request[p].changed \cup F
  <2>1. CASE request[p] = NoRequest
    BY <1>2, <2>1
  <2>2. CASE request[p] # NoRequest
    <3>1. request'[p] = [request[p] EXCEPT !.changed = request[p].changed \cup F]
      BY <1>2, <2>2
    <3>2. request[p] \in RequestRow
      BY <1>2
    <3>3. QED
      BY <3>1, <3>2 DEF RequestRow
  <2>3. QED
    BY <2>1, <2>2
<1>4. \A a \in Approvers :
        /\ prepared[a] \in PreparedRow
        /\ prepared'[a] = IF prepared[a].target # {} THEN [prepared[a] EXCEPT !.changed = @ \cup F]
                          ELSE prepared[a]
  BY <1>1 DEF Bump, PolicyTypeOK
<1>5. ASSUME NEW a \in Approvers
      PROVE  /\ prepared'[a] \in PreparedRow
             /\ prepared'[a].target = prepared[a].target /\ prepared'[a].rows = prepared[a].rows
             /\ prepared[a].target # {} => prepared'[a].changed = prepared[a].changed \cup F
  <2>1. CASE prepared[a].target = {}
    BY <1>4, <2>1
  <2>2. CASE prepared[a].target # {}
    <3>1. prepared'[a] = [prepared[a] EXCEPT !.changed = prepared[a].changed \cup F]
      BY <1>4, <2>2
    <3>2. prepared[a] \in PreparedRow
      BY <1>4
    <3>3. QED
      BY <3>1, <3>2 DEF PreparedRow
  <2>3. QED
    BY <2>1, <2>2
<1>6. PolicyTypeOK'
  <2>1. request' \in [Policies -> RequestRow] /\ prepared' \in [Approvers -> PreparedRow]
    BY <1>3, <1>5 DEF Bump
  <2>2. QED
    BY <1>1, <2>1 DEF PolicyTypeOK
<1>7. active' = active /\ OneActive'
  BY <1>1 DEF active, OneActive
<1>8. PendingAgainstActive'
  BY <1>1, <1>3, <1>7 DEF PendingAgainstActive, Pending
<1>9. PreparedForRequest'
  <2> SUFFICES ASSUME NEW a \in Approvers, NEW p \in prepared'[a].target
               PROVE  /\ Pending(p)' /\ prepared'[a].target = {p}
                      /\ prepared'[a].rows = request'[p].covered
                      /\ request'[p].changed \cap prepared'[a].rows \subseteq prepared'[a].changed
    BY DEF PreparedForRequest
  <2>1. p \in Policies /\ p \in prepared[a].target
    BY <1>4, <1>5 DEF PreparedRow
  <2>2. /\ Pending(p) /\ prepared[a].target = {p} /\ prepared[a].rows = request[p].covered
        /\ request[p].changed \cap prepared[a].rows \subseteq prepared[a].changed
    BY <1>1, <2>1 DEF PreparedForRequest
  <2>3. prepared'[a].changed = prepared[a].changed \cup F
    BY <1>5, <2>1
  <2>4. QED
    BY <1>3, <1>5, <2>1, <2>2, <2>3 DEF Pending
<1>10. QED
  BY <1>6, <1>7, <1>8, <1>9 DEF PolicyInv

\* Statuses stay.  A request, if it changes, is withdrawn with what was prepared
\* for it, or was not pending before.
LEMMA RequestMoves ==
    ASSUME PolicyInv, status' = status, score' = score, rescore' = rescore,
           NEW p \in Policies, NEW row \in RequestRow, request' = [request EXCEPT ![p] = row],
           row.at = "pending" => row.active = active /\ status[p] # "ACTIVE",
           prepared' \in [Approvers -> PreparedRow],
           \A a \in Approvers :
              /\ prepared'[a].target \subseteq prepared[a].target
              /\ prepared'[a].target # {} => prepared'[a] = prepared[a] /\ p \notin prepared[a].target
    PROVE  PolicyInv'
<1>1. PolicyTypeOK /\ OneActive /\ PendingAgainstActive /\ PreparedForRequest
  BY DEF PolicyInv
<1>2. \A q \in Policies : request'[q] = IF q = p THEN row ELSE request[q]
  BY <1>1 DEF PolicyTypeOK
<1>3. PolicyTypeOK'
  BY <1>1 DEF PolicyTypeOK
<1>4. active' = active /\ OneActive'
  BY <1>1 DEF active, OneActive
<1>5. PendingAgainstActive'
  BY <1>1, <1>2, <1>4 DEF PendingAgainstActive, Pending
<1>6. PreparedForRequest'
  <2> SUFFICES ASSUME NEW a \in Approvers, NEW q \in prepared'[a].target
               PROVE  /\ Pending(q)' /\ prepared'[a].target = {q}
                      /\ prepared'[a].rows = request'[q].covered
                      /\ request'[q].changed \cap prepared'[a].rows \subseteq prepared'[a].changed
    BY DEF PreparedForRequest
  <2>1. prepared'[a] = prepared[a] /\ q \in prepared[a].target /\ q # p /\ q \in Policies
    BY <1>3 DEF PolicyTypeOK, PreparedRow
  <2>2. request'[q] = request[q]
    BY <1>2, <2>1
  <2>3. QED
    BY <1>1, <2>1, <2>2 DEF PreparedForRequest, Pending
<1>7. QED
  BY <1>3, <1>4, <1>5, <1>6 DEF PolicyInv

\* Only what was prepared by one approver, or what a rescoring read, changes.
LEMMA PreparedMoves ==
    ASSUME PolicyInv, status' = status, score' = score, request' = request,
           rescore' \in [Rescorers -> RescoreRow], prepared' \in [Approvers -> PreparedRow],
           \A a \in Approvers :
              \/ prepared'[a] = prepared[a]
              \/ prepared'[a].target = {}
              \/ \E p \in Policies :
                    /\ prepared'[a].target = {p} /\ Pending(p)
                    /\ prepared'[a].rows = request[p].covered
                    /\ request[p].changed \cap prepared'[a].rows = {}
    PROVE  PolicyInv'
<1>1. PolicyTypeOK /\ OneActive /\ PendingAgainstActive /\ PreparedForRequest
  BY DEF PolicyInv
<1>2. PolicyTypeOK'
  BY <1>1 DEF PolicyTypeOK
<1>3. active' = active /\ OneActive' /\ PendingAgainstActive'
  BY <1>1 DEF active, OneActive, PendingAgainstActive, Pending
<1>4. PreparedForRequest'
  BY <1>1 DEF PreparedForRequest, Pending
<1>5. QED
  BY <1>2, <1>3, <1>4 DEF PolicyInv

\* An activation.
LEMMA ApproveKeeps ==
    ASSUME PolicyInv, NEW a \in Approvers, NEW p \in Policies, Approve(a, p)
    PROVE  PolicyInv'
<1>1. PolicyTypeOK /\ OneActive
  BY DEF PolicyInv
<1>2. active \in Policies /\ \A q \in Policies : status[q] = "ACTIVE" <=> q = active
  BY <1>1, ActiveIs
<1>3. \A q \in Policies :
        status'[q] = IF q = p THEN "ACTIVE" ELSE IF q = active THEN "RETIRED" ELSE status[q]
  BY DEF Approve
<1>4. \A q \in Policies : status'[q] = "ACTIVE" <=> q = p
  BY <1>2, <1>3
<1>5. prepared[a].rows \in SUBSET ScoredFindings
  BY <1>1 DEF PolicyTypeOK, PreparedRow
<1>6. \A q \in Policies : request'[q] \in RequestRow /\ request'[q].at \in {"none", "analysed"}
  <2> SUFFICES ASSUME NEW q \in Policies
               PROVE  request'[q] \in RequestRow /\ request'[q].at \in {"none", "analysed"}
    OBVIOUS
  <2>1. request[q] \in RequestRow
    BY <1>1 DEF PolicyTypeOK
  <2>2. request'[q] = IF request[q].at # "analysed" THEN NoRequest
                      ELSE [request[q] EXCEPT !.changed = @ \cup prepared[a].rows]
    BY DEF Approve
  <2>3. QED
    BY <1>5, <2>1, <2>2, RowsTyped DEF RequestRow
<1>7. PolicyTypeOK'
  <2>1. status' \in [Policies -> {"DRAFT", "ACTIVE", "RETIRED"}]
    BY <1>1 DEF PolicyTypeOK, Approve
  <2>2. request' \in [Policies -> RequestRow]
    BY <1>6 DEF Approve
  <2>3. \A f \in ScoredFindings :
          IF f \in prepared[a].rows THEN [score[f] EXCEPT !.by = p] \in ScoredRow
          ELSE score[f] \in ScoredRow
    BY <1>1 DEF PolicyTypeOK, ScoredRow
  <2>4. score' \in [ScoredFindings -> ScoredRow]
    BY <2>3 DEF Approve
  <2>5. prepared' \in [Approvers -> PreparedRow] /\ rescore' \in [Rescorers -> RescoreRow]
    BY <1>1, RowsTyped DEF PolicyTypeOK, Approve
  <2>6. QED
    BY <2>1, <2>2, <2>4, <2>5 DEF PolicyTypeOK
<1>8. OneActive'
  BY <1>4 DEF OneActive
<1>9. PendingAgainstActive'
  BY <1>6 DEF PendingAgainstActive, Pending
<1>10. PreparedForRequest'
  BY RowsTyped DEF Approve, PreparedForRequest
<1>11. QED
  BY <1>7, <1>8, <1>9, <1>10 DEF PolicyInv

LEMMA PolicyStep == PolicyInv /\ [PolicyNext]_policyVars => PolicyInv'
<1> SUFFICES ASSUME PolicyInv, [PolicyNext]_policyVars
             PROVE  PolicyInv'
  OBVIOUS
<1>0. /\ PolicyTypeOK /\ OneActive /\ active \in Policies
      /\ score \in [ScoredFindings -> ScoredRow] /\ rescore \in [Rescorers -> RescoreRow]
      /\ prepared \in [Approvers -> PreparedRow] /\ Live \in SUBSET ScoredFindings
  BY ActiveIs DEF PolicyInv, PolicyTypeOK, Live
<1>1. ASSUME NEW f \in ScoredFindings, Add(f) \/ Modify(f) \/ SetArchived(f)
      PROVE  PolicyInv'
  <2>1. score[f] \in ScoredRow
    BY <1>0
  <2>2. score' \in [ScoredFindings -> ScoredRow]
    <3>1. [record |-> "live", by |-> active] \in ScoredRow /\ [score[f] EXCEPT !.by = active] \in ScoredRow
          /\ [score[f] EXCEPT !.record = IF @ = "live" THEN "archived" ELSE "live"] \in ScoredRow
      BY <1>0, <2>1 DEF ScoredRow
    <3>2. CASE Add(f)
      BY <1>0, <3>1, <3>2 DEF Add
    <3>3. CASE Modify(f)
      BY <1>0, <3>1, <3>3 DEF Modify
    <3>4. CASE SetArchived(f)
      BY <1>0, <3>1, <3>4 DEF SetArchived
    <3>5. QED
      BY <1>1, <3>2, <3>3, <3>4
  <2>3. Bump({f}) /\ status' = status /\ rescore' = rescore
    BY <1>1 DEF Add, Modify, SetArchived
  <2>4. QED
    BY <1>0, <2>2, <2>3, BumpKeeps
<1>2. ASSUME NEW p \in Policies, Analyse(p)
      PROVE  PolicyInv'
  <2> DEFINE row == [at |-> "analysed", active |-> First, covered |-> Live, changed |-> {}]
  <2>1. row \in RequestRow /\ row.at = "analysed"
    BY <1>0, PolicyAssumption DEF RequestRow
  <2>2. \A a \in Approvers : p \notin prepared[a].target
    BY <1>2 DEF PolicyInv, PreparedForRequest, Analyse, Pending
  <2>3. request' = [request EXCEPT ![p] = row] /\ UNCHANGED <<status, score, prepared, rescore>>
    BY <1>2 DEF Analyse
  <2> HIDE DEF row
  <2>4. QED
    BY <1>0, <2>1, <2>2, <2>3, RequestMoves
<1>3. ASSUME NEW p \in Policies, Request(p)
      PROVE  PolicyInv'
  <2> DEFINE row == [request[p] EXCEPT !.at = "pending", !.active = active]
  <2>0. request[p] \in RequestRow
    BY <1>0 DEF PolicyTypeOK
  <2>1. row \in RequestRow /\ row.at = "pending" /\ row.active = active
    BY <1>0, <2>0 DEF RequestRow
  <2>2. \A a \in Approvers : p \notin prepared[a].target
    BY <1>3 DEF PolicyInv, PreparedForRequest, Request, Pending
  <2>3. /\ request' = [request EXCEPT ![p] = row] /\ status[p] # "ACTIVE"
        /\ UNCHANGED <<status, score, prepared, rescore>>
    BY <1>0, <1>3 DEF Request, PolicyTypeOK
  <2> HIDE DEF row
  <2>4. QED
    BY <1>0, <2>1, <2>2, <2>3, RequestMoves
<1>4. ASSUME NEW p \in Policies, Reject(p)
      PROVE  PolicyInv'
  <2>1. \A a \in Approvers :
          prepared'[a] = IF prepared[a].target = {p} THEN NothingPrepared ELSE prepared[a]
    BY <1>4 DEF Reject
  <2>2. \A a \in Approvers : p \in prepared[a].target => prepared[a].target = {p}
    BY DEF PolicyInv, PreparedForRequest
  <2>3. prepared' \in [Approvers -> PreparedRow]
    BY <1>0, <1>4, RowsTyped DEF Reject
  <2>4. \A a \in Approvers :
          /\ prepared'[a].target \subseteq prepared[a].target
          /\ prepared'[a].target # {} => prepared'[a] = prepared[a] /\ p \notin prepared[a].target
    BY <2>1, <2>2, RowsTyped
  <2>5. request' = [request EXCEPT ![p] = NoRequest] /\ UNCHANGED <<status, score, rescore>>
    BY <1>4 DEF Reject
  <2>6. QED
    BY <2>3, <2>4, <2>5, RowsTyped, RequestMoves
<1>5. ASSUME NEW a \in Approvers, NEW p \in Policies, Prepare(a, p)
      PROVE  PolicyInv'
  <2> DEFINE row == [target |-> {p}, rows |-> Live, changed |-> {}]
  <2>1. row \in PreparedRow
    BY <1>0 DEF PreparedRow
  <2>2. row.target = {p} /\ row.rows = request[p].covered /\ request[p].changed \cap row.rows = {}
        /\ Pending(p)
    BY <1>5 DEF Prepare, SameFingerprint
  <2>3. prepared' = [prepared EXCEPT ![a] = row] /\ UNCHANGED <<status, request, score, rescore>>
    BY <1>5 DEF Prepare
  <2> HIDE DEF row
  <2>4. \A b \in Approvers : prepared'[b] = IF b = a THEN row ELSE prepared[b]
    BY <1>0, <2>3
  <2>5. QED
    BY <1>0, <2>1, <2>2, <2>3, <2>4, PreparedMoves
<1>6. ASSUME NEW a \in Approvers, GiveUp(a)
      PROVE  PolicyInv'
  <2>1. prepared' = [prepared EXCEPT ![a] = NothingPrepared]
        /\ UNCHANGED <<status, request, score, rescore>>
    BY <1>6 DEF GiveUp
  <2>2. \A b \in Approvers : prepared'[b] = IF b = a THEN NothingPrepared ELSE prepared[b]
    BY <1>0, <2>1
  <2>3. QED
    BY <1>0, <2>1, <2>2, RowsTyped, PreparedMoves
<1>7. ASSUME NEW r \in Rescorers, ReadFindings(r) \/ ReadPolicy(r)
      PROVE  PolicyInv'
  <2>1. rescore[r] \in RescoreRow
    BY <1>0
  <2>2. /\ [at |-> "findings", rows |-> Live, by |-> First] \in RescoreRow
        /\ [rescore[r] EXCEPT !.at = "policy", !.by = active] \in RescoreRow
    BY <1>0, <2>1, PolicyAssumption DEF RescoreRow
  <2>3. rescore' \in [Rescorers -> RescoreRow]
    BY <1>0, <1>7, <2>2 DEF ReadFindings, ReadPolicy
  <2>4. UNCHANGED <<status, request, score, prepared>>
    BY <1>7 DEF ReadFindings, ReadPolicy
  <2>5. QED
    BY <1>0, <2>3, <2>4, PreparedMoves
<1>8. ASSUME NEW r \in Rescorers, UpdateScores(r)
      PROVE  PolicyInv'
  <2>1. rescore[r] \in RescoreRow
    BY <1>0
  <2>2. rescore[r].rows \subseteq ScoredFindings /\ rescore[r].by \in Policies
    BY <2>1 DEF RescoreRow
  <2>3. PICK others \in SUBSET rescore[r].rows :
          Bump(others \cup {f \in rescore[r].rows : score[f].by # rescore[r].by})
    BY <1>8 DEF UpdateScores
  <2>4. others \cup {f \in rescore[r].rows : score[f].by # rescore[r].by} \in SUBSET ScoredFindings
    BY <2>2
  <2>5. score' \in [ScoredFindings -> ScoredRow]
    <3>1. \A f \in ScoredFindings :
            score[f] \in ScoredRow /\ [score[f] EXCEPT !.by = rescore[r].by] \in ScoredRow
      BY <1>0, <2>2 DEF ScoredRow
    <3>2. QED
      BY <1>8, <3>1 DEF UpdateScores
  <2>6. rescore' \in [Rescorers -> RescoreRow] /\ status' = status
    BY <1>0, <1>8, RowsTyped DEF UpdateScores
  <2>7. QED
    BY <2>3, <2>4, <2>5, <2>6, BumpKeeps
<1>9. CASE UNCHANGED policyVars
  BY <1>0, <1>9, PreparedMoves DEF policyVars
<1>10. QED
  BY <1>1, <1>2, <1>3, <1>4, <1>5, <1>6, <1>7, <1>8, <1>9, ApproveKeeps DEF PolicyNext

\* A pending request is for a policy that is not active, against the one that is
\* (approve_policy_activation_request withdraws the others).
THEOREM PolicyPending == PolicySpec => []PendingAgainstActive
<1>1. PolicyInv => PendingAgainstActive
  BY DEF PolicyInv
<1>2. QED
  BY PolicyInitInv, PolicyStep, <1>1, PTL DEF PolicySpec

\* A policy becomes active only over the findings whose impact was analysed, none of
\* which changed since, and all of them get its scores, for any number of approvals,
\* rescorings and imports under way (prepare_policy_activation,
\* approve_policy_activation_request).
THEOREM PolicyActivated == PolicySpec => ActivatedAsAnalysed
<1> DEFINE Analysed ==
      \A p \in Policies : Activated(p) =>
          \A f \in request[p].covered : f \notin request[p].changed /\ score'[f].by = p
<1>1. PolicyInv /\ [PolicyNext]_policyVars => [Analysed]_policyVars
  <2> SUFFICES ASSUME PolicyInv, [PolicyNext]_policyVars, NEW p \in Policies, Activated(p),
                      NEW f \in request[p].covered
               PROVE  f \notin request[p].changed /\ score'[f].by = p
    OBVIOUS
  <2>1. status' # status
    BY DEF Activated
  <2>2. PICK a \in Approvers, q \in Policies : Approve(a, q)
    BY <2>1 DEF PolicyNext, policyVars, Add, Modify, SetArchived, Analyse, Request, Reject,
                GiveUp, Prepare, ReadFindings, ReadPolicy, UpdateScores
  <2>3. q = p
    BY <2>2 DEF Approve, Activated
  <2>4. p \in prepared[a].target /\ prepared[a].changed \cap prepared[a].rows = {}
    BY <2>2, <2>3 DEF Approve, Unchanged
  <2>5. /\ prepared[a].rows = request[p].covered
        /\ request[p].changed \cap prepared[a].rows \subseteq prepared[a].changed
    BY <2>4 DEF PolicyInv, PreparedForRequest
  <2>6. f \in prepared[a].rows /\ f \in ScoredFindings /\ score[f] \in ScoredRow
    BY <2>5 DEF PolicyInv, PolicyTypeOK, PreparedRow
  <2>7. score'[f] = [score[f] EXCEPT !.by = p]
    BY <2>2, <2>3, <2>6 DEF Approve
  <2>8. score'[f].by = p
    BY <2>6, <2>7 DEF ScoredRow
  <2>9. QED
    BY <2>4, <2>5, <2>6, <2>8
<1>2. [PolicyNext]_policyVars /\ PolicyInv => [\A p \in Policies : Activated(p) =>
          \A f \in request[p].covered : f \notin request[p].changed /\ score'[f].by = p]_policyVars
  BY <1>1
<1>3. QED
  BY PolicyInitInv, PolicyStep, <1>2, PTL DEF PolicySpec, ActivatedAsAnalysed

USE SupplyAssumption DEF SupplyAssumption

-----------------------------------------------------------------------------
(* OSV candidates.  As long as OSV renames no record all that is scanned,   *)
(* read, decided and linked is about the one CVE of the records.            *)

AnyCve == Cves \cup {NoCve}
MatchRow == [status : {"none", "CANDIDATE", "REJECTED", "CONFIRMED"}, cve : AnyCve, finding : AnyCve]

AttemptOK(a) == a.at = "recording" => a.answer \in [Matches -> AnyCve]
DecisionOK(d) == d # Idle => /\ d.at \in {"read", "linking"} /\ d.match \in Matches /\ d.cve \in Cves
                             /\ d = [at |-> d.at, match |-> d.match, cve |-> d.cve]
                             /\ d.at = "linking" => found[d.cve] # "none"
                             /\ match[d.match].status # "none"

SupplyTypeOK ==
    /\ alias \in [Matches -> AnyCve]
    /\ attempt = [t \in Attempts |-> attempt[t]] /\ \A t \in Attempts : AttemptOK(attempt[t])
    /\ match \in [Matches -> MatchRow]
    /\ found \in [Cves -> {"none", "open", "worked", "archived"}]
    /\ link \in [Cves -> {"none", "CANDIDATE", "CONFIRMED", "REJECTED"}]
    /\ deciding = [p \in People |-> deciding[p]] /\ \A p \in People : DecisionOK(deciding[p])
    /\ spent \in [renames : Nat, decisions : Nat, edits : Nat]

\* A match that was confirmed has its finding, and the link is decided.
Linked(m) ==
    match[m].finding # NoCve =>
        found[match[m].finding] # "none" /\ link[match[m].finding] \in {"CONFIRMED", "REJECTED"}

\* All is about the CVE c.
OneCve(c) ==
    /\ \A m \in Matches :
          /\ alias[m] = c
          /\ match[m].status # "none" => match[m].cve = c
          /\ match[m].finding \in {NoCve, c}
    /\ \A t \in Attempts : attempt[t].at = "recording" => \A m \in Matches : attempt[t].answer[m] = c
    /\ \A p \in People : deciding[p] # Idle => deciding[p].cve = c

\* While no confirmation was repeated, the one under way is the first, and the
\* finding was made by none or by it.
FirstOf(c) ==
    c \notin repeated =>
        /\ \A p, q \in People : deciding[p] # Idle /\ deciding[q] # Idle => p = q
        /\ \A p \in People : deciding[p].at = "read" => found[c] = "none"
        /\ found[c] # "none" => \/ \E q \in People : deciding[q].at = "linking"
                                \/ \E m \in Matches : match[m].finding = c

SupplyInv ==
    /\ SupplyTypeOK /\ \A m \in Matches : Linked(m) /\ (match[m].status = "CONFIRMED" => match[m].finding # NoCve)
    /\ spent.renames = 0 =>
          /\ reopened \subseteq repeated
          /\ \E c \in Cves : OneCve(c) /\ FirstOf(c)

\* Steps of a scan that leave the matches alone.
LEMMA ScanKeeps ==
    ASSUME SupplyInv, NEW t \in Attempts,
           (\E j \in Scans : LookUpRun(t, j)) \/ OpenRun(t) \/ Answer(t) \/ FailScan(t) \/ KillScan(t)
    PROVE  SupplyInv'
<1>1. PICK a : /\ attempt' = [attempt EXCEPT ![t] = a] /\ AttemptOK(a)
               /\ a.at = "recording" => a.answer = alias
  BY DEF LookUpRun, OpenRun, Answer, FailScan, KillScan, AttemptOK, SupplyInv, SupplyTypeOK, Idle
<1>2. UNCHANGED <<alias, match, found, link, deciding, spent, repeated, reopened>>
  BY DEF LookUpRun, OpenRun, Answer, FailScan, KillScan
<1>3. /\ attempt'[t] = a /\ \A u \in Attempts \ {t} : attempt'[u] = attempt[u]
      /\ attempt' = [u \in Attempts |-> attempt'[u]]
  BY <1>1 DEF SupplyInv, SupplyTypeOK
<1>4. SupplyTypeOK'
  BY <1>1, <1>2, <1>3 DEF SupplyInv, SupplyTypeOK, AttemptOK, DecisionOK
<1>5. ASSUME NEW c \in Cves, OneCve(c) /\ FirstOf(c) PROVE (OneCve(c) /\ FirstOf(c))'
  BY <1>1, <1>2, <1>3, <1>5 DEF OneCve, FirstOf
<1>6. QED
  BY <1>2, <1>4, <1>5 DEF SupplyInv, Linked

LEMMA RecordKeeps ==
    ASSUME SupplyInv, NEW t \in Attempts, RecordScan(t)
    PROVE  SupplyInv'
<1>. PICK a, ans : a = attempt[t] /\ ans = a.answer
  OBVIOUS
<1>1. /\ a.at = "recording" /\ ans \in [Matches -> AnyCve]
      /\ UNCHANGED <<alias, found, link, deciding, spent, repeated, reopened>>
      /\ attempt' = [attempt EXCEPT ![t] = Idle]
  BY DEF RecordScan, SupplyInv, SupplyTypeOK, AttemptOK
<1>2. /\ match' = [m \in Matches |-> match'[m]]
      /\ \A m \in Matches : /\ match'[m] \in MatchRow /\ match'[m].cve = ans[m]
                            /\ match'[m].finding = match[m].finding
                            /\ match'[m].status = "CONFIRMED" => match[m].status = "CONFIRMED"
                            /\ match'[m].status # "none"
  <2>1. match' = [m \in Matches |->
          [match[m] EXCEPT !.cve = ans[m], !.status = IF @ = "none" THEN "CANDIDATE" ELSE @]]
    BY DEF RecordScan
  <2>2. ASSUME NEW m \in Matches
        PROVE  /\ match'[m] \in MatchRow /\ match'[m].cve = ans[m]
               /\ match'[m].finding = match[m].finding
               /\ match'[m].status = IF match[m].status = "none" THEN "CANDIDATE" ELSE match[m].status
    <3>1. match[m] \in MatchRow /\ ans[m] \in AnyCve
      BY <1>1 DEF SupplyInv, SupplyTypeOK
    <3>2. match'[m] = [status |-> IF match[m].status = "none" THEN "CANDIDATE" ELSE match[m].status,
                       cve |-> ans[m], finding |-> match[m].finding]
      BY <2>1, <3>1 DEF MatchRow
    <3>3. QED
      BY <3>1, <3>2 DEF MatchRow
  <2>3. match' = [m \in Matches |-> match'[m]]
    BY <2>1
  <2>4. ASSUME NEW m \in Matches
        PROVE  (match'[m].status = "CONFIRMED" => match[m].status = "CONFIRMED") /\ match'[m].status # "none"
    BY <2>2
  <2>5. QED
    BY ONLY <2>2, <2>3, <2>4
<1>3. /\ attempt'[t] = Idle /\ \A u \in Attempts \ {t} : attempt'[u] = attempt[u]
      /\ attempt' = [u \in Attempts |-> attempt'[u]]
  BY <1>1 DEF SupplyInv, SupplyTypeOK
<1>4. SupplyTypeOK'
  BY <1>1, <1>2, <1>3 DEF SupplyInv, SupplyTypeOK, AttemptOK, DecisionOK, Idle
<1>5. ASSUME NEW c \in Cves, OneCve(c) /\ FirstOf(c) PROVE (OneCve(c) /\ FirstOf(c))'
  <2>1. OneCve(c)'
    BY <1>1, <1>2, <1>3, <1>5 DEF OneCve, Idle
  <2>2. FirstOf(c)'
    BY <1>1, <1>2, <1>5 DEF FirstOf
  <2>3. QED
    BY <2>1, <2>2
<1>6. QED
  BY <1>1, <1>2, <1>4, <1>5 DEF SupplyInv, Linked

LEMMA RejectKeeps ==
    ASSUME SupplyInv, NEW p \in People, NEW m \in Matches, RejectMatch(p, m)
    PROVE  SupplyInv'
<1>1. /\ match' = [match EXCEPT ![m].status = "REJECTED"]
      /\ UNCHANGED <<alias, attempt, found, link, deciding, repeated, reopened>>
      /\ spent' = [spent EXCEPT !.decisions = @ + 1]
      /\ match[m].status # "none"
  BY DEF RejectMatch, CountChange
<1>2. /\ match' \in [Matches -> MatchRow]
      /\ \A n \in Matches : /\ match'[n].cve = match[n].cve /\ match'[n].finding = match[n].finding
                            /\ match'[n].status = "CONFIRMED" => match[n].status = "CONFIRMED"
                            /\ match'[n].status # "none" <=> match[n].status # "none"
  BY <1>1 DEF SupplyInv, SupplyTypeOK, MatchRow
<1>3. spent' \in [renames : Nat, decisions : Nat, edits : Nat] /\ spent'.renames = spent.renames
  BY <1>1 DEF SupplyInv, SupplyTypeOK
<1>4. SupplyTypeOK'
  BY <1>1, <1>2, <1>3 DEF SupplyInv, SupplyTypeOK, AttemptOK, DecisionOK
<1>5. ASSUME NEW c \in Cves, OneCve(c) /\ FirstOf(c) PROVE (OneCve(c) /\ FirstOf(c))'
  BY <1>1, <1>2, <1>5 DEF OneCve, FirstOf
<1>6. QED
  BY <1>1, <1>2, <1>3, <1>4, <1>5 DEF SupplyInv, Linked

LEMMA ReadKeeps ==
    ASSUME SupplyInv, NEW p \in People, NEW m \in Matches, ReadMatch(p, m)
    PROVE  SupplyInv'
<1>. PICK d : d = [at |-> "read", match |-> m, cve |-> match[m].cve]
  OBVIOUS
<1>1. /\ deciding' = [deciding EXCEPT ![p] = d] /\ deciding[p] = Idle
      /\ UNCHANGED <<alias, attempt, match, found, link, reopened>>
      /\ spent' = [spent EXCEPT !.decisions = @ + 1]
      /\ match[m].status \in {"CANDIDATE", "REJECTED"} /\ match[m].cve # NoCve
  BY DEF ReadMatch, CountChange
<1>2. /\ deciding'[p] = d /\ \A q \in People \ {p} : deciding'[q] = deciding[q]
      /\ deciding' = [q \in People |-> deciding'[q]]
  BY <1>1 DEF SupplyInv, SupplyTypeOK
<1>3. spent' \in [renames : Nat, decisions : Nat, edits : Nat] /\ spent'.renames = spent.renames
  BY <1>1 DEF SupplyInv, SupplyTypeOK
<1>4. match[m].cve \in Cves /\ d # Idle /\ d.at = "read" /\ d.cve = match[m].cve
  BY <1>1 DEF SupplyInv, SupplyTypeOK, MatchRow, AnyCve, Idle
<1>5. SupplyTypeOK'
  BY <1>1, <1>2, <1>3, <1>4 DEF SupplyInv, SupplyTypeOK, AttemptOK, DecisionOK
<1>6. repeated \subseteq repeated'
  BY DEF ReadMatch
<1>7. ASSUME NEW c \in Cves, OneCve(c), FirstOf(c) PROVE (OneCve(c) /\ FirstOf(c))'
  <2>1. match[m].cve = c
    BY <1>1, <1>7 DEF OneCve
  <2>2. OneCve(c)'
    BY <1>1, <1>2, <1>4, <1>7, <2>1 DEF OneCve
  <2>3. ASSUME c \notin repeated'
        PROVE  /\ \A q \in People : deciding[q] = Idle
               /\ \A n \in Matches : match[n].finding # c
    BY <1>7, <2>1, <2>3 DEF ReadMatch, OneCve
  <2>4. ASSUME c \notin repeated' PROVE found[c] = "none"
    BY <1>6, <1>7, <2>3, <2>4 DEF FirstOf, Idle
  <2>5. FirstOf(c)'
    BY <1>1, <1>2, <2>3, <2>4 DEF FirstOf
  <2>6. QED
    BY <2>2, <2>5
<1>8. QED
  BY <1>1, <1>3, <1>5, <1>6, <1>7 DEF SupplyInv, Linked

LEMMA WriteKeeps ==
    ASSUME SupplyInv, NEW p \in People, WriteFinding(p)
    PROVE  SupplyInv'
<1>. PICK d, e : d = deciding[p] /\ e = [d EXCEPT !.at = "linking"]
  OBVIOUS
<1>1. /\ d.at = "read" /\ found' = [found EXCEPT ![d.cve] = "open"]
      /\ reopened' = IF found[d.cve] \in {"worked", "archived"} THEN reopened \cup {d.cve} ELSE reopened
      /\ deciding' = [deciding EXCEPT ![p] = e]
      /\ UNCHANGED <<alias, attempt, match, link, spent, repeated>>
  BY DEF WriteFinding
<1>2. /\ deciding'[p] = e /\ \A q \in People \ {p} : deciding'[q] = deciding[q]
      /\ deciding' = [q \in People |-> deciding'[q]]
  BY <1>1 DEF SupplyInv, SupplyTypeOK
<1>3. d # Idle /\ d.cve \in Cves /\ d.match \in Matches
      /\ e = [at |-> "linking", match |-> d.match, cve |-> d.cve] /\ e # Idle
  BY <1>1 DEF SupplyInv, SupplyTypeOK, DecisionOK, Idle
<1>4. /\ found' \in [Cves -> {"none", "open", "worked", "archived"}] /\ found'[d.cve] = "open"
      /\ \A c \in Cves : found[c] # "none" => found'[c] # "none"
      /\ \A c \in Cves \ {d.cve} : found'[c] = found[c]
  BY <1>1, <1>3 DEF SupplyInv, SupplyTypeOK
<1>5. ASSUME NEW q \in People PROVE DecisionOK(deciding[q])'
  <2>1. DecisionOK(deciding[q]) /\ DecisionOK(d)
    BY DEF SupplyInv, SupplyTypeOK
  <2>2. CASE q = p
    BY <1>1, <1>2, <1>3, <1>4, <2>1, <2>2 DEF DecisionOK
  <2>3. CASE q # p
    BY <1>1, <1>2, <1>4, <2>1, <2>3 DEF DecisionOK
  <2>4. QED
    BY <2>2, <2>3
<1>6. SupplyTypeOK'
  BY <1>1, <1>2, <1>4, <1>5 DEF SupplyInv, SupplyTypeOK, AttemptOK
<1>7. ASSUME NEW c \in Cves, OneCve(c), FirstOf(c), reopened \subseteq repeated
      PROVE  (OneCve(c) /\ FirstOf(c) /\ reopened \subseteq repeated)'
  <2>1. d.cve = c
    BY <1>3, <1>7 DEF OneCve
  <2>2. OneCve(c)'
    BY <1>1, <1>2, <1>3, <1>7, <2>1 DEF OneCve
  <2>3. c \notin repeated => found[c] = "none" /\ \A q \in People \ {p} : deciding[q] = Idle
    BY <1>1, <1>3, <1>7 DEF FirstOf
  <2>4. (reopened \subseteq repeated)'
    BY <1>1, <1>7, <2>1, <2>3
  <2>5. FirstOf(c)'
    BY <1>1, <1>2, <1>3, <2>3 DEF FirstOf, Idle
  <2>6. QED
    BY <2>2, <2>4, <2>5
<1>8. QED
  BY <1>1, <1>4, <1>6, <1>7 DEF SupplyInv, SupplyTypeOK, MatchRow, AnyCve, Linked

LEMMA ConfirmMatchKeeps ==
    ASSUME SupplyInv, NEW p \in People, ConfirmMatch(p)
    PROVE  SupplyInv'
<1>. PICK d : d = deciding[p]
  OBVIOUS
<1>1. /\ d.at = "linking" /\ link' = [link EXCEPT ![d.cve] = "CONFIRMED"]
      /\ match' = [match EXCEPT ![d.match].status = "CONFIRMED", ![d.match].finding = d.cve]
      /\ deciding' = [deciding EXCEPT ![p] = Idle]
      /\ UNCHANGED <<alias, attempt, found, spent, repeated, reopened>>
  BY DEF ConfirmMatch
<1>2. /\ deciding'[p] = Idle /\ \A q \in People \ {p} : deciding'[q] = deciding[q]
      /\ deciding' = [q \in People |-> deciding'[q]]
  BY <1>1 DEF SupplyInv, SupplyTypeOK
<1>3. d # Idle /\ d.cve \in Cves /\ d.match \in Matches /\ found[d.cve] # "none"
      /\ match[d.match].status # "none"
  BY <1>1 DEF SupplyInv, SupplyTypeOK, DecisionOK, Idle
<1>4. /\ link' \in [Cves -> {"none", "CANDIDATE", "CONFIRMED", "REJECTED"}]
      /\ link'[d.cve] = "CONFIRMED" /\ \A c \in Cves \ {d.cve} : link'[c] = link[c]
  BY <1>1, <1>3 DEF SupplyInv, SupplyTypeOK
<1>5. /\ match' \in [Matches -> MatchRow]
      /\ match'[d.match].finding = d.cve /\ match'[d.match].cve = match[d.match].cve
      /\ match'[d.match].status = "CONFIRMED"
      /\ \A m \in Matches \ {d.match} : match'[m] = match[m]
  <2>. PICK row, next : row = match[d.match] /\ next = [row EXCEPT !.status = "CONFIRMED", !.finding = d.cve]
    OBVIOUS
  <2>1. match \in [Matches -> MatchRow] /\ row \in MatchRow /\ d.cve \in AnyCve
    BY <1>3 DEF SupplyInv, SupplyTypeOK, AnyCve
  <2>2. match' = [match EXCEPT ![d.match] = next]
    BY <1>1, <1>3, <2>1
  <2>3. next = [status |-> "CONFIRMED", cve |-> row.cve, finding |-> d.cve] /\ next \in MatchRow
    BY <2>1 DEF MatchRow
  <2>4. QED
    BY <1>3, <2>1, <2>2, <2>3
<1>6. SupplyTypeOK'
  <2>1. ASSUME NEW q \in People PROVE DecisionOK(deciding[q])'
    BY <1>1, <1>2, <1>3, <1>5 DEF SupplyInv, SupplyTypeOK, DecisionOK
  <2>2. QED
    BY <1>1, <1>2, <1>4, <1>5, <2>1 DEF SupplyInv, SupplyTypeOK, AttemptOK
<1>7. \A m \in Matches : Linked(m)' /\ (match'[m].status = "CONFIRMED" => match'[m].finding # NoCve)
  <2>1. d.cve # NoCve
    BY <1>3, SupplyAssumption, SMTT(30)
  <2>2. ASSUME NEW m \in Matches \ {d.match} PROVE Linked(m)'
    BY <1>1, <1>4, <1>5, SMTT(30) DEF SupplyInv, SupplyTypeOK, MatchRow, AnyCve, Linked
  <2>3. Linked(d.match)'
    BY <1>1, <1>3, <1>4, <1>5 DEF Linked
  <2>4. QED
    BY <1>5, <2>1, <2>2, <2>3 DEF SupplyInv
<1>8. ASSUME NEW c \in Cves, OneCve(c), FirstOf(c)
      PROVE  (OneCve(c) /\ FirstOf(c))'
  <2>1. d.cve = c
    BY <1>3, <1>8 DEF OneCve
  <2>2. match'[d.match].status # "none" => match'[d.match].cve = c
    BY <1>3, <1>5, <1>8, SMTT(30) DEF OneCve
  <2>3. OneCve(c)'
    <3>1. \A m \in Matches : /\ match'[m].status # "none" => match'[m].cve = c
                             /\ match'[m].finding \in {NoCve, c}
      BY <1>5, <1>8, <2>1, <2>2 DEF OneCve
    <3>2. \A q \in People : deciding'[q] # Idle => deciding'[q].cve = c
      BY <1>2, <1>8 DEF OneCve
    <3>3. QED
      BY <1>1, <1>8, <3>1, <3>2 DEF OneCve
  <2>4. FirstOf(c)'
    BY <1>1, <1>2, <1>3, <1>5, <1>8, <2>1, SMTT(60) DEF FirstOf, Idle
  <2>5. QED
    BY <2>3, <2>4
<1>9. QED
  BY <1>1, <1>6, <1>7, <1>8 DEF SupplyInv

\* Steps that touch a record, a link or a finding, or end a decision.
LEMMA EditKeeps ==
    ASSUME SupplyInv,
           \/ \E c \in Cves, st \in {"CONFIRMED", "REJECTED"} : DecideLink(c, st)
           \/ \E c \in Cves, to \in {"worked", "archived"} : EditFinding(c, to)
           \/ ReconcileLinks
    PROVE  SupplyInv'
<1>1. /\ UNCHANGED <<alias, attempt, match, deciding, repeated, reopened>>
      /\ spent' \in [renames : Nat, decisions : Nat, edits : Nat] /\ spent'.renames = spent.renames
  BY DEF DecideLink, EditFinding, ReconcileLinks, Edit, SupplyInv, SupplyTypeOK
<1>2. /\ link' \in [Cves -> {"none", "CANDIDATE", "CONFIRMED", "REJECTED"}]
      /\ \A c \in Cves : link[c] \in {"CONFIRMED", "REJECTED"} => link'[c] \in {"CONFIRMED", "REJECTED"}
  BY DEF DecideLink, EditFinding, ReconcileLinks, SupplyInv, SupplyTypeOK
<1>3. /\ found' \in [Cves -> {"none", "open", "worked", "archived"}]
      /\ \A c \in Cves : found[c] = "none" <=> found'[c] = "none"
  BY DEF DecideLink, EditFinding, ReconcileLinks, SupplyInv, SupplyTypeOK, Unarchived
<1>4. SupplyTypeOK'
  BY <1>1, <1>2, <1>3 DEF SupplyInv, SupplyTypeOK, AttemptOK, DecisionOK
<1>5. ASSUME NEW c \in Cves, OneCve(c), FirstOf(c) PROVE (OneCve(c) /\ FirstOf(c))'
  BY <1>1, <1>3, <1>5 DEF OneCve, FirstOf
<1>6. QED
  BY <1>1, <1>2, <1>3, <1>4, <1>5 DEF SupplyInv, SupplyTypeOK, MatchRow, AnyCve, Linked

LEMMA RenameKeeps ==
    ASSUME SupplyInv, NEW m \in Matches, NEW c \in AnyCve, Rename(m, c)
    PROVE  SupplyInv'
<1>1. /\ alias' \in [Matches -> AnyCve] /\ spent' \in [renames : Nat, decisions : Nat, edits : Nat]
      /\ spent'.renames # 0 /\ UNCHANGED <<attempt, match, found, link, deciding, repeated, reopened>>
  BY DEF Rename, CountChange, SupplyInv, SupplyTypeOK
<1>2. SupplyTypeOK'
  BY <1>1 DEF SupplyInv, SupplyTypeOK, AttemptOK, DecisionOK
<1>3. QED
  BY <1>1, <1>2 DEF SupplyInv, Linked

LEMMA KillKeeps ==
    ASSUME SupplyInv, NEW p \in People, KillDecision(p)
    PROVE  SupplyInv'
<1>1. /\ deciding[p] # Idle /\ deciding' = [deciding EXCEPT ![p] = Idle]
      /\ repeated' = repeated \cup {deciding[p].cve}
      /\ UNCHANGED <<alias, attempt, match, found, link, spent, reopened>>
  BY DEF KillDecision
<1>2. /\ deciding'[p] = Idle /\ \A q \in People \ {p} : deciding'[q] = deciding[q]
      /\ deciding' = [q \in People |-> deciding'[q]]
  BY <1>1 DEF SupplyInv, SupplyTypeOK
<1>3. SupplyTypeOK'
  BY <1>1, <1>2 DEF SupplyInv, SupplyTypeOK, AttemptOK, DecisionOK
<1>4. ASSUME NEW c \in Cves, OneCve(c) PROVE (OneCve(c) /\ FirstOf(c))'
  <2>1. deciding[p].cve = c
    BY <1>1, <1>4 DEF OneCve
  <2>2. c \in repeated'
    BY <1>1, <2>1
  <2>3. OneCve(c)'
    BY <1>1, <1>2, <1>4 DEF OneCve
  <2>4. QED
    BY <2>2, <2>3 DEF FirstOf
<1>5. QED
  BY <1>1, <1>3, <1>4 DEF SupplyInv, Linked

LEMMA SupplyStep == SupplyInv /\ [SupplyNext]_supplyVars => SupplyInv'
<1> SUFFICES ASSUME SupplyInv, [SupplyNext]_supplyVars PROVE SupplyInv'
  OBVIOUS
<1>1. CASE UNCHANGED supplyVars
  BY <1>1 DEF supplyVars, SupplyInv, SupplyTypeOK, AttemptOK, DecisionOK, Linked, OneCve, FirstOf
<1>2. QED
  BY <1>1, ScanKeeps, RecordKeeps, RejectKeeps, ReadKeeps, WriteKeeps, ConfirmMatchKeeps, EditKeeps,
     RenameKeeps, KillKeeps DEF SupplyNext, AnyCve

LEMMA SupplyHolds == SupplySpec => []SupplyInv
<1>1. SupplyInit => SupplyInv
  <2> SUFFICES ASSUME SupplyInit PROVE SupplyInv
    OBVIOUS
  <2>1. PICK c \in Cves : alias = [m \in Matches |-> c]
    BY DEF SupplyInit
  <2>2. SupplyTypeOK
    BY <2>1 DEF SupplyInit, SupplyTypeOK, AttemptOK, DecisionOK, Idle, NoMatch, MatchRow, AnyCve
  <2>3. OneCve(c) /\ FirstOf(c)
    BY <2>1 DEF SupplyInit, OneCve, FirstOf, Idle, NoMatch
  <2>4. QED
    BY <2>2, <2>3 DEF SupplyInit, SupplyInv, Linked, NoMatch
<1>2. QED
  BY <1>1, SupplyStep, PTL DEF SupplySpec

\* For any number of records, scans, people and decisions: a confirmed candidate
\* has its finding and a link that somebody decided.
THEOREM ConfirmedStaysTracked == SupplySpec => []ConfirmedIsTracked
<1>1. SupplyInv => ConfirmedIsTracked
  <2> SUFFICES ASSUME SupplyInv, NEW m \in Matches, match[m].status = "CONFIRMED"
               PROVE  LET c == match[m].finding IN
                      /\ c # NoCve /\ found[c] # "none" /\ link[c] \in {"CONFIRMED", "REJECTED"}
                      /\ match[m].cve # c => spent.renames > 0
    BY DEF ConfirmedIsTracked
  <2>1. spent.renames \in Nat
    BY DEF SupplyInv, SupplyTypeOK
  <2>2. spent.renames = 0 => match[m].cve = match[m].finding
    BY DEF SupplyInv, OneCve
  <2>3. QED
    BY <2>1, <2>2 DEF SupplyInv, Linked
<1>2. QED
  BY <1>1, SupplyHolds, PTL

\* And unless OSV renamed a record, work on a finding is undone only by
\* confirming its CVE once more.
THEOREM ReopenedOnlyRepeated == SupplySpec => []ReopenedIsRepeated
<1>1. SupplyInv => ReopenedIsRepeated
  BY DEF SupplyInv, ReopenedIsRepeated
<1>2. QED
  BY <1>1, SupplyHolds, PTL

-----------------------------------------------------------------------------
(* Statements about vulnerabilities.  An approved revision stays approved,  *)
(* so what an export shows is not newer than what another one would now.    *)

Revision == [status : {"DRAFT", "PENDING", "APPROVED", "REJECTED"}, reviews : Nat]

VexTypeOK ==
    /\ vex \in [Keys -> Seq(Revision)]
    /\ ~stored => shown = {}

ShownIsPast == \A e \in shown : \A k \in Keys : e[k] \in Nat /\ e[k] <= Export[k]

VexInv == VexTypeOK /\ ShownIsPast /\ ExportsAreOrdered

LEMMA NewestIsGreatest ==
    ASSUME NEW s \in Seq(Revision), NEW T, T = {n \in 1..Len(s) : s[n].status = "APPROVED"} \cup {0}
    PROVE  Max(T) \in T /\ Max(T) \in Nat /\ \A n \in T : n <= Max(T)
<1>1. Len(s) \in Nat /\ T \in SUBSET Nat /\ T # {} /\ \A x \in T : x <= Len(s)
  OBVIOUS
<1>2. QED
  BY <1>1, MaxIsGreatest

\* Steps by which no revision ceases to be approved.
LEMMA GrowKeeps ==
    ASSUME VexInv, VexTypeOK', \A k \in Keys : Approved(k) \subseteq Approved(k)',
           shown' = shown \/ (shown' = shown \cup {Export} /\ vex' = vex)
    PROVE  VexInv'
<1>1. VexTypeOK
  BY DEF VexInv
<1>2. ASSUME NEW k \in Keys
      PROVE  Export[k] \in Nat /\ Export'[k] \in Nat /\ Export[k] <= Export'[k]
  <2>. PICK A, B : A = Approved(k) \cup {0} /\ B = Approved(k)' \cup {0}
    OBVIOUS
  <2>1. /\ A = {n \in 1..Len(vex[k]) : vex[k][n].status = "APPROVED"} \cup {0}
        /\ B = {n \in 1..Len(vex'[k]) : vex'[k][n].status = "APPROVED"} \cup {0}
        /\ vex[k] \in Seq(Revision) /\ vex'[k] \in Seq(Revision)
    BY <1>1 DEF Approved, VexTypeOK
  <2>2. Max(A) \in A /\ Max(A) \in Nat /\ Max(B) \in Nat /\ \A n \in B : n <= Max(B)
    BY <2>1, NewestIsGreatest
  <2>3. Export[k] = Max(A) /\ Export'[k] = Max(B) /\ A \subseteq B
    BY DEF Export
  <2>4. QED
    BY <2>2, <2>3
<1>. PICK e, f : e = Export /\ f = Export'
  OBVIOUS
<1>3. \A x \in shown : \A k \in Keys : x[k] \in Nat /\ x[k] <= e[k]
  BY DEF VexInv, ShownIsPast
<1>4. ShownIsPast'
  <2> SUFFICES ASSUME NEW x \in shown', NEW k \in Keys
               PROVE  x[k] \in Nat /\ x[k] <= f[k]
    BY DEF ShownIsPast
  <2>1. e[k] \in Nat /\ f[k] \in Nat /\ e[k] <= f[k]
    BY <1>2
  <2>2. x \in shown \/ x = e
    OBVIOUS
  <2>3. QED
    BY <1>3, <2>1, <2>2
<1>5. ExportsAreOrdered'
  <2> SUFFICES ASSUME NEW x \in shown', NEW y \in shown'
               PROVE  (\A k \in Keys : x[k] <= y[k]) \/ (\A k \in Keys : y[k] <= x[k])
    BY DEF ExportsAreOrdered
  <2>1. (x \in shown \/ x = e) /\ (y \in shown \/ y = e)
    OBVIOUS
  <2>2. \A k \in Keys : e[k] \in Nat
    BY <1>2
  <2>3. CASE x \in shown /\ y \in shown
    BY <2>3 DEF VexInv, ExportsAreOrdered
  <2>4. CASE x = e
    BY <1>3, <2>1, <2>2, <2>4
  <2>5. CASE y = e
    BY <1>3, <2>1, <2>2, <2>5
  <2>6. QED
    BY <2>1, <2>3, <2>4, <2>5
<1>6. QED
  BY <1>4, <1>5 DEF VexInv

\* One revision moves to another state that is not after the approval.
LEMMA ReviewKeeps ==
    ASSUME VexInv, NEW k \in Keys, NEW n \in 1..Len(vex[k]), vex[k][n].status # "APPROVED",
           NEW r \in Revision, vex' = [vex EXCEPT ![k] = [@ EXCEPT ![n] = r]],
           UNCHANGED <<stored, shown>>
    PROVE  VexInv'
<1>. PICK old, new : old = vex[k] /\ new = [old EXCEPT ![n] = r]
  OBVIOUS
<1>1. vex \in [Keys -> Seq(Revision)] /\ (~stored => shown = {})
  BY DEF VexInv, VexTypeOK
<1>2. old \in Seq(Revision) /\ new \in Seq(Revision) /\ Len(new) = Len(old)
      /\ \A m \in 1..Len(old) : m # n => new[m] = old[m]
  BY <1>1
<1>3. vex' \in [Keys -> Seq(Revision)] /\ vex'[k] = new /\ \A j \in Keys \ {k} : vex'[j] = vex[j]
  BY <1>1, <1>2
<1>4. VexTypeOK'
  BY <1>1, <1>3 DEF VexTypeOK
<1>5. ASSUME NEW j \in Keys PROVE Approved(j) \subseteq Approved(j)'
  <2>1. CASE j = k
    BY <1>2, <1>3, <2>1 DEF Approved
  <2>2. CASE j # k
    BY <1>3, <2>2 DEF Approved
  <2>3. QED
    BY <2>1, <2>2
<1>6. QED
  BY <1>4, <1>5, GrowKeeps

\* For any number of statements, revisions and reviews: what a release published
\* about a vulnerability never goes back.
THEOREM ExportsNeverGoBack == VexSpec => []ExportsAreOrdered
<1>1. VexInit => VexInv
  BY DEF VexInit, VexInv, VexTypeOK, ShownIsPast, ExportsAreOrdered
<1>2. VexInv /\ [VexNext]_vexVars => VexInv'
  <2> SUFFICES ASSUME VexInv, [VexNext]_vexVars PROVE VexInv'
    OBVIOUS
  <2>0. vex \in [Keys -> Seq(Revision)] /\ (~stored => shown = {})
    BY DEF VexInv, VexTypeOK
  <2>1. ASSUME NEW u \in Uploads, LookUpDigest(u) PROVE VexInv'
    BY <2>1, GrowKeeps DEF LookUpDigest, VexInv, VexTypeOK, Approved
  <2>2. ASSUME NEW u \in Uploads, StoreDocument(u) PROVE VexInv'
    <3>1. CASE stored
      BY <2>2, <3>1, GrowKeeps DEF StoreDocument, VexInv, VexTypeOK, Approved
    <3>2. CASE ~stored
      <4>1. shown' = {} /\ stored' /\ vex' = [k \in Keys |-> IF k \in Embedded THEN <<NewDraft>> ELSE <<>>]
        BY <2>0, <2>2, <3>2 DEF StoreDocument
      <4>2. NewDraft \in Revision
        BY DEF NewDraft, Revision
      <4>3. vex' \in [Keys -> Seq(Revision)]
        BY <4>1, <4>2
      <4>4. QED
        BY <4>1, <4>3 DEF VexInv, VexTypeOK, ShownIsPast, ExportsAreOrdered
    <3>3. QED
      BY <3>1, <3>2
  <2>3. ASSUME NEW k \in Keys, CreateRevision(k) PROVE VexInv'
    <3>. PICK old, new : old = vex[k] /\ new = Append(old, NewDraft)
      OBVIOUS
    <3>1. NewDraft \in Revision /\ old \in Seq(Revision)
      BY <2>0 DEF NewDraft, Revision
    <3>2. new \in Seq(Revision) /\ Len(new) = Len(old) + 1 /\ \A m \in 1..Len(old) : new[m] = old[m]
      BY <3>1
    <3>3. vex' = [vex EXCEPT ![k] = new] /\ UNCHANGED <<stored, shown>>
      BY <2>3 DEF CreateRevision
    <3>4. vex' \in [Keys -> Seq(Revision)] /\ vex'[k] = new /\ \A j \in Keys \ {k} : vex'[j] = vex[j]
      BY <2>0, <3>2, <3>3
    <3>5. VexTypeOK'
      BY <2>0, <3>3, <3>4 DEF VexTypeOK
    <3>6. ASSUME NEW j \in Keys PROVE Approved(j) \subseteq Approved(j)'
      <4>1. CASE j = k
        BY <3>1, <3>2, <3>4, <4>1 DEF Approved
      <4>2. CASE j # k
        BY <3>4, <4>2 DEF Approved
      <4>3. QED
        BY <4>1, <4>2
    <3>7. QED
      BY <3>3, <3>5, <3>6, GrowKeeps
  <2>4. ASSUME NEW k \in Keys, NEW n \in 1..MaxRevisions, RequestApproval(k, n) PROVE VexInv'
    <3>. PICK r : r = [status |-> "PENDING", reviews |-> vex[k][n].reviews + 1]
      OBVIOUS
    <3>1. vex[k] \in Seq(Revision) /\ n \in 1..Len(vex[k]) /\ vex[k][n].status # "APPROVED"
      BY <2>0, <2>4 DEF RequestApproval
    <3>2. vex[k][n] \in Revision
      BY <3>1
    <3>3. r \in Revision
      BY <3>2 DEF Revision
    <3>4. vex' = [vex EXCEPT ![k] = [@ EXCEPT ![n] = r]] /\ UNCHANGED <<stored, shown>>
      BY <2>4 DEF RequestApproval
    <3>5. QED
      BY <3>1, <3>3, <3>4, ReviewKeeps
  <2>5. ASSUME NEW k \in Keys, NEW n \in 1..MaxRevisions, NEW s \in {"APPROVED", "REJECTED"},
               DecideStatement(k, n, s)
        PROVE  VexInv'
    <3>. PICK r : r = [vex[k][n] EXCEPT !.status = s]
      OBVIOUS
    <3>1. vex[k] \in Seq(Revision) /\ n \in 1..Len(vex[k]) /\ vex[k][n].status # "APPROVED"
      BY <2>0, <2>5 DEF DecideStatement
    <3>2. vex[k][n] \in Revision
      BY <3>1
    <3>3. r \in Revision
      BY <3>2 DEF Revision
    <3>4. vex' = [vex EXCEPT ![k] = [@ EXCEPT ![n] = r]] /\ UNCHANGED <<stored, shown>>
      BY <2>5 DEF DecideStatement
    <3>5. QED
      BY <3>1, <3>3, <3>4, ReviewKeeps
  <2>6. CASE ExportVex
    BY <2>0, <2>6, GrowKeeps DEF ExportVex, VexInv, VexTypeOK, Approved
  <2>7. CASE UNCHANGED vexVars
    BY <2>7, GrowKeeps DEF vexVars, VexInv, VexTypeOK, Approved
  <2>8. QED
    BY <2>1, <2>2, <2>3, <2>4, <2>5, <2>6, <2>7 DEF VexNext
<1>3. VexInv => ExportsAreOrdered
  BY DEF VexInv
<1>4. QED
  BY <1>1, <1>2, <1>3, PTL DEF VexSpec

-----------------------------------------------------------------------------
(* The leaders of the schedulers. *)

LeaseRow == [holder : Ids \cup {Nobody}, token : Nat, ttl : -1..LeaseTTL]
Belief == [leader : BOOLEAN, token : Nat]

\* A remembered token was issued to this id, and never to another; this holds
\* of what a process remembers whether or not it still believes to lead.
IssuedInv ==
    /\ lease \in LeaseRow
    /\ lease.token = 0 => lease.holder = Nobody
    /\ belief \in [Procs -> Belief]
    /\ \A p \in Procs : belief[p].token <= lease.token
    /\ \A p \in Procs : belief[p].leader => belief[p].token # 0
    /\ \A p \in Procs : belief[p].token # 0 /\ belief[p].token = lease.token
                          => lease.holder = IdOf[p]
    /\ \A p, q \in Procs : belief[p].token # 0 /\ belief[p].token = belief[q].token
                          => IdOf[p] = IdOf[q]

USE LeaderAssumption DEF LeaderAssumption

-----------------------------------------------------------------------------
LEMMA AcquiredRow ==
    ASSUME NEW l \in LeaseRow, NEW h \in Ids
    PROVE  LET a == Acquired(l, h, LeaseTTL)
           IN  /\ a \in LeaseRow
               /\ a.holder = h
               /\ a.token = l.token + 1 \/ (a.token = l.token /\ l.holder = h)
BY DEF Acquired, LeaseRow, Expired

LEMMA ReleasedRow ==
    ASSUME NEW l \in LeaseRow, NEW h \in Ids, NEW t \in Nat
    PROVE  /\ Released(l, h, t) \in LeaseRow
           /\ Released(l, h, t).holder = l.holder
           /\ Released(l, h, t).token = l.token
BY DEF Released, LeaseRow

LEMMA AgedRow ==
    ASSUME NEW l \in LeaseRow
    PROVE  Aged(l) \in LeaseRow /\ Aged(l).holder = l.holder /\ Aged(l).token = l.token
BY DEF Aged, LeaseRow

\* Steps that issue no token: a process may only forget the one it has, or stop
\* believing to lead.
LEMMA ForgetKeeps ==
    ASSUME IssuedInv,
           lease' \in LeaseRow, lease'.holder = lease.holder, lease'.token = lease.token,
           belief' \in [Procs -> Belief],
           \A p \in Procs : \/ belief'[p] = belief[p]
                            \/ belief'[p] = Unbelief
                            \/ belief'[p].leader = FALSE /\ belief'[p].token = belief[p].token
    PROVE  IssuedInv'
<1>1. \A p \in Procs : belief'[p].token \in {0, belief[p].token}
  BY DEF Unbelief
<1>2. \A p \in Procs : belief[p].token \in Nat /\ lease.token \in Nat
  BY DEF IssuedInv, Belief, LeaseRow
<1>3. \A p \in Procs : belief'[p].leader => belief'[p] = belief[p]
  BY DEF Unbelief
<1>4. QED
  BY <1>1, <1>2, <1>3 DEF IssuedInv

LEMMA AcquireKeeps ==
    ASSUME IssuedInv, NEW p \in Procs, Acquire(p)
    PROVE  IssuedInv'
<1>0. IdOf[p] \in Ids /\ lease \in LeaseRow /\ belief \in [Procs -> Belief]
  BY DEF IssuedInv
<1>1. CASE Acquirable(lease, IdOf[p])
  <2>1. /\ lease' \in LeaseRow /\ lease'.holder = IdOf[p]
        /\ lease'.token = lease.token + 1 \/ (lease'.token = lease.token /\ lease.holder = IdOf[p])
    BY <1>0, <1>1, AcquiredRow DEF Acquire
  <2>2. lease.token \in Nat /\ lease'.token \in Nat
    BY <1>0, <2>1 DEF LeaseRow
  <2>3. belief' = [belief EXCEPT ![p] = [leader |-> TRUE, token |-> lease'.token]]
    BY <1>1 DEF Acquire
  <2>4. /\ belief' \in [Procs -> Belief]
        /\ belief'[p].token = lease'.token /\ belief'[p].leader
        /\ \A q \in Procs \ {p} : belief'[q] = belief[q]
    BY <1>0, <2>2, <2>3 DEF Belief
  <2>5. \A q \in Procs : belief[q].token \in Nat /\ belief[q].token <= lease.token
    BY <1>0 DEF IssuedInv, Belief
  <2>6. lease'.token # 0
    <3>1. CASE lease'.token = lease.token + 1
      BY <2>2, <3>1
    <3>2. CASE lease'.token = lease.token /\ lease.token # 0
      BY <3>2
    <3>3. CASE lease'.token = lease.token /\ lease.token = 0
      BY <1>0, <2>1, <3>3 DEF IssuedInv
    <3>4. QED
      BY <2>1, <3>1, <3>2, <3>3
  <2>7. \A q \in Procs : belief'[q].token # 0 /\ belief'[q].token = lease'.token
                            => IdOf[q] = IdOf[p]
    BY <2>1, <2>2, <2>4, <2>5, <2>6 DEF IssuedInv
  <2>8. \A q \in Procs : belief'[q].token <= lease'.token
    BY <2>1, <2>2, <2>4, <2>5
  <2>9. \A q \in Procs : belief'[q].leader => belief'[q].token # 0
    BY <2>4, <2>6 DEF IssuedInv
  <2>10. \A q, r \in Procs : belief'[q].token # 0 /\ belief'[q].token = belief'[r].token
                            => IdOf[q] = IdOf[r]
    <3> SUFFICES ASSUME NEW q \in Procs, NEW r \in Procs,
                        belief'[q].token # 0, belief'[q].token = belief'[r].token
                 PROVE  IdOf[q] = IdOf[r]
      OBVIOUS
    <3>1. CASE q = p \/ r = p
      BY <2>4, <2>6, <2>7, <3>1
    <3>2. CASE q # p /\ r # p
      BY <2>4, <3>2 DEF IssuedInv
    <3>3. QED
      BY <3>1, <3>2
  <2>11. QED
    BY <2>1, <2>4, <2>7, <2>8, <2>9, <2>10 DEF IssuedInv
<1>2. CASE ~Acquirable(lease, IdOf[p])
  <2>1. lease' = lease /\ belief' = [belief EXCEPT ![p] = Unbelief]
    BY <1>2 DEF Acquire
  <2>2. belief' \in [Procs -> Belief]
    BY <1>0, <2>1 DEF Belief, Unbelief
  <2>3. QED
    BY <1>0, <2>1, <2>2, ForgetKeeps
<1>3. QED
  BY <1>1, <1>2

LEMMA IssuedInit == LeaderInit => IssuedInv
BY DEF LeaderInit, IssuedInv, NoLease, LeaseRow, Belief, Unbelief
LEMMA IssuedStep == IssuedInv /\ [LeaderNext]_leaderVars => IssuedInv'
<1> SUFFICES ASSUME IssuedInv, [LeaderNext]_leaderVars
             PROVE  IssuedInv'
  OBVIOUS
<1>0. lease \in LeaseRow /\ belief \in [Procs -> Belief]
  BY DEF IssuedInv
<1>1. ASSUME NEW p \in Procs, ProcessStep(p)
      PROVE  IssuedInv'
  <2>0. /\ IdOf[p] \in Ids /\ belief[p].token \in Nat
        /\ [belief EXCEPT ![p] = Unbelief] \in [Procs -> Belief]
        /\ [belief EXCEPT ![p].leader = FALSE] \in [Procs -> Belief]
    BY <1>0 DEF Belief, Unbelief
  <2>1. CASE Start(p) \/ BeginTick(p) \/ Prune(p) \/ Stop(p)
    BY <1>0, <2>1, ForgetKeeps DEF Start, BeginTick, Prune, Stop
  <2>2. ASSUME Abort(p) PROVE IssuedInv'
    <3>1. belief' = [belief EXCEPT ![p].leader = FALSE] /\ lease' = lease
      BY <2>2 DEF Abort
    <3>2. /\ belief'[p].leader = FALSE /\ belief'[p].token = belief[p].token
          /\ \A q \in Procs \ {p} : belief'[q] = belief[q]
      BY <1>0, <3>1 DEF Belief
    <3>3. QED
      BY <1>0, <2>0, <3>1, <3>2, ForgetKeeps
  <2>3. ASSUME Enter(p) PROVE IssuedInv'
    BY <1>0, <2>3, ForgetKeeps DEF Enter
  <2>4. CASE Register(p) \/ TickFails(p)
    BY <2>2, <2>3, <2>4 DEF Register, TickFails
  <2>5. CASE Acquire(p)
    BY <2>5, AcquireKeeps
  <2>6. CASE StopRelease(p)
    <3>1. belief' = belief
      BY <2>6 DEF StopRelease
    <3>2. lease' = lease \/ lease' = Released(lease, IdOf[p], belief[p].token)
      BY <2>6 DEF StopRelease
    <3>3. lease' \in LeaseRow /\ lease'.holder = lease.holder /\ lease'.token = lease.token
      <4>1. CASE lease' = lease
        BY <1>0, <4>1
      <4>2. CASE lease' = Released(lease, IdOf[p], belief[p].token)
        BY <1>0, <2>0, <4>2, ReleasedRow, ZenonT(40)
      <4>3. QED
        BY <3>2, <4>1, <4>2
    <3>4. QED
      BY <1>0, <3>1, <3>3, ForgetKeeps
  <2>7. CASE StopDeregister(p) \/ Die(p)
    <3>1. lease' = lease /\ belief' = [belief EXCEPT ![p] = Unbelief]
      BY <2>7 DEF StopDeregister, Die
    <3>2. QED
      BY <1>0, <2>0, <3>1, ForgetKeeps
  <2>8. QED
    BY <1>1, <2>1, <2>4, <2>5, <2>6, <2>7 DEF ProcessStep, TickStep
<1>2. ASSUME NEW p \in Procs, CheckLease(p)
      PROVE  IssuedInv'
  BY <1>0, <1>2, ForgetKeeps DEF CheckLease
<1>3. ASSUME NEW p \in Procs, Compare(p)
      PROVE  IssuedInv'
  <2>1. lease' = lease /\ (belief' = belief \/ belief' = [belief EXCEPT ![p] = Unbelief])
    BY <1>3 DEF Compare
  <2>2. [belief EXCEPT ![p] = Unbelief] \in [Procs -> Belief]
    BY <1>0 DEF Belief, Unbelief
  <2>3. QED
    BY <1>0, <2>1, <2>2, ForgetKeeps
<1>4. CASE Second
  <2>1. lease' = Aged(lease) /\ belief' = belief
    BY <1>4 DEF Second
  <2>2. QED
    BY <1>0, <2>1, AgedRow, ForgetKeeps
<1>5. CASE UNCHANGED leaderVars
  BY <1>0, <1>5, ForgetKeeps DEF leaderVars
<1>6. QED
  BY <1>1, <1>2, <1>3, <1>4, <1>5 DEF LeaderNext

\* Two processes that believe to lead under one token share their instance id:
\* a leader that was replaced by another instance has an older token, however
\* late it notices (coordination_tick, verify_scheduler_leadership).
THEOREM LeaderFencedAcrossIds == LeaderSpec => []FencedAcrossIds
<1>1. IssuedInv => FencedAcrossIds
  BY DEF IssuedInv, FencedAcrossIds
<1>2. QED
  BY IssuedInit, IssuedStep, <1>1, PTL DEF LeaderSpec

-----------------------------------------------------------------------------
(* One leader.  A process that would pass the check is the one its id's row  *)
(* shows, and the lease ends before that row is stale: nobody else registers *)
(* under the id while the lease is active.  It takes that ticks acquire in   *)
(* the second they registered in, that the lease is no longer than the row   *)
(* is believed, and that no process on its way out deregisters an id that    *)
(* another one has taken over.                                               *)

Orderly == \A p \in Procs : StopDeregister(p) => registry[IdOf[p]].proc = p

Row(id) == registry[id]

RegistryRow ==
    [status : {"NONE", "ACTIVE", "STALE", "STOPPED"}, proc : Procs \cup {NoProc}, age : Nat]

LeaderTypeOK ==
    /\ registry \in [Ids -> RegistryRow]
    /\ life = [p \in Procs |-> life[p]] /\ tick = [p \in Procs |-> tick[p]]

\* The process believes to lead under the present token.
Holds(p) ==
    life[p] = "up" /\ belief[p].leader /\ belief[p].token = lease.token /\ lease.ttl >= 0

Owns(p) ==
    /\ Row(IdOf[p]).status = "ACTIVE" /\ Row(IdOf[p]).proc = p
    /\ Row(IdOf[p]).age + lease.ttl <= LeaseTTL

\* A process between its registration and its acquisition.
JustIn(p) ==
    tick[p] = "acquire" =>
        /\ Row(IdOf[p]).status = "ACTIVE" => Row(IdOf[p]).age = 0
        /\ life[p] \in {"starting", "up"} =>
              Row(IdOf[p]).status = "ACTIVE" /\ Row(IdOf[p]).proc = p

OwnerInv ==
    /\ IssuedInv /\ LeaderTypeOK
    /\ \A p \in Procs : (Holds(p) => Owns(p)) /\ JustIn(p)

\* Steps that leave the registry alone, lengthen no lease and make nobody a leader.
LEMMA LoseKeeps ==
    ASSUME OwnerInv, IssuedInv', registry' = registry, NEW p \in Procs, NEW newLife, NEW newTick,
           lease'.token = lease.token, lease'.ttl = lease.ttl \/ lease'.ttl = -1,
           \A q \in Procs : belief'[q] = belief[q] \/ belief'[q].leader = FALSE,
           life' = [life EXCEPT ![p] = newLife], newLife = life[p] \/ newLife \notin {"starting", "up"},
           tick' = [tick EXCEPT ![p] = newTick], newTick = tick[p] \/ newTick # "acquire"
    PROVE  OwnerInv'
<1>1. LeaderTypeOK' /\ \A q \in Procs : /\ life'[q] = life[q] \/ life'[q] \notin {"starting", "up"}
                                        /\ tick'[q] = tick[q] \/ tick'[q] # "acquire"
  BY DEF OwnerInv, LeaderTypeOK
<1>2. ASSUME NEW q \in Procs PROVE (Holds(q) => Owns(q))' /\ JustIn(q)'
  <2>1. Holds(q)' => Holds(q) /\ lease'.ttl = lease.ttl
    BY <1>1 DEF Holds
  <2>2. QED
    BY <1>1, <2>1 DEF OwnerInv, Owns, JustIn, Row
<1>3. QED
  BY <1>1, <1>2 DEF OwnerInv

LEMMA PruneKeeps ==
    ASSUME OwnerInv, IssuedInv', LeaseTTL <= InstanceTTL, NEW p \in Procs, Prune(p)
    PROVE  OwnerInv'
<1>1. /\ registry' = [id \in Ids |->
            IF registry[id].status = "ACTIVE" /\ registry[id].age > InstanceTTL
            THEN [registry[id] EXCEPT !.status = "STALE", !.age = 0] ELSE registry[id]]
      /\ tick' = [tick EXCEPT ![p] = "register"] /\ UNCHANGED <<lease, life, belief>>
  BY DEF Prune
<1>2. \A id \in Ids : registry[id] \in RegistryRow
  BY DEF OwnerInv, LeaderTypeOK
<1>3. ASSUME NEW id \in Ids
      PROVE  /\ registry'[id] \in RegistryRow
             /\ registry'[id].status = "ACTIVE" => registry'[id] = registry[id]
             /\ registry[id].age <= InstanceTTL => registry'[id] = registry[id]
  <2>. PICK row, stale : row = registry[id] /\ stale = [row EXCEPT !.status = "STALE", !.age = 0]
    OBVIOUS
  <2>1. /\ row \in RegistryRow
        /\ registry'[id] = IF row.status = "ACTIVE" /\ row.age > InstanceTTL THEN stale ELSE row
    BY <1>1, <1>2, <1>3
  <2>2. row.age \in Nat /\ stale \in RegistryRow /\ stale.status = "STALE"
    BY <2>1 DEF RegistryRow
  <2>3. QED
    BY <2>1, <2>2
<1>4. LeaderTypeOK' /\ \A q \in Procs : tick'[q] = tick[q] \/ tick'[q] # "acquire"
  BY <1>1, <1>3 DEF OwnerInv, LeaderTypeOK
<1>5. ASSUME NEW q \in Procs PROVE (Holds(q) => Owns(q))' /\ JustIn(q)'
  <2>1. IdOf[q] \in Ids
    OBVIOUS
  <2>2. (Holds(q) => Owns(q)) /\ JustIn(q) /\ lease.ttl \in Int /\ registry[IdOf[q]].age \in Nat
    BY <1>2, <2>1, SMTT(30) DEF OwnerInv, IssuedInv, LeaseRow, RegistryRow
  <2>3. ASSUME Holds(q)' PROVE Owns(q)'
    <3>1. Holds(q) /\ lease.ttl >= 0
      BY <1>1, <2>3 DEF Holds
    <3>2. registry[IdOf[q]].age <= InstanceTTL
      BY <2>2, <3>1 DEF Owns, Row
    <3>3. QED
      BY <1>1, <1>3, <2>1, <2>2, <3>1, <3>2 DEF Owns, Row
  <2>4. ASSUME tick'[q] = "acquire" PROVE JustIn(q)'
    <3>. PICK h : h = IdOf[q]
      OBVIOUS
    <3>1. tick[q] = "acquire" /\ life' = life /\ h \in Ids /\ registry[h].age \in Nat
      BY <1>1, <1>4, <2>1, <2>2, <2>4
    <3>2. registry[h].status = "ACTIVE" => registry'[h] = registry[h] /\ registry[h].age = 0
      BY <1>3, <2>2, <3>1 DEF JustIn, Row
    <3>3. registry'[h].status = "ACTIVE" => registry'[h] = registry[h]
      BY <1>3, <3>1
    <3>4. life[q] \in {"starting", "up"} => registry[h].status = "ACTIVE" /\ registry[h].proc = q
      BY <2>2, <3>1 DEF JustIn, Row
    <3>5. QED
      BY <3>1, <3>2, <3>3, <3>4 DEF JustIn, Row
  <2>5. QED
    BY <2>3, <2>4 DEF JustIn
<1>6. QED
  BY <1>4, <1>5 DEF OwnerInv

LEMMA EnterKeeps ==
    ASSUME OwnerInv, IssuedInv', NEW p \in Procs, Enter(p), ~Taken(p)
    PROVE  OwnerInv'
<1>. PICK r, h : r = [status |-> "ACTIVE", proc |-> p, age |-> 0] /\ h = IdOf[p]
  OBVIOUS
<1>1. /\ registry' = [registry EXCEPT ![h] = r] /\ h \in Ids
      /\ tick' = [tick EXCEPT ![p] = "acquire"] /\ UNCHANGED <<lease, life, belief>>
  BY DEF Enter
<1>2. /\ registry'[h] = r /\ \A id \in Ids \ {h} : registry'[id] = registry[id]
      /\ LeaderTypeOK' /\ \A q \in Procs \ {p} : tick'[q] = tick[q]
  BY <1>1 DEF OwnerInv, LeaderTypeOK, RegistryRow
<1>3. registry[h].status = "ACTIVE" => registry[h].proc = p
  BY DEF Taken
<1>4. ASSUME NEW q \in Procs PROVE (Holds(q) => Owns(q))' /\ JustIn(q)'
  <2>1. (Holds(q) => Owns(q)) /\ JustIn(q) /\ lease.ttl \in Int /\ registry[IdOf[q]].age \in Nat
        /\ (Holds(q)' <=> Holds(q)) /\ IdOf[q] \in Ids
    BY <1>1 DEF OwnerInv, IssuedInv, LeaseRow, LeaderTypeOK, Holds, RegistryRow
  <2>2. CASE IdOf[q] # h
    BY <1>1, <1>2, <2>1, <2>2 DEF Owns, JustIn, Row
  <2>3. CASE IdOf[q] = h /\ q # p
    BY <1>1, <1>2, <1>3, <2>1, <2>3 DEF Owns, JustIn, Row
  <2>4. CASE q = p
    BY <1>1, <1>2, <2>1, <2>4 DEF Owns, JustIn, Row
  <2>5. QED
    BY <2>2, <2>3, <2>4
<1>5. QED
  BY <1>2, <1>4 DEF OwnerInv

LEMMA GainKeeps ==
    ASSUME OwnerInv, IssuedInv', NEW p \in Procs, Acquire(p)
    PROVE  OwnerInv'
<1>1. /\ tick[p] = "acquire" /\ tick' = [tick EXCEPT ![p] = "idle"]
      /\ life' = [life EXCEPT ![p] = IF @ = "starting" THEN "up" ELSE @] /\ registry' = registry
  BY DEF Acquire
<1>2. /\ \A q \in Procs \ {p} : life'[q] = life[q] /\ tick'[q] = tick[q]
      /\ life'[p] = "up" => life[p] \in {"starting", "up"}
      /\ tick'[p] = "idle" /\ LeaderTypeOK'
  BY <1>1 DEF OwnerInv, LeaderTypeOK
<1>3. ASSUME NEW q \in Procs PROVE JustIn(q)'
  BY <1>1, <1>2 DEF OwnerInv, JustIn, Row
<1>4. lease \in LeaseRow /\ lease' \in LeaseRow /\ belief = [q \in Procs |-> belief[q]]
      /\ \A q \in Procs : belief[q].token \in Nat /\ belief[q].token <= lease.token
      /\ \A id \in Ids : registry[id].age \in Nat
  BY DEF OwnerInv, IssuedInv, LeaderTypeOK, Belief, RegistryRow
<1>5. CASE UNCHANGED lease /\ belief' = [belief EXCEPT ![p] = Unbelief]
  <2>1. ASSUME NEW q \in Procs, Holds(q)' PROVE Holds(q) /\ Owns(q)
    BY <1>2, <1>4, <1>5, <2>1 DEF Holds, Unbelief, OwnerInv
  <2>2. QED
    BY <1>1, <1>2, <1>3, <1>5, <2>1 DEF OwnerInv, Owns, Row
<1>6. CASE /\ Acquirable(lease, IdOf[p]) /\ lease' = Acquired(lease, IdOf[p], LeaseTTL)
           /\ belief' = [belief EXCEPT ![p] = [leader |-> TRUE, token |-> lease'.token]]
  <2>1. ASSUME NEW q \in Procs, Holds(q)' PROVE Owns(q)'
    <3>1. lease'.ttl = LeaseTTL
      BY <1>6 DEF Acquired
    <3>2. CASE q = p
      <4>1. Row(IdOf[p]).status = "ACTIVE" /\ Row(IdOf[p]).proc = p /\ Row(IdOf[p]).age = 0
        BY <1>1, <1>2, <2>1, <3>2 DEF OwnerInv, JustIn, Holds
      <4>2. QED
        BY <1>1, <3>1, <3>2, <4>1 DEF Owns, Row
    <3>3. CASE q # p
      <4>1. belief'[q] = belief[q] /\ life[q] = "up" /\ belief[q].leader /\ belief[q].token = lease'.token
        BY <1>2, <1>4, <1>6, <2>1, <3>3 DEF Holds
      <4>2. lease'.token = lease.token /\ lease.holder = IdOf[p] /\ lease.ttl >= 0
        BY <1>4, <1>6, <4>1 DEF Acquired, Expired, LeaseRow
      <4>3. Owns(q)
        BY <4>1, <4>2 DEF Holds, OwnerInv
      <4>4. IdOf[q] = IdOf[p]
        BY <4>1, <4>2 DEF OwnerInv, IssuedInv
      <4>5. Row(IdOf[q]).age = 0
        BY <1>1, <4>3, <4>4 DEF Owns, OwnerInv, JustIn
      <4>6. QED
        BY <1>1, <3>1, <4>3, <4>5 DEF Owns, Row
    <3>4. QED
      BY <3>2, <3>3
  <2>2. QED
    BY <1>2, <1>3, <2>1 DEF OwnerInv
<1>7. QED
  BY <1>5, <1>6 DEF Acquire

LEMMA DeregisterKeeps ==
    ASSUME OwnerInv, IssuedInv', NEW p \in Procs, StopDeregister(p), registry[IdOf[p]].proc = p
    PROVE  OwnerInv'
<1>. PICK h : h = IdOf[p]
  OBVIOUS
<1>1. /\ life[p] = "deregistering" /\ h \in Ids /\ registry[h].proc = p
      /\ registry' = [registry EXCEPT ![h] =
            IF @.status = "NONE" THEN @ ELSE [@ EXCEPT !.status = "STOPPED", !.age = 0]]
      /\ belief' = [belief EXCEPT ![p] = Unbelief] /\ life' = [life EXCEPT ![p] = "stopped"]
      /\ UNCHANGED <<lease, tick>>
  BY DEF StopDeregister, Goto
<1>2. /\ registry'[h].status # "ACTIVE" /\ registry' \in [Ids -> RegistryRow]
      /\ \A id \in Ids \ {h} : registry'[id] = registry[id]
  <2>. PICK row, done : row = registry[h] /\ done = [row EXCEPT !.status = "STOPPED", !.age = 0]
    OBVIOUS
  <2>. PICK new : new = IF row.status = "NONE" THEN row ELSE done
    OBVIOUS
  <2>1. row \in RegistryRow /\ registry \in [Ids -> RegistryRow]
    BY <1>1 DEF OwnerInv, LeaderTypeOK
  <2>2. done \in RegistryRow /\ done.status = "STOPPED"
    BY <2>1 DEF RegistryRow
  <2>3. registry' = [registry EXCEPT ![h] = new] /\ new \in RegistryRow /\ new.status # "ACTIVE"
    BY <1>1, <2>1, <2>2
  <2>4. QED
    BY <1>1, <2>1, <2>3
<1>3. LeaderTypeOK' /\ life'[p] = "stopped" /\ \A q \in Procs \ {p} : life'[q] = life[q] /\ belief'[q] = belief[q]
  BY <1>1, <1>2 DEF OwnerInv, LeaderTypeOK, IssuedInv
<1>4. ASSUME NEW q \in Procs PROVE (Holds(q) => Owns(q))' /\ JustIn(q)'
  <2>1. (Holds(q) => Owns(q)) /\ JustIn(q) /\ IdOf[q] \in Ids
    BY DEF OwnerInv
  <2>2. CASE IdOf[q] # h
    BY <1>1, <1>2, <1>3, <2>1, <2>2 DEF Holds, Owns, JustIn, Row
  <2>3. CASE IdOf[q] = h /\ q # p
    BY <1>1, <1>2, <1>3, <2>1, <2>3 DEF Holds, Owns, JustIn, Row
  <2>4. CASE q = p
    BY <1>1, <1>2, <1>3, <2>1, <2>4 DEF Holds, Owns, JustIn, Row
  <2>5. QED
    BY <2>2, <2>3, <2>4
<1>5. QED
  BY <1>3, <1>4 DEF OwnerInv

LEMMA SecondKeeps ==
    ASSUME OwnerInv, IssuedInv', Second, Timely
    PROVE  OwnerInv'
<1>1. /\ \A p \in Procs : tick[p] # "acquire"
      /\ registry' = [id \in Ids |-> [registry[id] EXCEPT
            !.age = IF registry[id].status = "ACTIVE" /\ @ <= InstanceTTL THEN @ + 1 ELSE @]]
      /\ lease' = Aged(lease)
      /\ tick' = [p \in Procs |-> IF tick[p] = "asleep" THEN "idle" ELSE tick[p]]
      /\ UNCHANGED <<life, belief>>
  BY DEF Second
<1>2. \A id \in Ids : registry[id] \in RegistryRow
  BY DEF OwnerInv, LeaderTypeOK
<1>3. ASSUME NEW q \in Procs, Holds(q)' PROVE Owns(q)'
  <2>. PICK h, row : h = IdOf[q] /\ row = registry[h]
    OBVIOUS
  <2>1. lease \in LeaseRow /\ lease'.token = lease.token /\ lease.ttl \in Nat \ {0}
        /\ lease'.ttl = lease.ttl - 1
    BY <1>1, <1>3 DEF OwnerInv, IssuedInv, LeaseRow, Aged, Holds
  <2>2. Owns(q)
    BY <1>1, <1>3, <2>1 DEF Holds, OwnerInv
  <2>3. row.status = "ACTIVE" /\ row.proc = q /\ row.age \in Nat /\ row.age + lease.ttl <= LeaseTTL
        /\ h \in Ids /\ row \in RegistryRow
    BY <1>2, <2>2 DEF Owns, Row, RegistryRow
  <2>4. registry'[h].status = "ACTIVE" /\ registry'[h].proc = q /\ registry'[h].age \in Nat
        /\ registry'[h].age <= row.age + 1
    BY <1>1, <2>3 DEF RegistryRow
  <2>5. QED
    BY <2>1, <2>3, <2>4 DEF Owns, Row
<1>4. LeaderTypeOK'
  <2>1. ASSUME NEW id \in Ids PROVE registry'[id] \in RegistryRow
    BY <1>1, <1>2, <2>1 DEF RegistryRow
  <2>2. registry' \in [Ids -> RegistryRow]
    BY <1>1, <2>1
  <2>3. QED
    BY <1>1, <2>2 DEF OwnerInv, LeaderTypeOK
<1>5. \A q \in Procs : JustIn(q)'
  BY <1>1 DEF JustIn
<1>6. QED
  BY <1>3, <1>4, <1>5 DEF OwnerInv

LEMMA OwnerStep ==
    ASSUME Timely, LeaseTTL <= InstanceTTL, OwnerInv, IssuedInv', [LeaderNext]_leaderVars, Orderly
    PROVE  OwnerInv'
<1>1. CASE UNCHANGED leaderVars
  BY <1>1 DEF leaderVars, OwnerInv, LeaderTypeOK, Holds, Owns, JustIn, Row
<1>2. ASSUME NEW p \in Procs,
             \/ Start(p) \/ BeginTick(p) \/ TickFails(p) \/ (tick[p] = "register" /\ Abort(p)) \/ Stop(p)
             \/ Die(p) \/ CheckLease(p)
      PROVE  OwnerInv'
  <2>1. /\ life = [q \in Procs |-> life[q]] /\ tick = [q \in Procs |-> tick[q]]
        /\ belief = [q \in Procs |-> belief[q]]
    BY DEF OwnerInv, LeaderTypeOK, IssuedInv
  <2>2. CASE Start(p)
    BY <2>1, <2>2 DEF Start, OwnerInv, LeaderTypeOK, Holds, Owns, JustIn, Row
  <2>3. CASE BeginTick(p) \/ Stop(p) \/ CheckLease(p)
    <3>1. PICK l, t : life' = [life EXCEPT ![p] = l] /\ tick' = [tick EXCEPT ![p] = t]
                      /\ (l = life[p] \/ l = "stopping") /\ (t = tick[p] \/ t = "prune")
      BY <2>1, <2>3 DEF BeginTick, Stop, CheckLease, Goto
    <3>2. UNCHANGED <<registry, lease, belief>>
      BY <2>3 DEF BeginTick, Stop, CheckLease
    <3>3. QED
      BY <3>1, <3>2, LoseKeeps
  <2>4. CASE TickFails(p) \/ (tick[p] = "register" /\ Abort(p))
    <3>1. PICK l : life' = [life EXCEPT ![p] = l] /\ (l = life[p] \/ l = "dead")
      BY <2>1, <2>4 DEF TickFails, Abort
    <3>2. /\ tick' = [tick EXCEPT ![p] = "asleep"] /\ UNCHANGED <<registry, lease>>
          /\ \A q \in Procs : belief'[q] = belief[q] \/ belief'[q].leader = FALSE
      BY <2>1, <2>4 DEF TickFails, Abort, OwnerInv, IssuedInv, Belief
    <3>3. QED
      BY <3>1, <3>2, LoseKeeps
  <2>5. CASE Die(p)
    <3>1. /\ life' = [life EXCEPT ![p] = "dead"] /\ tick' = [tick EXCEPT ![p] = "idle"]
          /\ UNCHANGED <<registry, lease>>
          /\ \A q \in Procs : belief'[q] = belief[q] \/ belief'[q].leader = FALSE
      BY <2>1, <2>5 DEF Die, Goto, Unbelief
    <3>2. QED
      BY <3>1, LoseKeeps
  <2>6. QED
    BY <1>2, <2>2, <2>3, <2>4, <2>5
<1>3. ASSUME NEW p \in Procs, Compare(p) PROVE OwnerInv'
  <2>1. /\ life' = [life EXCEPT ![p] = life[p]] /\ tick' = [tick EXCEPT ![p] = tick[p]]
        /\ UNCHANGED <<registry, lease>>
        /\ \A q \in Procs : belief'[q] = belief[q] \/ belief'[q].leader = FALSE
    BY <1>3 DEF Compare, OwnerInv, LeaderTypeOK, IssuedInv, Unbelief
  <2>2. QED
    BY <2>1, LoseKeeps
<1>4. ASSUME NEW p \in Procs, StopRelease(p) PROVE OwnerInv'
  <2>1. /\ life' = [life EXCEPT ![p] = "deregistering"] /\ tick' = [tick EXCEPT ![p] = tick[p]]
        /\ UNCHANGED <<registry, belief>>
    BY <1>4 DEF StopRelease, Goto, OwnerInv, LeaderTypeOK
  <2>2. lease'.token = lease.token /\ (lease'.ttl = lease.ttl \/ lease'.ttl = -1)
    BY <1>4 DEF StopRelease, Released, OwnerInv, IssuedInv, LeaseRow
  <2>3. QED
    BY <2>1, <2>2, LoseKeeps
<1>5. ASSUME NEW p \in Procs, Register(p) PROVE OwnerInv'
  BY <1>2, <1>5, EnterKeeps DEF Register
<1>6. ASSUME NEW p \in Procs, StopDeregister(p) PROVE OwnerInv'
  BY <1>6, DeregisterKeeps DEF Orderly
<1>7. QED
  BY <1>1, <1>2, <1>3, <1>4, <1>5, <1>6, PruneKeeps, GainKeeps, SecondKeeps
     DEF LeaderNext, ProcessStep, TickStep

\* For any number of processes, ids, crashes and restarts, and of processes that
\* are suspended and wake up: at most one would pass the leadership check, when
\* the lease is not longer than the instance TTL (the defaults are equal,
\* settings.py:173) and no process deregisters what another one registered.
THEOREM AtMostOneLeader ==
    ASSUME Timely, LeaseTTL <= InstanceTTL
    PROVE  LeaderSpec /\ [][Orderly]_leaderVars => []OneLeader
<1>1. LeaderInit => OwnerInv
  <2> SUFFICES ASSUME LeaderInit PROVE OwnerInv
    OBVIOUS
  <2>1. IssuedInv
    BY IssuedInit
  <2>2. QED
    BY <2>1 DEF LeaderInit, OwnerInv, LeaderTypeOK, RegistryRow, Holds, Owns, JustIn, Row
<1>2. OwnerInv /\ [LeaderNext]_leaderVars /\ [Orderly]_leaderVars => OwnerInv'
  <2> SUFFICES ASSUME OwnerInv, [LeaderNext]_leaderVars, [Orderly]_leaderVars PROVE OwnerInv'
    OBVIOUS
  <2>1. IssuedInv'
    BY IssuedStep DEF OwnerInv
  <2>2. CASE Orderly
    BY <2>1, <2>2, OwnerStep
  <2>3. CASE UNCHANGED leaderVars
    BY <2>3 DEF leaderVars, OwnerInv, LeaderTypeOK, Holds, Owns, JustIn, Row, IssuedInv
  <2>4. QED
    BY <2>2, <2>3
<1>3. OwnerInv => OneLeader
  <2> SUFFICES ASSUME OwnerInv, NEW p \in Procs, NEW q \in Procs, Leads(p), Leads(q) PROVE p = q
    BY DEF OneLeader
  <2>1. Owns(p) /\ Owns(q) /\ IdOf[p] = IdOf[q]
    BY DEF Leads, Active, Holds, OwnerInv
  <2>2. QED
    BY <2>1 DEF Owns
<1>4. QED
  BY <1>1, <1>2, <1>3, PTL DEF LeaderSpec

\* The loops that make jobs check the leadership and do nothing else to it, so
\* that what is proved of the leaders holds with them.
THEOREM SchedulesFollowLeaders == ScheduleSpec => LeaderSpec
<1>1. ScheduleInit => LeaderInit
  BY DEF ScheduleInit
<1>2. [ScheduleNext]_scheduleVars => [LeaderNext]_leaderVars
  BY DEF ScheduleNext, scheduleVars, leaderVars, Wake, Decide, Produce, Elsewhere, JobDone, SecondPasses,
         LeaderNext
<1>3. QED
  BY <1>1, <1>2, PTL DEF ScheduleSpec, LeaderSpec

-----------------------------------------------------------------------------
(* The workers of MCContention: what JobQueueProofs proves of the loops, for *)
(* the lease and the interval they have here.                                *)

Proved == INSTANCE JobQueueProofs WITH
    Timely <- TRUE, BeatEvery <- 2, Lease <- 2, Faults <- FALSE, Mortal <- {},
    ImportJobs <- Jobs, ImportsAge <- TRUE, Keys <- {}, Priorities <- {0},
    MaxAttempts <- 2, MaxDelay <- 1, MaxRuns <- 0

\* No two threads of these workers execute one job, as the assumptions of the queue hold.
LEMMA ProvedNoOverlap == Proved!WorkerSpec => []Proved!NoOverlap
<1>1. /\ 2 \in Nat \ {0} /\ 2 \in Nat /\ 1 \in Nat \ {0} /\ 0 \in Nat /\ {0} \subseteq Int
      /\ NoWorker \notin Workers /\ NoKey \notin {}
  BY ContentionAssumption DEF ContentionAssumption
<1>2. /\ {} \subseteq Workers /\ Jobs \subseteq Jobs /\ {TRUE, FALSE} \subseteq BOOLEAN /\ 2 <= 2
      /\ NoJob \notin Jobs
  BY ContentionAssumption DEF ContentionAssumption
<1>3. TRUE /\ ~FALSE /\ {} = {} => (Proved!WorkerSpec => []Proved!NoOverlap)
  BY <1>1, <1>2, Proved!WorkerNoOverlap
<1>4. TRUE /\ ~FALSE /\ {} = {}
  OBVIOUS
<1>5. QED
  BY <1>3, <1>4, PTL

\* The two instances are the same workers.
LEMMA SameWorkers ==
    /\ Worker!WorkerInit => Proved!WorkerInit
    /\ Worker!WorkerNext => Proved!WorkerNext
    /\ UNCHANGED queueAndLoops => UNCHANGED Proved!workerVars
    /\ Proved!NoOverlap => NoOverlap
<1>1. Worker!WorkerInit => Proved!WorkerInit
  BY Zenon DEF Worker!WorkerInit, Worker!QueueInit, Worker!Blank, Worker!Free,
         Proved!WorkerInit, Proved!QueueInit, Proved!Blank, Proved!Free
<1>2. Worker!WorkerNext => Proved!WorkerNext
  BY Zenon DEF Worker!queueVars, Proved!queueVars, Worker!Waiting, Proved!Waiting,
         Worker!Active, Proved!Active, Worker!Dead, Proved!Dead, Worker!Blank, Proved!Blank,
         Worker!Unleased, Proved!Unleased, Worker!Expired, Proved!Expired,
         Worker!Reap, Proved!Reap, Worker!Sweep, Proved!Sweep,
         Worker!Eligible, Proved!Eligible, Worker!Before, Proved!Before,
         Worker!Taken, Proved!Taken, Worker!Owns, Proved!Owns,
         Worker!Decision, Proved!Decision, Worker!Record, Proved!Record,
         Worker!KeyFree, Proved!KeyFree, Worker!Fresh, Proved!Fresh,
         Worker!Insert, Proved!Insert, Worker!Create, Proved!Create,
         Worker!Swept, Proved!Swept, Worker!Claim, Proved!Claim,
         Worker!ClaimNothing, Proved!ClaimNothing, Worker!Heartbeat, Proved!Heartbeat,
         Worker!Complete, Proved!Complete, Worker!Fail, Proved!Fail,
         Worker!RequestCancel, Proved!RequestCancel, Worker!Reopened, Proved!Reopened,
         Worker!Retry, Proved!Retry, Worker!DeadLetter, Proved!DeadLetter,
         Worker!Replay, Proved!Replay, Worker!Purgeable, Proved!Purgeable,
         Worker!Purge, Proved!Purge, Worker!Tick, Proved!Tick,
         Worker!ClientNext, Proved!ClientNext, Worker!workerVars, Proved!workerVars,
         Worker!Free, Proved!Free, Worker!Leave, Proved!Leave,
         Worker!Failing, Proved!Failing, Worker!Current, Proved!Current,
         Worker!Ended, Proved!Ended, Worker!Take, Proved!Take, Worker!Poll, Proved!Poll,
         Worker!Beat, Proved!Beat, Worker!LoseBeat, Proved!LoseBeat,
         Worker!Collect, Proved!Collect, Worker!Finish, Proved!Finish,
         Worker!GiveUp, Proved!GiveUp, Worker!Crash, Proved!Crash,
         Worker!Shutdown, Proved!Shutdown, Worker!Advance, Proved!Advance,
         Worker!Renew, Proved!Renew, Worker!Applied, Proved!Applied,
         Worker!Effect, Proved!Effect, Worker!LookUp, Proved!LookUp,
         Worker!Apply, Proved!Apply, Worker!Raise, Proved!Raise,
         Worker!Discard, Proved!Discard, Worker!ThreadStep, Proved!ThreadStep,
         Worker!PurgeImports, Proved!PurgeImports, Worker!LoopStep, Proved!LoopStep,
         Worker!Pass, Proved!Pass, Worker!Client, Proved!Client,
         Worker!WorkerNext, Proved!WorkerNext
<1>3. UNCHANGED queueAndLoops => UNCHANGED Proved!workerVars
  BY DEF queueAndLoops, Proved!workerVars
<1>4. Proved!NoOverlap => NoOverlap
  BY DEF NoOverlap, Worker!NoOverlap, Proved!NoOverlap
<1>5. QED
  BY <1>1, <1>2, <1>3, <1>4

\* While every process lives, renews in time and reaches the database, no two threads
\* execute one job (docs/135_LONG_RUNNING_JOB_LEASE_HEARTBEAT.md), whatever other
\* decisions are taken beside them.
THEOREM OneThreadPerJob == ContentionSpec => []NoOverlap
<1>1. ContentionInit => Proved!WorkerInit
  BY SameWorkers DEF ContentionInit
<1>2. [ContentionNext]_contentionVars => [Proved!WorkerNext]_(Proved!workerVars)
  <2>1. CASE Worker!WorkerNext
    BY <2>1, SameWorkers
  <2>2. CASE UNCHANGED queueAndLoops
    BY <2>2, SameWorkers
  <2>3. [ContentionNext]_contentionVars => Worker!WorkerNext \/ UNCHANGED queueAndLoops
    BY DEF ContentionNext, contentionVars, AllEnded
  <2>4. QED
    BY <2>1, <2>2, <2>3
<1>3. Proved!NoOverlap => NoOverlap
  BY SameWorkers
<1>4. QED
  BY <1>1, <1>2, <1>3, ProvedNoOverlap, PTL DEF ContentionSpec, Proved!WorkerSpec
=============================================================================
