------------------------------- MODULE AssetMerge -------------------------------
(***************************************************************************)
(* Which asset a scanner row belongs to, and assets merged and unmerged    *)
(* (app/repositories/reconciliation.py, finding_ingestion.py,              *)
(* asset_merge.py, asset_merge_rollback.py, asset_inventory.py;            *)
(* app/services/asset_merge_rollback.py).                                  *)
(*                                                                         *)
(* A machine is named by the identifier a scanner gives it; the asset of a *)
(* new machine gets a hash of that name, so assets are named by it too.    *)
(* A merge moves findings, source records and identifiers from one asset   *)
(* to another and keeps what it found in a journal; a rollback writes the  *)
(* journal back if nothing in its scope changed.  Each action is one       *)
(* transaction.  Left out: identity candidates, pending approvals and      *)
(* conflicting authoritative identifiers (which only refuse a merge), and  *)
(* the recovery bundle made before an approval.                            *)
(***************************************************************************)
EXTENDS Integers, Sequences, FiniteSets, SequencesExt

CONSTANTS
    Names,          \* machines, and the assets first seen under them
    Authoritative,  \* names that are SCANNER_ASSET_IDs; the others are host names
    Vulnerabilities,
    RowOrder,       \* the scanner rows <<name, vulnerability>>, by finding id, which
                    \* stands for the order in which they were first seen too
    NoAsset,        \* no asset
    MaxWrites,      \* bound: imports and edits
    MaxMerges       \* bound: merges

ASSUME MergeAssumption ==
    /\ Authoritative \subseteq Names /\ NoAsset \notin Names
    /\ RowOrder \in Seq(Names \X Vulnerabilities) /\ IsInjective(RowOrder)
    /\ MaxWrites \in Nat /\ MaxMerges \in Nat

\* A row has one source record, and is the id of the finding it first made.
ScanRows == ToSet(RowOrder)

VARIABLES
    asset,     \* assets
    owner,     \* asset_identifiers: the asset that has each name
    finding,   \* findings
    record,    \* source_finding_records: the finding of each row, and its key
    requests,  \* PENDING asset_merge_requests
    merges,    \* asset_merge_history and the rollback journals
    writes     \* imports and edits so far

assetVars == <<asset, owner, finding, record, requests, merges, writes>>

\* A canonical key is a hash of the asset and the vulnerability.
Key(a, r) == <<a, r[2]>>
NoKeyAtAll == <<>>

Unknown   == [status |-> "none", into |-> NoAsset, version |-> 0]
NoFinding == [state |-> "none", asset |-> NoAsset, key |-> NoKeyAtAll, merged |-> FALSE,
              version |-> 0]
NoRecord  == [of |-> {}, key |-> NoKeyAtAll]

Known(a) == asset[a].status # "none"
Bumped(row) == [row EXCEPT !.version = @ + 1]

Id(f) == CHOOSE i \in DOMAIN RowOrder : RowOrder[i] = f
FirstOf(F) == CHOOSE f \in F : \A g \in F : Id(f) <= Id(g)

\* _resolve_asset_identity_conn: an authoritative name belongs to the asset that
\* has it; anything else to the asset of its own hash, in whatever state that is.
Resolved(n) == IF n \in Authoritative /\ owner[n] # NoAsset THEN owner[n] ELSE n

\* The key a row would get now.
Proposed(r) == Key(Resolved(r[1]), r)

-----------------------------------------------------------------------------
\* (Operators named ..._M are slips this code could contain.  No definition
\* uses them; they show which property would notice.)
Namesakes_M(r) == {f \in ScanRows : finding[f].key = Proposed(r) /\ finding[f].state = "live"}

\* The findings with the key of the row, archived ones too.
Namesakes(r) == {f \in ScanRows : finding[f].key = Proposed(r)}

\* A row known already must still have its key: the whole import is refused
\* otherwise.  A new one joins the first finding with its key.
Accepted(r) == record[r].of # {} => record[r].key = Proposed(r)

Canonical(r) ==
    IF record[r].of # {} THEN CHOOSE f \in ScanRows : record[r].of = {f}
    ELSE IF Namesakes(r) # {} THEN FirstOf(Namesakes(r)) ELSE r

\* apply_import_batch with this row: the finding becomes live and is aggregated
\* again, and its asset and the name are registered.
Import(r) ==
    LET f == Canonical(r)
        a == IF finding[f] = NoFinding THEN Resolved(r[1]) ELSE finding[f].asset
    IN
    /\ writes < MaxWrites /\ Accepted(r)
    /\ finding' = [finding EXCEPT ![f] =
          IF @ = NoFinding THEN [NoFinding EXCEPT !.state = "live", !.asset = a,
                                                  !.key = Proposed(r), !.version = 1]
          ELSE [Bumped(@) EXCEPT !.state = "live"]]
    /\ record' = [record EXCEPT ![r] = [of |-> {f}, key |-> Proposed(r)]]
    /\ asset' = [asset EXCEPT ![a] =
          IF Known(a) THEN Bumped(@) ELSE [Unknown EXCEPT !.status = "ACTIVE", !.version = 1]]
    /\ owner' = [owner EXCEPT ![r[1]] = IF @ = NoAsset THEN Resolved(r[1]) ELSE @]
    /\ writes' = writes + 1
    /\ UNCHANGED <<requests, merges>>

\* An inventory row for a known asset sets its status and updates its findings.
Inventory(a, status) ==
    /\ writes < MaxWrites /\ Known(a)
    /\ asset' = [asset EXCEPT ![a] = [Bumped(@) EXCEPT !.status = status]]
    /\ finding' = [f \in ScanRows |->
          IF finding[f].asset = a THEN Bumped(finding[f]) ELSE finding[f]]
    /\ writes' = writes + 1
    /\ UNCHANGED <<owner, record, requests, merges>>

\* A finding is archived by hand or by retention.
SetAside(f) ==
    /\ writes < MaxWrites /\ finding[f].state = "live"
    /\ finding' = [finding EXCEPT ![f] = [Bumped(@) EXCEPT !.state = "archived"]]
    /\ writes' = writes + 1
    /\ UNCHANGED <<asset, owner, record, requests, merges>>

-----------------------------------------------------------------------------
\* What a merge takes from an asset: findings that no merge put away.
FindingsOf(a)    == {f \in ScanRows : finding[f].asset = a /\ ~finding[f].merged}
IdentifiersOf(a) == {n \in Names : owner[n] = a}

\* The live findings on t that have the key which f gets there.
Duplicates(f, t) ==
    {g \in ScanRows \ {f} : finding[g].asset = t /\ finding[g].key = Key(t, f)
                            /\ finding[g].state = "live"}

\* The impact whose hash a request records; its lists come from the code of the merge.
Impact(s, t) ==
    [moved |-> {f \in FindingsOf(s) : Duplicates(f, t) = {}},
     into  |-> {<<f, FirstOf(Duplicates(f, t))>> :
                   f \in {f \in FindingsOf(s) : Duplicates(f, t) # {}}},
     ids   |-> <<IdentifiersOf(s), IdentifiersOf(t)>>,
     records |-> Cardinality({r \in ScanRows : record[r].of # {} /\ record[r].of \subseteq FindingsOf(s)}),
     versions |-> <<asset[s].version, asset[t].version>>]

Mergeable(s, t) == s # t /\ asset[s].status = "ACTIVE" /\ asset[t].status = "ACTIVE"

RequestMerge(s, t) ==
    /\ Mergeable(s, t) /\ Len(merges) < MaxMerges
    /\ \A q \in requests : {q.source, q.target} \cap {s, t} = {}
    /\ requests' = requests \cup {[source |-> s, target |-> t, impact |-> Impact(s, t)]}
    /\ UNCHANGED <<asset, owner, finding, record, merges, writes>>

RejectMerge(q) ==
    /\ requests' = requests \ {q}
    /\ UNCHANGED <<asset, owner, finding, record, merges, writes>>

\* The findings of s are taken one after the other.  A finding ends in the duplicate on
\* t, which may be a live one that was moved there just before, or itself moves.
Taker(f, s, t) ==
    LET earlier == {g \in FindingsOf(s) : g[2] = f[2] /\ finding[g].state = "live" /\ Id(g) < Id(f)}
    IN CASE Duplicates(f, t) # {} -> FirstOf(Duplicates(f, t))
         [] Duplicates(f, t) = {} /\ earlier # {} -> FirstOf(earlier)
         [] OTHER -> f

\* What becomes of finding f.
MergedFinding(f, s, t) ==
    LET touched == {g \in FindingsOf(s) : f \in {g, Taker(g, s, t)}}
        row == [finding[f] EXCEPT !.version = @ + Cardinality(touched)]
    IN CASE f \notin FindingsOf(s) -> row
         [] f \in FindingsOf(s) /\ Taker(f, s, t) = f -> [row EXCEPT !.asset = t, !.key = Key(t, f)]
         [] OTHER -> [row EXCEPT !.state = "archived", !.merged = TRUE, !.key = NoKeyAtAll]

\* The record of row r, which goes with its finding.
MergedRecord(r, s, t) ==
    IF \E f \in FindingsOf(s) : record[r].of = {f}
    THEN LET f == CHOOSE f \in FindingsOf(s) : record[r].of = {f}
         IN [of |-> {Taker(f, s, t)}, key |-> Key(t, f)]
    ELSE record[r]

\* The rows a journal is about: the two assets, the findings that were on them, the
\* records of those findings, and the names the assets have.  Of the state given as rows.
Guard(rows, s, t, F) ==
    [asset   |-> [a \in {s, t} |-> rows.asset[a]],
     finding |-> [f \in F |-> rows.finding[f]],
     record  |-> [r \in {r \in ScanRows : rows.record[r].of \cap F # {}} |-> rows.record[r]],
     owner   |-> [n \in {n \in Names : rows.owner[n] \in {s, t}} |-> rows.owner[n]]]

Rows == [asset |-> asset, owner |-> owner, finding |-> finding, record |-> record]

\* approve_asset_merge_request: the impact is computed again and compared.
ApproveMerge(q) ==
    LET s == q.source
        t == q.target
        scope == {f \in ScanRows : finding[f].asset \in {s, t}}
    IN
    /\ Mergeable(s, t) /\ q.impact = Impact(s, t) /\ Len(merges) < MaxMerges
    /\ finding' = [f \in ScanRows |-> MergedFinding(f, s, t)]
    /\ record' = [r \in ScanRows |-> MergedRecord(r, s, t)]
    /\ owner' = [n \in Names |-> IF owner[n] = s THEN t ELSE owner[n]]
    /\ asset' = [asset EXCEPT ![s] = [Bumped(@) EXCEPT !.status = "RETIRED", !.into = t]]
    /\ merges' = Append(merges,
          [source |-> s, target |-> t, scope |-> scope, before |-> Guard(Rows, s, t, scope),
           after |-> Guard(Rows', s, t, scope), rollback |-> "none"])
    /\ requests' = requests \ {q}
    /\ UNCHANGED writes

-----------------------------------------------------------------------------
\* (Operators named ..._M are slips this code could contain.  No definition
\* uses them; they show which property would notice.)
Reversible_M(m) ==
    /\ m.rollback # "APPROVED"
    /\ asset[m.source].status = "RETIRED" /\ asset[m.source].into = m.target
    /\ LET now == Guard(Rows, m.source, m.target, m.scope)
       IN now.finding = m.after.finding /\ now.record = m.after.record

\* The merge can be taken back: the scope is as the merge left it.
Reversible(m) ==
    /\ m.rollback # "APPROVED"
    /\ asset[m.source].status = "RETIRED" /\ asset[m.source].into = m.target
    /\ Guard(Rows, m.source, m.target, m.scope) = m.after

RequestRollback(i) ==
    /\ merges[i].rollback = "none" /\ Reversible(merges[i])
    /\ merges' = [merges EXCEPT ![i].rollback = "PENDING"]
    /\ UNCHANGED <<asset, owner, finding, record, requests, writes>>

RejectRollback(i) ==
    /\ merges[i].rollback = "PENDING"
    /\ merges' = [merges EXCEPT ![i].rollback = "none"]
    /\ UNCHANGED <<asset, owner, finding, record, requests, writes>>

\* approve_asset_merge_rollback_request: every row of the journal is written back.
ApproveRollback(i) ==
    LET kept == merges[i].before IN
    /\ merges[i].rollback = "PENDING" /\ Reversible(merges[i])
    /\ asset'   = [a \in Names |-> IF a \in DOMAIN kept.asset THEN kept.asset[a] ELSE asset[a]]
    /\ finding' = [f \in ScanRows |->
          IF f \in DOMAIN kept.finding THEN kept.finding[f] ELSE finding[f]]
    /\ record'  = [r \in ScanRows |->
          IF r \in DOMAIN kept.record THEN kept.record[r] ELSE record[r]]
    /\ owner'   = [n \in Names |-> IF n \in DOMAIN kept.owner THEN kept.owner[n] ELSE owner[n]]
    /\ merges' = [merges EXCEPT ![i].rollback = "APPROVED"]
    /\ UNCHANGED <<requests, writes>>

AssetInit ==
    /\ asset = [a \in Names |-> Unknown] /\ owner = [n \in Names |-> NoAsset]
    /\ finding = [f \in ScanRows |-> NoFinding] /\ record = [r \in ScanRows |-> NoRecord]
    /\ requests = {} /\ merges = <<>> /\ writes = 0

AssetNext ==
    \/ \E r \in ScanRows : Import(r) \/ SetAside(r)
    \/ \E a \in Names, status \in {"ACTIVE", "RETIRED"} : Inventory(a, status)
    \/ \E s, t \in Names : RequestMerge(s, t)
    \/ \E q \in requests : RejectMerge(q) \/ ApproveMerge(q)
    \/ \E i \in DOMAIN merges : RequestRollback(i) \/ RejectRollback(i) \/ ApproveRollback(i)

AssetSpec == AssetInit /\ [][AssetNext]_assetVars

-----------------------------------------------------------------------------
\* Whatever merges and rollbacks happened, a row that is imported again arrives: its
\* record names a finding that no merge put away, under that finding's key, and the
\* import is not refused if the scanner identifies the machine authoritatively
\* (tests/test_asset_identity_v21.py:178, "future_updates").
KnownRowsArrive ==
    \A r \in ScanRows : \A f \in record[r].of :
        /\ ~finding[f].merged /\ record[r].key = finding[f].key
        /\ finding[f].key = Key(finding[f].asset, f)
        /\ r[1] \in Authoritative => Accepted(r)

\* Only a merge makes two findings of one asset and one vulnerability: it moved one
\* of them to where the other was, archived, which a merge does not look at.
TwinsWereMoved ==
    \A f, g \in ScanRows :
        f # g /\ finding[f].state = "live" /\ finding[g].state = "live"
              /\ finding[f].key = finding[g].key =>
            \E i \in DOMAIN merges :
                LET then == merges[i].before.finding
                IN /\ {f, g} \subseteq DOMAIN then
                   /\ {then[f].asset, then[g].asset} = {merges[i].source, merges[i].target}
                   /\ "archived" \in {then[f].state, then[g].state}
=============================================================================
