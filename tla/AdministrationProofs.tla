------------------------ MODULE AdministrationProofs ------------------------
(***************************************************************************)
(* What administrators do, for any number of machines, processes,          *)
(* requests, users, projects and directories.  Assets merged and unmerged: *)
(* in any order, with whatever is imported and edited in between.  The     *)
(* restore barrier: fencing without any assumption on time, exclusion of   *)
(* other restores and of write requests when TTLs are respected.  The      *)
(* preparation of the storage, the control database and its restores:      *)
(* however often they are killed.                                          *)
(***************************************************************************)
EXTENDS RestoreBarrier, StorageSplit, ControlPlane, AssetMerge, NumberLemmas, FiniteSetTheorems,
        TLAPS

-----------------------------------------------------------------------------
(* Assets merged and unmerged. *)

AssetRow == [status : {"none", "ACTIVE", "RETIRED"}, into : Names \cup {NoAsset}, version : Nat]
Keys == {NoKeyAtAll} \cup {Key(a, r) : a \in Names, r \in ScanRows}
FindingRow == [state : {"none", "live", "archived"}, asset : Names \cup {NoAsset}, key : Keys,
               merged : BOOLEAN, version : Nat]
RecordRow == [of : SUBSET ScanRows, key : Keys]

PartOf(S, T) == UNION {[D -> T] : D \in SUBSET S}
Snapshot == [asset : PartOf(Names, AssetRow), finding : PartOf(ScanRows, FindingRow),
             record : PartOf(ScanRows, RecordRow), owner : PartOf(Names, Names)]
Journal == [source : Names, target : Names, scope : SUBSET ScanRows, before : Snapshot,
            after : Snapshot, rollback : {"none", "PENDING", "APPROVED"}]

MergeTypeOK ==
    /\ asset \in [Names -> AssetRow] /\ owner \in [Names -> Names \cup {NoAsset}]
    /\ finding \in [ScanRows -> FindingRow] /\ record \in [ScanRows -> RecordRow]
    /\ merges \in Seq(Journal)
    /\ \A q \in requests : q.source \in Names /\ q.target \in Names

\* A finding that no merge put away.
Stands(row) == row.state # "none" /\ ~row.merged

\* The key of a finding is the one its asset gives it, until a merge takes it away.
FindingOK(f, row) ==
    /\ row.state = "none" => row = NoFinding
    /\ row.state # "none" => row.asset \in Names
    /\ row.merged => row.state = "archived" /\ row.key = NoKeyAtAll
    /\ Stands(row) => row.key = Key(row.asset, f)

\* A row's record, when the names have these owners: of a finding that stands, under
\* its key; an authoritative name belongs to the asset of the finding.
RecordOK(r, row, findings, owners) ==
    \E f \in DOMAIN findings :
        /\ row = [of |-> {f}, key |-> Key(findings[f].asset, f)]
        /\ Stands(findings[f]) /\ f[2] = r[2]
        /\ r[1] \in Authoritative => r[1] \in DOMAIN owners /\ owners[r[1]] = findings[f].asset

RowsOK ==
    /\ \A a \in Names : asset[a].status = "none" => asset[a].version = 0
    /\ \A f \in ScanRows :
          /\ FindingOK(f, finding[f])
          /\ finding[f].state # "none" => record[f].of # {}
          /\ record[f].of # {} => RecordOK(f, record[f], finding, owner)

\* Some merge moved one of the two to where the other was, archived.
MovedTogether(f, g) ==
    \E i \in DOMAIN merges :
        LET then == merges[i].before.finding
        IN /\ {f, g} \subseteq DOMAIN then
           /\ {then[f].asset, then[g].asset} = {merges[i].source, merges[i].target}
           /\ "archived" \in {then[f].state, then[g].state}

\* Two findings that stand, of one asset and one vulnerability.
Twins(f, g, findings) ==
    f # g /\ Stands(findings[f]) /\ Stands(findings[g]) /\ findings[f].key = findings[g].key

TwinsOK == \A f, g \in ScanRows : Twins(f, g, finding) => MovedTogether(f, g)

\* What a journal says, which never changes.
JournalOK(m) ==
    LET s == m.source
        t == m.target
        b == m.before
        a == m.after
    IN
    /\ s # t
    /\ DOMAIN b.asset = {s, t} /\ DOMAIN a.asset = {s, t} /\ b.asset[t] = a.asset[t]
    /\ b.asset[s].status = "ACTIVE" /\ b.asset[t].status = "ACTIVE"
    /\ a.asset[s].version = b.asset[s].version + 1
    /\ DOMAIN b.finding = m.scope /\ DOMAIN a.finding = m.scope
    /\ \A f \in m.scope :
          /\ FindingOK(f, b.finding[f]) /\ b.finding[f].asset \in {s, t}
          /\ b.finding[f].asset = t /\ Stands(b.finding[f]) =>
                a.finding[f].asset = t /\ Stands(a.finding[f]) /\ a.finding[f].key = Key(t, f)
    /\ DOMAIN b.record = DOMAIN a.record
    /\ \A r \in DOMAIN b.record :
          /\ RecordOK(r, b.record[r], b.finding, b.owner)
          /\ \A f \in b.record[r].of : b.finding[f].asset = t => a.record[r] = b.record[r]
    /\ DOMAIN b.owner = DOMAIN a.owner
    /\ \A n \in DOMAIN b.owner : b.owner[n] \in {s, t} /\ a.owner[n] = t

NamesMoved(m) == {n \in DOMAIN m.before.owner : m.before.owner[n] = m.source}

\* Since a merge that may still be taken back, its assets were only changed upwards,
\* and the source is retired unless it was.
VersionsOK(m, assets) ==
    /\ m.after.asset[m.source].version <= assets[m.source].version
    /\ m.after.asset[m.target].version <= assets[m.target].version
    /\ assets[m.source].version = m.after.asset[m.source].version =>
          assets[m.source].status = "RETIRED"

\* While the target is as the merge left it, it has the names that were moved there, and
\* the rows of an authoritative one have no finding outside the scope.
NamesStay(m, assets, owners, records) ==
    assets[m.target].version = m.after.asset[m.target].version =>
        \A n \in NamesMoved(m) :
            /\ owners[n] = m.target
            /\ n \in Authoritative =>
                  \A r \in ScanRows : r[1] = n => records[r].of \subseteq m.scope

\* While the source is as the merge left it, no finding came to it.
SourceIsEmpty(m, assets, findings) ==
    assets[m.source].version = m.after.asset[m.source].version =>
        \A f \in ScanRows : Stands(findings[f]) => findings[f].asset # m.source

\* The same, of what a later journal k found.
Between(m, k) ==
    /\ \A x \in {m.source, m.target} \cap {k.source, k.target} :
          /\ m.after.asset[x].version <= k.before.asset[x].version
          /\ x = m.source => m.after.asset[x].version < k.before.asset[x].version
    /\ m.target \in {k.source, k.target}
          /\ k.before.asset[m.target].version = m.after.asset[m.target].version =>
       \A n \in NamesMoved(m) :
          /\ n \in DOMAIN k.before.owner /\ k.before.owner[n] = m.target
          /\ n \in Authoritative =>
                \A r \in DOMAIN k.before.record : r[1] = n => k.before.record[r].of \subseteq m.scope

Open(m) == m.rollback # "APPROVED"

JournalsOK ==
    \A i \in DOMAIN merges :
        /\ JournalOK(merges[i])
        /\ \A f \in merges[i].scope : record[f].of # {}
        /\ \A f, g \in merges[i].scope :
              Twins(f, g, merges[i].before.finding) => MovedTogether(f, g)

BetweenOK ==
    \A i, k \in DOMAIN merges : i < k /\ Open(merges[i]) => Between(merges[i], merges[k])

OpenOK ==
    \A i \in DOMAIN merges :
        Open(merges[i]) =>
            /\ VersionsOK(merges[i], asset)
            /\ NamesStay(merges[i], asset, owner, record)
            /\ SourceIsEmpty(merges[i], asset, finding)

MergeInv == MergeTypeOK /\ RowsOK /\ TwinsOK /\ JournalsOK /\ BetweenOK /\ OpenOK

-----------------------------------------------------------------------------
(* Ids, keys and parts of tables. *)

\* Every scanner row has an id.
LEMMA IdIsNumber ==
    ASSUME NEW f \in ScanRows
    PROVE  Id(f) \in Nat
<1>1. \E i \in DOMAIN RowOrder : RowOrder[i] = f
  BY DEF ScanRows, ToSet
<1>2. Id(f) \in DOMAIN RowOrder
  BY <1>1 DEF Id
<1>3. QED
  BY <1>2, MergeAssumption DEF MergeAssumption

\* The first of some findings is one of them.
LEMMA FirstIsIn ==
    ASSUME NEW F \in SUBSET ScanRows, F # {}
    PROVE  FirstOf(F) \in F /\ \A g \in F : Id(FirstOf(F)) <= Id(g)
<1> DEFINE T == {Id(f) : f \in F}
<1>1. T \in SUBSET Nat /\ T # {}
  BY IdIsNumber
<1>2. PICK x \in T : \A y \in T : x <= y
  BY <1>1, LeastNumber
<1>3. \E f \in F : \A g \in F : Id(f) <= Id(g)
  BY <1>2
<1>4. QED
  BY <1>3 DEF FirstOf

\* The key of a finding tells the asset and the vulnerability.
LEMMA KeysDiffer ==
    ASSUME NEW a, NEW b, NEW f, NEW g
    PROVE  Key(a, f) # NoKeyAtAll /\ (Key(a, f) = Key(b, g) <=> a = b /\ f[2] = g[2])
BY DEF Key, NoKeyAtAll

\* The key of a finding on a known asset is one of the keys.
LEMMA KeyTyped ==
    ASSUME NEW a \in Names, NEW f \in ScanRows
    PROVE  Key(a, f) \in Keys
BY DEF Keys

\* A row of the tables, changed as the code changes it.
SetsState(row, st) ==
    LET u == [Bumped(row) EXCEPT !.state = st]
    IN  u \in FindingRow /\ u.state = st /\ u.asset = row.asset /\ u.key = row.key /\ u.merged = row.merged

SetsStatus(row, st) ==
    LET u == [Bumped(row) EXCEPT !.status = st]
    IN  u \in AssetRow /\ u.version = row.version + 1 /\ u.status = st /\ u.into = row.into

\* A finding with a higher version, or made live or archived, is a finding with the other
\* columns as they were.
LEMMA FindingColumns ==
    ASSUME NEW row \in FindingRow
    PROVE  /\ row.version \in Nat /\ Bumped(row) \in FindingRow
           /\ Bumped(row).version = row.version + 1 /\ Bumped(row).state = row.state
           /\ Bumped(row).asset = row.asset /\ Bumped(row).key = row.key
           /\ Bumped(row).merged = row.merged
           /\ SetsState(row, "live") /\ SetsState(row, "archived")
<1> DEFINE b == Bumped(row)
<1>1. /\ row.version \in Nat /\ b \in FindingRow /\ b.version = row.version + 1
      /\ b.state = row.state /\ b.asset = row.asset /\ b.key = row.key /\ b.merged = row.merged
  BY DEF FindingRow, Bumped
<1> HIDE DEF b
<1>2. ASSUME NEW st \in {"live", "archived"}
      PROVE  LET u == [b EXCEPT !.state = st]
             IN  u \in FindingRow /\ u.state = st /\ u.asset = b.asset /\ u.key = b.key /\ u.merged = b.merged
  BY <1>1 DEF FindingRow
<1>3. ASSUME NEW st \in {"live", "archived"}
      PROVE  SetsState(row, st)
  BY <1>1, <1>2 DEF b, SetsState
<1>4. QED
  BY <1>1, <1>3 DEF b

\* An asset that a write touches, likewise.
LEMMA AssetColumns ==
    ASSUME NEW row \in AssetRow
    PROVE  /\ row.version \in Nat /\ row.status \in {"none", "ACTIVE", "RETIRED"}
           /\ SetsStatus(row, "ACTIVE") /\ SetsStatus(row, "RETIRED")
<1> DEFINE b == Bumped(row)
<1>1. /\ row.version \in Nat /\ row.status \in {"none", "ACTIVE", "RETIRED"}
      /\ b \in AssetRow /\ b.version = row.version + 1 /\ b.into = row.into
  BY DEF AssetRow, Bumped
<1> HIDE DEF b
<1>2. ASSUME NEW st \in {"ACTIVE", "RETIRED"}
      PROVE  LET u == [b EXCEPT !.status = st]
             IN  u \in AssetRow /\ u.version = b.version /\ u.status = st /\ u.into = b.into
  BY <1>1 DEF AssetRow
<1>3. ASSUME NEW st \in {"ACTIVE", "RETIRED"}
      PROVE  SetsStatus(row, st)
  BY <1>1, <1>2 DEF b, SetsStatus
<1>4. QED
  BY <1>1, <1>3

\* A part of the rows of a table is a function on some of its keys, and the other way round.
LEMMA Parts ==
    ASSUME NEW S, NEW T, NEW p \in PartOf(S, T)
    PROVE  DOMAIN p \subseteq S /\ p \in [DOMAIN p -> T]
BY DEF PartOf

LEMMA IsPart ==
    ASSUME NEW S, NEW T, NEW D \in SUBSET S, NEW p \in [D -> T]
    PROVE  p \in PartOf(S, T)
BY DEF PartOf

\* The columns of a finding and of its row.
LEMMA RowIsFound ==
    ASSUME NEW r \in ScanRows
    PROVE  r[1] \in Names
BY MergeAssumption DEF MergeAssumption, ScanRows, ToSet

-----------------------------------------------------------------------------
(* What a row is imported into. *)

\* What is known of a row's record.
LEMMA RecordHas ==
    ASSUME MergeTypeOK, RowsOK, NEW r \in ScanRows, NEW f \in record[r].of
    PROVE  /\ f \in ScanRows /\ record[r] = [of |-> {f}, key |-> Key(finding[f].asset, f)]
           /\ Stands(finding[f]) /\ f[2] = r[2] /\ finding[f].asset \in Names
           /\ finding[f].key = Key(finding[f].asset, f)
           /\ r[1] \in Authoritative => owner[r[1]] = finding[f].asset
<1>1. RecordOK(r, record[r], finding, owner)
  BY DEF RowsOK
<1>2. PICK g \in DOMAIN finding :
        /\ record[r] = [of |-> {g}, key |-> Key(finding[g].asset, g)]
        /\ Stands(finding[g]) /\ g[2] = r[2]
        /\ r[1] \in Authoritative => r[1] \in DOMAIN owner /\ owner[r[1]] = finding[g].asset
  BY <1>1 DEF RecordOK
<1>3. g = f /\ f \in ScanRows
  BY <1>2 DEF MergeTypeOK
<1>4. FindingOK(f, finding[f])
  BY <1>3 DEF RowsOK
<1>5. QED
  BY <1>2, <1>3, <1>4 DEF FindingOK, Stands

\* The finding of a record is the one it names.
LEMMA RecordIsOf ==
    ASSUME MergeTypeOK, RowsOK, NEW r \in ScanRows, NEW f \in record[r].of
    PROVE  f \in ScanRows /\ record[r].of = {f}
<1>1. f \in ScanRows /\ record[r] = [of |-> {f}, key |-> Key(finding[f].asset, f)]
  BY RecordHas
<1>2. QED
  BY <1>1

\* What a name is resolved to is an asset.
LEMMA ResolvedIsName ==
    ASSUME MergeTypeOK, NEW n \in Names
    PROVE  Resolved(n) \in Names
BY DEF MergeTypeOK, Resolved

\* A finding with a key stands.
LEMMA KeyedStands ==
    ASSUME RowsOK, NEW f \in ScanRows, NEW a, NEW r, finding[f].key = Key(a, r)
    PROVE  Stands(finding[f]) /\ finding[f].asset = a /\ f[2] = r[2]
<1>1. FindingOK(f, finding[f]) /\ finding[f].key # NoKeyAtAll
  BY KeysDiffer DEF RowsOK
<1>2. Stands(finding[f])
  BY <1>1 DEF FindingOK, Stands, NoFinding
<1>3. finding[f].key = Key(finding[f].asset, f)
  BY <1>1, <1>2 DEF FindingOK
<1>4. Key(finding[f].asset, f) = Key(a, r)
  BY <1>3
<1>5. finding[f].asset = a /\ f[2] = r[2]
  BY <1>4, KeysDiffer
<1>6. QED
  BY <1>2, <1>5

\* The finding a row is imported into, its asset and its new record.
LEMMA ImportInto ==
    ASSUME MergeTypeOK, RowsOK, NEW r \in ScanRows, Accepted(r)
    PROVE  LET f == Canonical(r)
               a == IF finding[f] = NoFinding THEN Resolved(r[1]) ELSE finding[f].asset
           IN /\ f \in ScanRows /\ a \in Names /\ f[2] = r[2] /\ Proposed(r) = Key(a, f)
              /\ a = Resolved(r[1])
              /\ Stands(finding[f]) \/ finding[f] = NoFinding
              /\ finding[f] = NoFinding => f = r /\ \A g \in ScanRows : finding[g].key # Key(a, f)
              /\ record[r].of # {} => record[r] = [of |-> {f}, key |-> Proposed(r)]
<1> DEFINE f == Canonical(r)
<1>1. Resolved(r[1]) \in Names /\ Proposed(r) = Key(Resolved(r[1]), r)
  BY ResolvedIsName, RowIsFound DEF Proposed
<1>2. CASE record[r].of # {}
  <2>1. PICK g \in record[r].of : TRUE
    BY <1>2
  <2>2. g \in ScanRows /\ record[r].of = {g} /\ g[2] = r[2] /\ Stands(finding[g])
        /\ record[r] = [of |-> {g}, key |-> Key(finding[g].asset, g)]
        /\ finding[g].asset \in Names
    BY <2>1, RecordHas
  <2>3. f = g
    BY <1>2, <2>2 DEF Canonical
  <2>4. finding[f] # NoFinding
    BY <2>2, <2>3 DEF Stands, NoFinding
  <2>5. Key(finding[f].asset, f) = Key(Resolved(r[1]), r)
    BY <1>1, <1>2, <2>2, <2>3 DEF Accepted
  <2>6. finding[f].asset = Resolved(r[1])
    BY <2>5, KeysDiffer
  <2>7. QED
    BY <1>1, <2>2, <2>3, <2>4, <2>5, <2>6
<1>3. CASE record[r].of = {} /\ Namesakes(r) # {}
  <2>1. f = FirstOf(Namesakes(r)) /\ f \in Namesakes(r)
    BY <1>3, FirstIsIn DEF Canonical, Namesakes
  <2>2. f \in ScanRows /\ finding[f].key = Key(Resolved(r[1]), r)
    BY <1>1, <2>1 DEF Namesakes
  <2>3. Stands(finding[f]) /\ finding[f].asset = Resolved(r[1]) /\ f[2] = r[2]
    BY <2>2, KeyedStands
  <2>4. finding[f] # NoFinding
    BY <2>3 DEF Stands, NoFinding
  <2>5. Proposed(r) = Key(finding[f].asset, f)
    BY <1>1, <2>3, KeysDiffer
  <2>6. QED
    BY <1>1, <1>3, <2>2, <2>3, <2>4, <2>5
<1>4. CASE record[r].of = {} /\ Namesakes(r) = {}
  <2>1. f = r
    BY <1>4 DEF Canonical
  <2>2. finding[r] = NoFinding
    BY <1>4 DEF RowsOK, FindingOK
  <2>3. \A g \in ScanRows : finding[g].key # Proposed(r)
    BY <1>4 DEF Namesakes
  <2>4. QED
    BY <1>1, <1>4, <2>1, <2>2, <2>3
<1>5. QED
  BY <1>2, <1>3, <1>4

\* Two findings that a merge brought together stay so.
LEMMA MovedTogetherStays ==
    ASSUME NEW f, NEW g, MovedTogether(f, g), DOMAIN merges \subseteq DOMAIN merges',
           \A i \in DOMAIN merges : /\ merges'[i].before = merges[i].before
                                    /\ merges'[i].source = merges[i].source
                                    /\ merges'[i].target = merges[i].target
    PROVE  MovedTogether(f, g)'
BY DEF MovedTogether

-----------------------------------------------------------------------------
(* Imports. *)

\* What an import does to a finding f, the asset a, the row's record and its name.
ImportDid(r, f, a) ==
    /\ f[2] = r[2] /\ a = Resolved(r[1])
    /\ \A g \in ScanRows \ {f} : finding'[g] = finding[g]
    /\ finding'[f].state = "live" /\ finding'[f].asset = a /\ finding'[f].key = Key(a, f)
    /\ ~finding'[f].merged
    /\ \/ Stands(finding[f]) /\ finding[f].asset = a /\ finding[f].key = Key(a, f)
       \/ f = r /\ finding[f] = NoFinding /\ \A g \in ScanRows : finding[g].key # Key(a, f)
    /\ \A q \in ScanRows \ {r} : record'[q] = record[q]
    /\ record'[r] = [of |-> {f}, key |-> Key(a, f)]
    /\ record[r].of # {} => record'[r] = record[r]
    /\ \A b \in Names \ {a} : asset'[b] = asset[b]
    /\ asset'[a].version > asset[a].version /\ asset'[a].status # "none"
    /\ \A n \in Names : n # r[1] \/ owner[n] # NoAsset => owner'[n] = owner[n]
    /\ r[1] \in Authoritative => owner'[r[1]] = a
    /\ merges' = merges

\* An import does that to some finding and asset.
LEMMA ImportDoes ==
    ASSUME MergeTypeOK, RowsOK, NEW r \in ScanRows, Import(r)
    PROVE  MergeTypeOK' /\ \E f \in ScanRows, a \in Names : ImportDid(r, f, a)
<1> DEFINE f == Canonical(r)
<1> DEFINE a == IF finding[f] = NoFinding THEN Resolved(r[1]) ELSE finding[f].asset
<1>1. /\ f \in ScanRows /\ a \in Names /\ f[2] = r[2] /\ Proposed(r) = Key(a, f)
      /\ a = Resolved(r[1])
      /\ Stands(finding[f]) \/ finding[f] = NoFinding
      /\ finding[f] = NoFinding => f = r /\ \A g \in ScanRows : finding[g].key # Key(a, f)
      /\ record[r].of # {} => record[r] = [of |-> {f}, key |-> Proposed(r)]
  BY ImportInto DEF Import
<1>2. /\ finding' = [finding EXCEPT ![f] =
           IF @ = NoFinding THEN [NoFinding EXCEPT !.state = "live", !.asset = a,
                                                   !.key = Proposed(r), !.version = 1]
           ELSE [Bumped(@) EXCEPT !.state = "live"]]
      /\ record' = [record EXCEPT ![r] = [of |-> {f}, key |-> Proposed(r)]]
      /\ asset' = [asset EXCEPT ![a] =
           IF Known(a) THEN Bumped(@) ELSE [Unknown EXCEPT !.status = "ACTIVE", !.version = 1]]
      /\ owner' = [owner EXCEPT ![r[1]] = IF @ = NoAsset THEN Resolved(r[1]) ELSE @]
      /\ requests' = requests /\ merges' = merges
  BY DEF Import
<1>3. Key(a, f) \in Keys /\ r[1] \in Names
  BY <1>1, KeyTyped, RowIsFound
<1>4. FindingOK(f, finding[f]) /\ (asset[a].status = "none" => asset[a].version = 0)
  BY <1>1 DEF RowsOK
<1>5. finding[f] # NoFinding => finding[f].asset = a /\ finding[f].key = Key(a, f) /\ ~finding[f].merged
  BY <1>1, <1>4 DEF FindingOK, Stands
<1> HIDE DEF f, a
<1>6. /\ finding'[f] \in FindingRow
      /\ finding'[f].state = "live" /\ finding'[f].asset = a /\ finding'[f].key = Key(a, f)
      /\ ~finding'[f].merged
  <2>1. CASE finding[f] = NoFinding
    BY <1>1, <1>2, <1>3, <2>1 DEF MergeTypeOK, FindingRow, NoFinding
  <2>2. CASE finding[f] # NoFinding
    <3>1. finding[f] \in FindingRow
      BY <1>1 DEF MergeTypeOK
    <3>2. finding'[f] = [Bumped(finding[f]) EXCEPT !.state = "live"]
      BY <1>1, <1>2, <2>2 DEF MergeTypeOK
    <3>3. QED
      <4>1. SetsState(finding[f], "live")
        BY <3>1, FindingColumns
      <4>2. QED
        BY <1>5, <2>2, <3>2, <4>1 DEF SetsState
  <2>3. QED
    BY <2>1, <2>2
<1>7. asset'[a] \in AssetRow /\ asset'[a].version > asset[a].version /\ asset'[a].status # "none"
  <2>1. asset[a] \in AssetRow
    BY <1>1 DEF MergeTypeOK
  <2>2. CASE Known(a)
    <3>1. asset'[a] = [asset[a] EXCEPT !.version = @ + 1]
      BY <1>1, <1>2, <2>2 DEF MergeTypeOK, Bumped
    <3>2. QED
      BY <2>1, <2>2, <3>1 DEF Known, AssetRow
  <2>3. CASE ~Known(a)
    <3>1. asset'[a] = [status |-> "ACTIVE", into |-> NoAsset, version |-> 1]
      BY <1>1, <1>2, <2>3 DEF MergeTypeOK, Unknown
    <3>2. QED
      BY <1>4, <2>1, <2>3, <3>1 DEF Known, AssetRow, Unknown
  <2>4. QED
    BY <2>2, <2>3
<1>8. record'[r] \in RecordRow
  BY <1>1, <1>2, <1>3 DEF MergeTypeOK, RecordRow
<1>9. owner'[r[1]] \in Names \cup {NoAsset}
  BY <1>1, <1>2, <1>3 DEF MergeTypeOK
<1>10. MergeTypeOK'
  BY <1>1, <1>2, <1>3, <1>6, <1>7, <1>8, <1>9 DEF MergeTypeOK
<1>11. r[1] \in Authoritative => owner'[r[1]] = a
  BY <1>1, <1>2, <1>3 DEF MergeTypeOK, Resolved
<1>12. \A n \in Names : n # r[1] \/ owner[n] # NoAsset => owner'[n] = owner[n]
  BY <1>2, <1>3 DEF MergeTypeOK
<1>13. ImportDid(r, f, a)
  BY <1>1, <1>2, <1>5, <1>6, <1>7, <1>11, <1>12 DEF MergeTypeOK, ImportDid
<1>14. QED
  BY <1>1, <1>10, <1>13

\* An import leaves every record with its finding.
LEMMA ImportKeepsRows ==
    ASSUME MergeTypeOK, RowsOK, MergeTypeOK', NEW r \in ScanRows, NEW f \in ScanRows, NEW a \in Names,
           ImportDid(r, f, a)
    PROVE  RowsOK'
<1>1. \A b \in Names : asset'[b].status = "none" => asset'[b].version = 0
  BY DEF RowsOK, ImportDid
<1>2. ASSUME NEW g \in ScanRows
      PROVE  FindingOK(g, finding'[g])
  <2>1. FindingOK(f, finding'[f])
    BY DEF ImportDid, FindingOK, Stands
  <2>2. QED
    BY <2>1 DEF RowsOK, ImportDid
<1>3. ASSUME NEW g \in ScanRows, finding'[g].state # "none"
      PROVE  record'[g].of # {}
  <2>1. CASE g = f
    <3>1. CASE Stands(finding[f])
      BY <2>1, <3>1 DEF RowsOK, ImportDid, Stands
    <3>2. CASE ~Stands(finding[f])
      BY <2>1, <3>2 DEF ImportDid
    <3>3. QED
      BY <3>1, <3>2
  <2>2. CASE g # f
    BY <1>3, <2>2 DEF RowsOK, ImportDid
  <2>3. QED
    BY <2>1, <2>2
<1>4. ASSUME NEW q \in ScanRows, record'[q].of # {}
      PROVE  RecordOK(q, record'[q], finding', owner')
  <2>1. q[1] \in Names /\ f \in DOMAIN finding' /\ DOMAIN owner' = Names /\ DOMAIN finding' = ScanRows
    BY RowIsFound DEF MergeTypeOK
  <2>2. CASE q = r
    BY <2>1, <2>2 DEF ImportDid, RecordOK, Stands
  <2>3. CASE q # r
    <3>1. record'[q] = record[q]
      BY <2>3 DEF ImportDid
    <3>2. PICK g \in record[q].of : TRUE
      BY <1>4, <3>1
    <3>3. /\ g \in ScanRows /\ record[q] = [of |-> {g}, key |-> Key(finding[g].asset, g)]
          /\ Stands(finding[g]) /\ g[2] = q[2] /\ finding[g].asset \in Names
          /\ q[1] \in Authoritative => owner[q[1]] = finding[g].asset
      BY <3>2, RecordHas
    <3>4. Stands(finding'[g]) /\ finding'[g].asset = finding[g].asset
      BY <3>3 DEF ImportDid, Stands, NoFinding
    <3>5. q[1] \in Authoritative => owner'[q[1]] = finding[g].asset
      BY <2>1, <3>3, MergeAssumption DEF ImportDid, MergeAssumption
    <3>6. QED
      BY <2>1, <3>1, <3>3, <3>4, <3>5 DEF RecordOK
  <2>4. QED
    BY <2>2, <2>3
<1>5. QED
  BY <1>1, <1>2, <1>3, <1>4 DEF RowsOK

\* An import makes no twins: it joins a finding with the key, or there was none.
LEMMA ImportKeepsTwins ==
    ASSUME MergeTypeOK, RowsOK, TwinsOK, NEW r \in ScanRows, NEW f \in ScanRows, NEW a \in Names,
           ImportDid(r, f, a)
    PROVE  TwinsOK'
<1> SUFFICES ASSUME NEW g \in ScanRows, NEW h \in ScanRows, Twins(g, h, finding')
             PROVE  MovedTogether(g, h)'
  BY DEF TwinsOK
<1>1. Twins(g, h, finding)
  <2>1. CASE Stands(finding[f])
    <3>1. \A x \in ScanRows : (Stands(finding'[x]) <=> Stands(finding[x])) /\ finding'[x].key = finding[x].key
      BY <2>1 DEF ImportDid, Stands, NoFinding
    <3>2. QED
      BY <3>1 DEF Twins
  <2>2. CASE ~Stands(finding[f])
    <3>1. \A x \in ScanRows \ {f} : finding'[x] = finding[x] /\ finding'[x].key # finding'[f].key
      BY <2>2 DEF ImportDid
    <3>2. QED
      BY <3>1 DEF Twins
  <2>3. QED
    BY <2>1, <2>2
<1>2. MovedTogether(g, h)
  BY <1>1 DEF TwinsOK
<1>3. QED
  BY <1>2, MovedTogetherStays DEF ImportDid

\* The assets and names of a journal are assets and names.
LEMMA JournalTyped ==
    ASSUME MergeTypeOK, NEW i \in DOMAIN merges
    PROVE  LET m == merges[i]
           IN /\ m.source \in Names /\ m.target \in Names /\ m.scope \in SUBSET ScanRows
              /\ m.before \in Snapshot /\ m.after \in Snapshot
              /\ DOMAIN m.before.owner \subseteq Names /\ DOMAIN m.before.record \subseteq ScanRows
              /\ \A x \in DOMAIN m.before.asset : m.before.asset[x] \in AssetRow
              /\ \A x \in DOMAIN m.after.asset : m.after.asset[x] \in AssetRow
              /\ \A r \in DOMAIN m.before.record : m.before.record[r] \in RecordRow
              /\ \A f \in DOMAIN m.before.finding : m.before.finding[f] \in FindingRow
              /\ \A n \in DOMAIN m.before.owner : m.before.owner[n] \in Names
<1> DEFINE m == merges[i]
<1>1. m \in Journal
  BY DEF MergeTypeOK
<1>2. m.before \in Snapshot /\ m.after \in Snapshot /\ m.source \in Names /\ m.target \in Names
      /\ m.scope \in SUBSET ScanRows
  BY <1>1 DEF Journal
<1>3. /\ m.before.asset \in PartOf(Names, AssetRow) /\ m.after.asset \in PartOf(Names, AssetRow)
      /\ m.before.finding \in PartOf(ScanRows, FindingRow)
      /\ m.before.record \in PartOf(ScanRows, RecordRow)
      /\ m.before.owner \in PartOf(Names, Names)
  BY <1>2 DEF Snapshot
<1>4. QED
  BY <1>2, <1>3, Parts

\* The same merge, whatever became of its rollback.
SameMerge(m, k) ==
    /\ k.source = m.source /\ k.target = m.target /\ k.scope = m.scope
    /\ k.before = m.before /\ k.after = m.after

\* What is said of a merge does not depend on its rollback.
LEMMA SameMergeSays ==
    ASSUME NEW m, NEW k, SameMerge(m, k)
    PROVE  /\ JournalOK(m) => JournalOK(k)
           /\ \A l : (Between(m, l) => Between(k, l)) /\ (Between(l, m) => Between(l, k))
           /\ \A A : VersionsOK(m, A) => VersionsOK(k, A)
           /\ \A A, O, R : NamesStay(m, A, O, R) => NamesStay(k, A, O, R)
           /\ \A A, F : SourceIsEmpty(m, A, F) => SourceIsEmpty(k, A, F)
<1>1. JournalOK(m) => JournalOK(k)
  BY DEF SameMerge, JournalOK
<1>2. NamesMoved(k) = NamesMoved(m)
  BY DEF SameMerge, NamesMoved
<1>3. \A l : (Between(m, l) => Between(k, l)) /\ (Between(l, m) => Between(l, k))
  BY <1>2 DEF SameMerge, Between
<1>4. /\ \A A : VersionsOK(m, A) => VersionsOK(k, A)
      /\ \A A, O, R : NamesStay(m, A, O, R) => NamesStay(k, A, O, R)
      /\ \A A, F : SourceIsEmpty(m, A, F) => SourceIsEmpty(k, A, F)
  BY <1>2 DEF SameMerge, VersionsOK, NamesStay, SourceIsEmpty
<1>5. QED
  BY <1>1, <1>3, <1>4

\* Steps that leave the journals alone, and take no record away.
LEMMA SameJournals ==
    ASSUME MergeTypeOK, JournalsOK, BetweenOK, DOMAIN merges' = DOMAIN merges,
           \A i \in DOMAIN merges : SameMerge(merges[i], merges'[i])
                                    /\ (Open(merges'[i]) => Open(merges[i])),
           \A r \in ScanRows : record[r].of # {} => record'[r].of # {}
    PROVE  JournalsOK' /\ BetweenOK'
<1>1. ASSUME NEW i \in DOMAIN merges', NEW k \in DOMAIN merges', i < k, Open(merges'[i])
      PROVE  Between(merges'[i], merges'[k])
  <2>1. Between(merges[i], merges[k])
    BY <1>1 DEF BetweenOK
  <2>2. Between(merges'[i], merges[k])
    BY <2>1, SameMergeSays
  <2>3. QED
    BY <2>2, SameMergeSays
<1>2. ASSUME NEW f, NEW g, MovedTogether(f, g)
      PROVE  MovedTogether(f, g)'
  BY <1>2, MovedTogetherStays DEF SameMerge
<1>3. ASSUME NEW i \in DOMAIN merges'
      PROVE  /\ JournalOK(merges'[i])
             /\ \A f \in merges'[i].scope : record'[f].of # {}
             /\ \A f, g \in merges'[i].scope :
                   Twins(f, g, merges'[i].before.finding) => MovedTogether(f, g)'
  <2>1. JournalOK(merges'[i])
    BY SameMergeSays DEF JournalsOK
  <2>2. merges[i].scope \subseteq ScanRows
    BY JournalTyped
  <2>3. /\ \A f \in merges[i].scope : record[f].of # {}
        /\ \A f, g \in merges[i].scope :
              Twins(f, g, merges[i].before.finding) => MovedTogether(f, g)
    BY DEF JournalsOK
  <2>4. merges'[i].scope = merges[i].scope /\ merges'[i].before = merges[i].before
    BY DEF SameMerge
  <2>5. QED
    BY <1>2, <2>1, <2>2, <2>3, <2>4
<1>4. BetweenOK'
  BY <1>1 DEF BetweenOK
<1>5. JournalsOK'
  BY <1>3 DEF JournalsOK
<1>6. QED
  BY <1>4, <1>5

\* Steps that only change assets upwards, leave the names that are taken, bring no
\* finding to an asset and change no record of a name without such a change.
LEMMA OpenStays ==
    ASSUME MergeTypeOK, MergeTypeOK', JournalsOK, OpenOK, merges' = merges,
           \A b \in Names : /\ asset[b].version <= asset'[b].version
                            /\ asset[b].version = asset'[b].version => asset'[b] = asset[b],
           \A n \in Names : owner[n] # NoAsset => owner'[n] = owner[n],
           \A g \in ScanRows : Stands(finding'[g]) =>
              \/ Stands(finding[g]) /\ finding'[g].asset = finding[g].asset
              \/ asset'[finding'[g].asset] # asset[finding'[g].asset],
           \A q \in ScanRows : record'[q] # record[q] /\ q[1] \in Authoritative =>
              owner[q[1]] = NoAsset \/ asset'[owner[q[1]]] # asset[owner[q[1]]]
    PROVE  OpenOK'
<1> SUFFICES ASSUME NEW i \in DOMAIN merges, Open(merges[i])
             PROVE  /\ VersionsOK(merges[i], asset') /\ NamesStay(merges[i], asset', owner', record')
                    /\ SourceIsEmpty(merges[i], asset', finding')
  BY DEF OpenOK
<1> DEFINE m == merges[i]
<1>1. /\ VersionsOK(m, asset) /\ NamesStay(m, asset, owner, record)
      /\ SourceIsEmpty(m, asset, finding) /\ JournalOK(m)
  BY DEF OpenOK, JournalsOK
<1>2. /\ m.source \in Names /\ m.target \in Names /\ m.scope \subseteq ScanRows
      /\ DOMAIN m.before.owner \subseteq Names
  BY JournalTyped
<1>3. m.after.asset[m.source].version \in Nat /\ m.after.asset[m.target].version \in Nat
  <2>1. m.after.asset[m.source] \in AssetRow /\ m.after.asset[m.target] \in AssetRow
    BY <1>1, JournalTyped DEF JournalOK
  <2>2. QED
    BY <2>1 DEF AssetRow
<1>4. \A b \in Names : asset[b].version \in Nat /\ asset'[b].version \in Nat
  BY DEF MergeTypeOK, AssetRow
<1>5. /\ m.after.asset[m.source].version <= asset[m.source].version
      /\ m.after.asset[m.target].version <= asset[m.target].version
  BY <1>1 DEF VersionsOK
<1> HIDE DEF m
<1>6. /\ asset'[m.source].version = m.after.asset[m.source].version => asset'[m.source] = asset[m.source]
      /\ asset'[m.target].version = m.after.asset[m.target].version => asset'[m.target] = asset[m.target]
  BY <1>2, <1>3, <1>4, <1>5
<1>7. VersionsOK(m, asset')
  BY <1>1, <1>2, <1>3, <1>4, <1>6 DEF VersionsOK
<1>8. NamesStay(m, asset', owner', record')
  <2> SUFFICES ASSUME asset'[m.target].version = m.after.asset[m.target].version, NEW n \in NamesMoved(m)
               PROVE  /\ owner'[n] = m.target
                      /\ n \in Authoritative =>
                            \A r \in ScanRows : r[1] = n => record'[r].of \subseteq m.scope
    BY DEF NamesStay
  <2>1. owner[n] = m.target
        /\ (n \in Authoritative => \A r \in ScanRows : r[1] = n => record[r].of \subseteq m.scope)
    BY <1>1, <1>6 DEF NamesStay
  <2>2. owner[n] # NoAsset /\ n \in Names
    BY <1>2, <2>1, MergeAssumption DEF MergeAssumption, NamesMoved
  <2>3. \A r \in ScanRows : r[1] = n /\ n \in Authoritative => record'[r] = record[r]
    BY <1>6, <2>1, <2>2
  <2>4. QED
    BY <2>1, <2>2, <2>3
<1>9. SourceIsEmpty(m, asset', finding')
  BY <1>1, <1>6 DEF SourceIsEmpty
<1>10. QED
  BY <1>7, <1>8, <1>9 DEF m

\* So an import keeps the invariant.
LEMMA ImportKeepsInv ==
    ASSUME MergeInv, NEW r \in ScanRows, Import(r)
    PROVE  MergeInv'
<1>1. MergeTypeOK /\ RowsOK /\ TwinsOK /\ JournalsOK /\ BetweenOK /\ OpenOK
  BY DEF MergeInv
<1>2. PICK f \in ScanRows, a \in Names : ImportDid(r, f, a)
  BY <1>1, ImportDoes
<1>3. MergeTypeOK' /\ RowsOK' /\ TwinsOK'
  BY <1>1, <1>2, ImportDoes, ImportKeepsRows, ImportKeepsTwins
<1>4. JournalsOK' /\ BetweenOK'
  <2>1. merges' = merges /\ \A q \in ScanRows : record[q].of # {} => record'[q].of # {}
    BY <1>2 DEF ImportDid
  <2>2. QED
    BY <1>1, <2>1, SameJournals DEF SameMerge
<1>5. OpenOK'
  <2>1. \A b \in Names : asset[b].version \in Nat /\ asset'[b].version \in Nat
    BY <1>1, <1>3 DEF MergeTypeOK, AssetRow
  <2>2. /\ merges' = merges
        /\ \A b \in Names : /\ asset[b].version <= asset'[b].version
                            /\ asset[b].version = asset'[b].version => asset'[b] = asset[b]
        /\ \A n \in Names : owner[n] # NoAsset => owner'[n] = owner[n]
    BY <1>2, <2>1 DEF ImportDid
  <2>3. asset'[a] # asset[a]
    BY <1>2, <2>1 DEF ImportDid
  <2>4. \A g \in ScanRows : Stands(finding'[g]) =>
              \/ Stands(finding[g]) /\ finding'[g].asset = finding[g].asset
              \/ asset'[finding'[g].asset] # asset[finding'[g].asset]
    BY <1>2, <2>3 DEF ImportDid
  <2>5. \A q \in ScanRows : record'[q] # record[q] /\ q[1] \in Authoritative =>
              owner[q[1]] = NoAsset \/ asset'[owner[q[1]]] # asset[owner[q[1]]]
    BY <1>2, <2>3 DEF ImportDid, Resolved
  <2>6. QED
    BY <1>1, <1>3, <2>2, <2>4, <2>5, OpenStays
<1>6. QED
  BY <1>3, <1>4, <1>5 DEF MergeInv

-----------------------------------------------------------------------------
(* Edits, and what only asks. *)

\* An inventory row or an archived finding.
EditDid ==
    /\ \A f \in ScanRows : /\ finding'[f].asset = finding[f].asset /\ finding'[f].key = finding[f].key
                           /\ finding'[f].merged = finding[f].merged
                           /\ finding[f].state = "none" => finding'[f] = finding[f]
                           /\ finding[f].state # "none" =>
                                 finding'[f].state \in {finding[f].state, "archived"}
    /\ \A a \in Names :
          asset'[a] = asset[a] \/ (asset'[a].version > asset[a].version /\ asset'[a].status # "none")
    /\ owner' = owner /\ record' = record /\ merges' = merges

\* So an edit keeps the invariant, and both kinds of edits are such.
LEMMA EditKeepsInv ==
    ASSUME MergeInv, MergeTypeOK', EditDid
    PROVE  MergeInv'
<1>1. MergeTypeOK /\ RowsOK /\ TwinsOK /\ JournalsOK /\ BetweenOK /\ OpenOK
  BY DEF MergeInv
<1>2. \A f \in ScanRows : Stands(finding'[f]) <=> Stands(finding[f])
  BY DEF EditDid, Stands
<1>3. RowsOK'
  <2>1. \A a \in Names : asset'[a].status = "none" => asset'[a].version = 0
    BY <1>1 DEF RowsOK, EditDid
  <2>2. ASSUME NEW f \in ScanRows
        PROVE  FindingOK(f, finding'[f]) /\ (finding'[f].state # "none" => record'[f].of # {})
    <3>1. FindingOK(f, finding[f]) /\ (finding[f].state # "none" => record[f].of # {})
      BY <1>1 DEF RowsOK
    <3>2. finding[f].merged => finding'[f].state = "archived"
      BY <3>1 DEF FindingOK, EditDid
    <3>3. QED
      BY <1>2, <3>1, <3>2 DEF FindingOK, EditDid
  <2>3. ASSUME NEW r \in ScanRows, record'[r].of # {}
        PROVE  RecordOK(r, record'[r], finding', owner')
    <3>1. RecordOK(r, record[r], finding, owner) /\ DOMAIN finding = ScanRows /\ DOMAIN finding' = ScanRows
      BY <1>1, <2>3 DEF RowsOK, EditDid, MergeTypeOK
    <3>2. QED
      BY <1>2, <3>1 DEF RecordOK, EditDid
  <2>4. QED
    BY <2>1, <2>2, <2>3 DEF RowsOK
<1>4. TwinsOK'
  <2> SUFFICES ASSUME NEW f \in ScanRows, NEW g \in ScanRows, Twins(f, g, finding')
               PROVE  MovedTogether(f, g)'
    BY DEF TwinsOK
  <2>1. Twins(f, g, finding)
    BY <1>2 DEF Twins, EditDid
  <2>2. QED
    BY <1>1, <2>1, MovedTogetherStays DEF TwinsOK, EditDid
<1>5. JournalsOK' /\ BetweenOK'
  BY <1>1, SameJournals DEF EditDid, SameMerge
<1>6. OpenOK'
  <2>1. \A b \in Names : asset[b].version \in Nat /\ asset'[b].version \in Nat
    BY <1>1 DEF MergeTypeOK, AssetRow
  <2>2. QED
    BY <1>1, <1>2, <2>1, OpenStays DEF EditDid
<1>7. QED
  BY <1>3, <1>4, <1>5, <1>6 DEF MergeInv

LEMMA InventoryKeepsInv ==
    ASSUME MergeInv, NEW a \in Names, NEW status \in {"ACTIVE", "RETIRED"}, Inventory(a, status)
    PROVE  MergeInv'
<1>1. MergeTypeOK
  BY DEF MergeInv
<1>2. \A f \in ScanRows :
         /\ finding'[f] = IF finding[f].asset = a THEN Bumped(finding[f]) ELSE finding[f]
         /\ finding[f].asset = a => finding[f].state # "none"
  BY MergeAssumption DEF Inventory, MergeInv, RowsOK, FindingOK, NoFinding, MergeAssumption
<1>3. \A f \in ScanRows : Bumped(finding[f]) \in FindingRow /\ Bumped(finding[f]) = [finding[f] EXCEPT !.version = @ + 1]
  BY <1>1, FindingColumns DEF MergeTypeOK, Bumped
<1>4. asset'[a] \in AssetRow /\ asset'[a].version > asset[a].version /\ asset'[a].status # "none"
      /\ \A b \in Names \ {a} : asset'[b] = asset[b]
  <2>1. asset[a] \in AssetRow /\ Known(a)
        /\ asset' = [asset EXCEPT ![a] = [Bumped(@) EXCEPT !.status = status]]
    BY <1>1 DEF MergeTypeOK, Inventory
  <2>2. asset'[a] = [Bumped(asset[a]) EXCEPT !.status = status]
    BY <1>1, <2>1 DEF MergeTypeOK
  <2>3. \A b \in Names \ {a} : asset'[b] = asset[b]
    BY <1>1, <2>1 DEF MergeTypeOK
  <2>4. QED
    <3>1. SetsStatus(asset[a], status) /\ asset[a].version \in Nat
      BY <2>1, AssetColumns
    <3>2. QED
      BY <2>2, <2>3, <3>1 DEF SetsStatus
<1>5. MergeTypeOK'
  BY <1>1, <1>3, <1>4 DEF MergeTypeOK, Inventory
<1>6. \A f \in ScanRows : /\ finding'[f].asset = finding[f].asset /\ finding'[f].key = finding[f].key
                          /\ finding'[f].merged = finding[f].merged
                          /\ finding'[f].state = finding[f].state
                          /\ finding[f].state = "none" => finding'[f] = finding[f]
  BY <1>1, <1>2, <1>3 DEF MergeTypeOK, FindingRow
<1>7. EditDid
  BY <1>4, <1>6 DEF EditDid, Inventory
<1>8. QED
  BY <1>5, <1>7, EditKeepsInv

LEMMA SetAsideKeepsInv ==
    ASSUME MergeInv, NEW f \in ScanRows, SetAside(f)
    PROVE  MergeInv'
<1>1. MergeTypeOK
  BY DEF MergeInv
<1>2. /\ finding[f] \in FindingRow /\ finding[f].state = "live"
      /\ finding'[f] = [Bumped(finding[f]) EXCEPT !.state = "archived"]
      /\ \A g \in ScanRows \ {f} : finding'[g] = finding[g]
  BY <1>1 DEF MergeTypeOK, SetAside
<1>3. /\ finding'[f] \in FindingRow /\ finding'[f].state = "archived"
      /\ finding'[f].asset = finding[f].asset /\ finding'[f].key = finding[f].key
      /\ finding'[f].merged = finding[f].merged
  <2>1. SetsState(finding[f], "archived")
    BY <1>2, FindingColumns
  <2>2. QED
    BY <1>2, <2>1 DEF SetsState
<1>4. MergeTypeOK'
  BY <1>1, <1>3 DEF MergeTypeOK, SetAside
<1>5. EditDid
  BY <1>2, <1>3 DEF EditDid, SetAside
<1>6. QED
  BY <1>4, <1>5, EditKeepsInv
-----------------------------------------------------------------------------
(* Merges. *)

\* The live findings of s that are taken before f, of the same vulnerability.
TakenBefore(f, s) ==
    {g \in FindingsOf(s) : g[2] = f[2] /\ finding[g].state = "live" /\ Id(g) < Id(f)}

\* The three cases of the code for a finding of the source.
LEMMA TakerCases ==
    ASSUME NEW f, NEW s, NEW t
    PROVE  /\ Duplicates(f, t) # {} => Taker(f, s, t) = FirstOf(Duplicates(f, t))
           /\ Duplicates(f, t) = {} /\ TakenBefore(f, s) # {} => Taker(f, s, t) = FirstOf(TakenBefore(f, s))
           /\ Duplicates(f, t) = {} /\ TakenBefore(f, s) = {} => Taker(f, s, t) = f
BY DEF Taker, TakenBefore

\* A finding of s stands, under the key s gives it.
LEMMA OnSource ==
    ASSUME RowsOK, NEW s \in Names, NEW f \in FindingsOf(s)
    PROVE  /\ f \in ScanRows /\ Stands(finding[f]) /\ finding[f].asset = s /\ ~finding[f].merged
           /\ finding[f].key = Key(s, f)
<1>1. f \in ScanRows /\ finding[f].asset = s /\ ~finding[f].merged /\ FindingOK(f, finding[f])
  BY DEF RowsOK, FindingsOf
<1>2. finding[f].state # "none"
  BY <1>1, MergeAssumption DEF FindingOK, NoFinding, MergeAssumption
<1>3. QED
  BY <1>1, <1>2 DEF FindingOK, Stands

\* The finding a finding of s ends in.
LEMMA TakerIs ==
    ASSUME RowsOK, NEW s \in Names, NEW t \in Names, s # t, NEW f \in FindingsOf(s)
    PROVE  LET g == Taker(f, s, t)
           IN /\ g \in ScanRows /\ g[2] = f[2] /\ Stands(finding[g])
              /\ \/ g = f
                 \/ g \in FindingsOf(s) /\ Taker(g, s, t) = g
                 \/ g \notin FindingsOf(s) /\ finding[g].asset = t /\ finding[g].key = Key(t, g)
              /\ g = f => Duplicates(f, t) = {}
<1> DEFINE g == Taker(f, s, t)
<1>0. f \in ScanRows /\ finding[f].asset = s /\ Stands(finding[f])
  BY OnSource
<1>1. CASE Duplicates(f, t) # {}
  <2>1. g \in Duplicates(f, t)
    <3>1. Duplicates(f, t) \in SUBSET ScanRows
      BY DEF Duplicates
    <3>2. QED
      BY <1>1, <3>1, TakerCases, FirstIsIn
  <2>2. g \in ScanRows /\ g # f /\ finding[g].asset = t /\ finding[g].key = Key(t, f)
    BY <2>1 DEF Duplicates
  <2>3. Stands(finding[g]) /\ g[2] = f[2]
    BY <2>2, KeyedStands
  <2>4. finding[g].key = Key(t, g) /\ g \notin FindingsOf(s)
    BY <2>2, <2>3, KeysDiffer DEF FindingsOf
  <2>5. QED
    BY <2>2, <2>3, <2>4
<1>2. CASE Duplicates(f, t) = {} /\ TakenBefore(f, s) # {}
  <2>1. g \in TakenBefore(f, s) /\ \A h \in TakenBefore(f, s) : Id(g) <= Id(h)
    <3>1. TakenBefore(f, s) \in SUBSET ScanRows
      BY DEF TakenBefore, FindingsOf
    <3>2. QED
      BY <1>2, <3>1, TakerCases, FirstIsIn
  <2>2. g \in FindingsOf(s) /\ g[2] = f[2] /\ Id(g) < Id(f)
    BY <2>1 DEF TakenBefore
  <2>3. g \in ScanRows /\ Stands(finding[g])
    BY <2>2, OnSource
  <2>4. Duplicates(g, t) = {}
    <3> SUFFICES ASSUME NEW h \in Duplicates(g, t)
                 PROVE  FALSE
      OBVIOUS
    <3>1. h \in ScanRows /\ finding[h].asset = t /\ finding[h].key = Key(t, g) /\ finding[h].state = "live"
      BY DEF Duplicates
    <3>2. Key(t, g) = Key(t, f) /\ h # f
      BY <1>0, <2>2, <3>1, KeysDiffer
    <3>3. h \in Duplicates(f, t)
      BY <3>1, <3>2 DEF Duplicates
    <3>4. QED
      BY <1>2, <3>3
  <2>5. TakenBefore(g, s) = {}
    <3> SUFFICES ASSUME NEW h \in TakenBefore(g, s)
                 PROVE  FALSE
      OBVIOUS
    <3>1. h \in FindingsOf(s) /\ h[2] = g[2] /\ finding[h].state = "live" /\ Id(h) < Id(g)
      BY DEF TakenBefore
    <3>2. h \in ScanRows
      BY <3>1 DEF FindingsOf
    <3>3. Id(h) \in Nat /\ Id(g) \in Nat /\ Id(f) \in Nat
      BY <1>0, <2>3, <3>2, IdIsNumber
    <3>4. h \in TakenBefore(f, s)
      BY <2>2, <3>1, <3>3 DEF TakenBefore
    <3>5. QED
      BY <2>1, <3>1, <3>3, <3>4
  <2>6. Taker(g, s, t) = g
    BY <2>4, <2>5, TakerCases
  <2>7. QED
    BY <1>2, <2>2, <2>3, <2>6
<1>3. CASE Duplicates(f, t) = {} /\ TakenBefore(f, s) = {}
  BY <1>0, <1>3, TakerCases
<1>4. QED
  BY <1>1, <1>2, <1>3

\* There are finitely many rows, so a merge adds numbers to versions.
LEMMA RowsAreFinite == IsFiniteSet(ScanRows)
<1>1. IsFiniteSet(DOMAIN RowOrder)
  BY FS_Interval, MergeAssumption DEF MergeAssumption
<1>2. RowOrder \in Surjection(DOMAIN RowOrder, ScanRows)
  BY MergeAssumption DEF MergeAssumption, ScanRows, ToSet, Surjection
<1>3. QED
  BY <1>1, <1>2, FS_Surjection DEF ExistsSurjection

\* What becomes of a finding, but for its version.
BecomesOf(f, row, s, t) ==
    /\ row \in FindingRow
    /\ finding[f].state = "none" => row = finding[f]
    /\ f \notin FindingsOf(s) =>
          /\ row.state = finding[f].state /\ row.asset = finding[f].asset
          /\ row.key = finding[f].key /\ row.merged = finding[f].merged
    /\ f \in FindingsOf(s) /\ Taker(f, s, t) = f =>
          /\ row.state = finding[f].state /\ row.asset = t
          /\ row.key = Key(t, f) /\ ~row.merged
    /\ f \in FindingsOf(s) /\ Taker(f, s, t) # f =>
          /\ row.state = "archived" /\ row.asset = s
          /\ row.key = NoKeyAtAll /\ row.merged

\* A merge does that to every finding of the source.
LEMMA MergedFindingIs ==
    ASSUME MergeTypeOK, RowsOK, NEW s \in Names, NEW t \in Names, s # t, NEW f \in ScanRows
    PROVE  BecomesOf(f, MergedFinding(f, s, t), s, t)
<1> DEFINE touched == {g \in FindingsOf(s) : f \in {g, Taker(g, s, t)}}
<1> DEFINE row == [finding[f] EXCEPT !.version = @ + Cardinality(touched)]
<1>1. /\ f \notin FindingsOf(s) => MergedFinding(f, s, t) = row
      /\ f \in FindingsOf(s) /\ Taker(f, s, t) = f =>
            MergedFinding(f, s, t) = [row EXCEPT !.asset = t, !.key = Key(t, f)]
      /\ f \in FindingsOf(s) /\ Taker(f, s, t) # f =>
            MergedFinding(f, s, t) =
               [row EXCEPT !.state = "archived", !.merged = TRUE, !.key = NoKeyAtAll]
  BY DEF MergedFinding
<1>2. Cardinality(touched) \in Nat
  <2>1. touched \subseteq ScanRows
    BY DEF FindingsOf
  <2>2. IsFiniteSet(touched)
    BY <2>1, RowsAreFinite, FS_Subset
  <2>3. QED
    BY <2>2, FS_CardinalityType
<1>3. ASSUME finding[f].state = "none"
      PROVE  f \notin FindingsOf(s) /\ Cardinality(touched) = 0
  <2>1. ~Stands(finding[f])
    BY <1>3 DEF Stands
  <2>2. f \notin FindingsOf(s)
    BY <2>1, OnSource
  <2>3. touched = {}
    BY <2>1, <2>2, TakerIs
  <2>4. QED
    BY <2>2, <2>3, FS_EmptySet
<1>4. finding[f] \in FindingRow /\ Key(t, f) \in Keys /\ NoKeyAtAll \in Keys
  BY KeyTyped DEF MergeTypeOK, Keys
<1> DEFINE n == Cardinality(touched)
<1>5. row = [finding[f] EXCEPT !.version = @ + n] /\ n \in Nat
  BY <1>2
<1> HIDE DEF row, n
<1>6. /\ row \in FindingRow /\ row.state = finding[f].state /\ row.asset = finding[f].asset
      /\ row.key = finding[f].key /\ row.merged = finding[f].merged
      /\ n = 0 => row = finding[f]
  BY <1>4, <1>5 DEF FindingRow
<1>7. CASE f \notin FindingsOf(s)
  BY <1>1, <1>3, <1>6, <1>7 DEF n, BecomesOf
<1>8. CASE f \in FindingsOf(s) /\ Taker(f, s, t) = f
  <2>1. ~finding[f].merged
    BY <1>8, OnSource
  <2>2. MergedFinding(f, s, t) = [row EXCEPT !.asset = t, !.key = Key(t, f)]
    BY <1>1, <1>8
  <2>3. QED
    BY <1>3, <1>4, <1>6, <1>8, <2>1, <2>2 DEF FindingRow, BecomesOf
<1>9. CASE f \in FindingsOf(s) /\ Taker(f, s, t) # f
  <2>1. finding[f].asset = s
    BY <1>9, OnSource
  <2>2. MergedFinding(f, s, t) = [row EXCEPT !.state = "archived", !.merged = TRUE, !.key = NoKeyAtAll]
    BY <1>1, <1>9
  <2>3. QED
    BY <1>3, <1>4, <1>6, <1>9, <2>1, <2>2 DEF FindingRow, BecomesOf
<1>10. QED
  BY <1>7, <1>8, <1>9

\* What a guard holds of the rows it is taken of.
LEMMA GuardHas ==
    ASSUME NEW rows, NEW s, NEW t, NEW F
    PROVE  LET g == Guard(rows, s, t, F)
           IN /\ DOMAIN g.asset = {s, t} /\ \A a \in {s, t} : g.asset[a] = rows.asset[a]
              /\ DOMAIN g.finding = F /\ \A f \in F : g.finding[f] = rows.finding[f]
              /\ DOMAIN g.record = {r \in ScanRows : rows.record[r].of \cap F # {}}
              /\ \A r \in DOMAIN g.record : g.record[r] = rows.record[r]
              /\ DOMAIN g.owner = {n \in Names : rows.owner[n] \in {s, t}}
              /\ \A n \in DOMAIN g.owner : g.owner[n] = rows.owner[n]
BY DEF Guard

\* A guard is a snapshot of the tables.
LEMMA GuardTyped ==
    ASSUME NEW rows, NEW s \in Names, NEW t \in Names, NEW F \in SUBSET ScanRows,
           rows.asset \in [Names -> AssetRow], rows.owner \in [Names -> Names \cup {NoAsset}],
           rows.finding \in [ScanRows -> FindingRow], rows.record \in [ScanRows -> RecordRow]
    PROVE  Guard(rows, s, t, F) \in Snapshot
<1>1. [a \in {s, t} |-> rows.asset[a]] \in PartOf(Names, AssetRow)
  <2>1. {s, t} \in SUBSET Names /\ [a \in {s, t} |-> rows.asset[a]] \in [{s, t} -> AssetRow]
    OBVIOUS
  <2>2. QED
    BY <2>1, IsPart
<1>2. [f \in F |-> rows.finding[f]] \in PartOf(ScanRows, FindingRow)
  BY IsPart
<1>3. [r \in {r \in ScanRows : rows.record[r].of \cap F # {}} |-> rows.record[r]]
         \in PartOf(ScanRows, RecordRow)
  <2> DEFINE D == {r \in ScanRows : rows.record[r].of \cap F # {}}
  <2>1. D \in SUBSET ScanRows
    OBVIOUS
  <2> HIDE DEF D
  <2>2. [r \in D |-> rows.record[r]] \in PartOf(ScanRows, RecordRow)
    BY <2>1, IsPart
  <2>3. QED
    BY <2>2 DEF D
<1>4. [n \in {n \in Names : rows.owner[n] \in {s, t}} |-> rows.owner[n]] \in PartOf(Names, Names)
  <2> DEFINE D == {n \in Names : rows.owner[n] \in {s, t}}
  <2>1. D \in SUBSET Names /\ \A n \in D : rows.owner[n] \in Names
    OBVIOUS
  <2> HIDE DEF D
  <2>2. [n \in D |-> rows.owner[n]] \in PartOf(Names, Names)
    BY <2>1, IsPart
  <2>3. QED
    BY <2>2 DEF D
<1>5. QED
  BY <1>1, <1>2, <1>3, <1>4 DEF Guard, Snapshot

\* What the approval of a merge of s into t does to a finding, to a record and to all.
FindingGoes(f, s, t) ==
    /\ FindingOK(f, finding'[f]) /\ (finding'[f].state = "none" <=> finding[f].state = "none")
    /\ f \notin FindingsOf(s) =>
          /\ finding'[f].state = finding[f].state /\ finding'[f].asset = finding[f].asset
          /\ finding'[f].key = finding[f].key /\ finding'[f].merged = finding[f].merged
    /\ f \in FindingsOf(s) =>
          /\ finding'[f].asset \in {s, t}
          /\ Stands(finding'[f]) => /\ finding'[f].asset = t /\ finding'[f].key = Key(t, f)
                                    /\ Duplicates(f, t) = {}

RecordGoes(r, s, t) ==
    \/ record[r].of \cap FindingsOf(s) = {} /\ record'[r] = record[r]
    \/ \E f \in FindingsOf(s), g \in ScanRows :
          /\ record[r].of = {f} /\ record'[r] = [of |-> {g}, key |-> Key(t, g)] /\ g[2] = f[2]
          /\ Stands(finding'[g]) /\ finding'[g].asset = t /\ finding[g].asset \in {s, t}

MergeDid(s, t) ==
    /\ s # t /\ asset[s].status = "ACTIVE" /\ asset[t].status = "ACTIVE"
    /\ \A f \in ScanRows : FindingGoes(f, s, t)
    /\ \A r \in ScanRows : RecordGoes(r, s, t)
    /\ \A n \in Names : owner'[n] = IF owner[n] = s THEN t ELSE owner[n]
    /\ asset'[s].version = asset[s].version + 1 /\ asset'[s].status = "RETIRED"
    /\ \A a \in Names \ {s} : asset'[a] = asset[a]

\* The journal of that merge.
NewJournal(s, t) ==
    LET scope == {f \in ScanRows : finding[f].asset \in {s, t}}
    IN [source |-> s, target |-> t, scope |-> scope, before |-> Guard(Rows, s, t, scope),
        after |-> Guard(Rows', s, t, scope), rollback |-> "none"]

\* What a merge does to findings and records.
LEMMA MergeRows ==
    ASSUME MergeTypeOK, RowsOK, NEW s \in Names, NEW t \in Names, s # t,
           finding' = [f \in ScanRows |-> MergedFinding(f, s, t)],
           record' = [r \in ScanRows |-> MergedRecord(r, s, t)]
    PROVE  /\ finding' \in [ScanRows -> FindingRow] /\ record' \in [ScanRows -> RecordRow]
           /\ \A f \in ScanRows : FindingGoes(f, s, t)
           /\ \A r \in ScanRows : RecordGoes(r, s, t)
<1>1. \A f \in ScanRows : BecomesOf(f, finding'[f], s, t)
  BY MergedFindingIs
<1>2. finding' \in [ScanRows -> FindingRow]
  BY <1>1 DEF BecomesOf
<1>3. ASSUME NEW f \in FindingsOf(s)
      PROVE  LET g == Taker(f, s, t)
             IN /\ g \in ScanRows /\ g[2] = f[2] /\ Stands(finding'[g]) /\ finding'[g].asset = t
                /\ finding[g].asset \in {s, t}
  <2> DEFINE g == Taker(f, s, t)
  <2>1. /\ f \in ScanRows /\ g \in ScanRows /\ g[2] = f[2] /\ Stands(finding[g])
        /\ \/ g \in FindingsOf(s) /\ Taker(g, s, t) = g
           \/ g \notin FindingsOf(s) /\ finding[g].asset = t
    BY TakerIs, OnSource
  <2> HIDE DEF g
  <2>2. BecomesOf(g, finding'[g], s, t)
    BY <1>1, <2>1
  <2>3. CASE g \in FindingsOf(s) /\ Taker(g, s, t) = g
    <3>1. finding[g].asset = s
      BY <2>3, OnSource
    <3>2. QED
      BY <2>1, <2>2, <2>3, <3>1 DEF BecomesOf, Stands, g
  <2>4. CASE g \notin FindingsOf(s) /\ finding[g].asset = t
    BY <2>1, <2>2, <2>4 DEF BecomesOf, Stands, g
  <2>5. QED
    BY <2>1, <2>3, <2>4
<1>4. ASSUME NEW f \in ScanRows
      PROVE  FindingGoes(f, s, t)
  <2>1. FindingOK(f, finding[f]) /\ BecomesOf(f, finding'[f], s, t)
    BY <1>1 DEF RowsOK
  <2>2. CASE f \notin FindingsOf(s)
    BY <2>1, <2>2 DEF FindingOK, Stands, BecomesOf, FindingGoes
  <2>3. CASE f \in FindingsOf(s) /\ Taker(f, s, t) = f
    <3>1. finding[f].state # "none" /\ Duplicates(f, t) = {}
      BY <2>3, OnSource, TakerIs DEF Stands
    <3>2. QED
      BY <2>1, <2>3, <3>1 DEF FindingOK, Stands, BecomesOf, FindingGoes
  <2>4. CASE f \in FindingsOf(s) /\ Taker(f, s, t) # f
    <3>1. finding[f].state # "none"
      BY <2>4, OnSource DEF Stands
    <3>2. QED
      BY <2>1, <2>4, <3>1 DEF FindingOK, Stands, BecomesOf, FindingGoes
  <2>5. QED
    BY <2>2, <2>3, <2>4
<1>5. ASSUME NEW r \in ScanRows
      PROVE  record'[r] \in RecordRow /\ RecordGoes(r, s, t)
  <2>1. record'[r] = MergedRecord(r, s, t) /\ record[r] \in RecordRow
    BY DEF MergeTypeOK
  <2>2. CASE \E f \in FindingsOf(s) : record[r].of = {f}
    <3>1. PICK f \in FindingsOf(s) : record[r].of = {f}
      BY <2>2
    <3>2. record'[r] = [of |-> {Taker(f, s, t)}, key |-> Key(t, f)]
      <4>1. (CHOOSE h \in FindingsOf(s) : record[r].of = {h}) = f
        BY <3>1
      <4>2. QED
        BY <2>1, <2>2, <4>1 DEF MergedRecord
    <3>3. Key(t, f) = Key(t, Taker(f, s, t))
      BY <1>3, KeysDiffer
    <3>4. Key(t, f) \in Keys
      BY KeyTyped, OnSource
    <3>5. QED
      BY <1>3, <3>1, <3>2, <3>3, <3>4 DEF RecordRow, RecordGoes
  <2>3. CASE ~\E f \in FindingsOf(s) : record[r].of = {f}
    <3>1. record'[r] = record[r]
      BY <2>1, <2>3 DEF MergedRecord
    <3>2. ASSUME NEW f \in record[r].of
          PROVE  f \notin FindingsOf(s)
      <4>1. record[r].of = {f}
        BY RecordIsOf
      <4>2. QED
        BY <2>3, <4>1
    <3>3. record[r].of \cap FindingsOf(s) = {}
      BY <3>2
    <3>4. QED
      BY <2>1, <3>1, <3>3 DEF RecordGoes
  <2>4. QED
    BY <2>2, <2>3
<1>6. record' \in [ScanRows -> RecordRow]
  BY <1>5 DEF MergeTypeOK
<1>7. QED
  BY <1>2, <1>4, <1>5, <1>6

\* What a merge does to everything.
LEMMA ApproveMergeDoes ==
    ASSUME MergeTypeOK, RowsOK, NEW q \in requests, ApproveMerge(q)
    PROVE  LET s == q.source
               t == q.target
           IN /\ s \in Names /\ t \in Names /\ MergeDid(s, t) /\ MergeTypeOK'
              /\ NewJournal(s, t) \in Journal /\ merges' = Append(merges, NewJournal(s, t))
<1> DEFINE s == q.source
<1> DEFINE t == q.target
<1>1. s \in Names /\ t \in Names /\ Mergeable(s, t)
  BY DEF MergeTypeOK, ApproveMerge
<1>2. /\ finding' = [f \in ScanRows |-> MergedFinding(f, s, t)]
      /\ record' = [r \in ScanRows |-> MergedRecord(r, s, t)]
      /\ owner' = [n \in Names |-> IF owner[n] = s THEN t ELSE owner[n]]
      /\ asset' = [asset EXCEPT ![s] = [Bumped(@) EXCEPT !.status = "RETIRED", !.into = t]]
      /\ merges' = Append(merges, NewJournal(s, t))
      /\ requests' = requests \ {q}
  BY DEF ApproveMerge, NewJournal
<1> HIDE DEF s, t
<1>3. s # t /\ asset[s].status = "ACTIVE" /\ asset[t].status = "ACTIVE"
  BY <1>1 DEF Mergeable
<1>4. /\ asset'[s] \in AssetRow /\ asset'[s].version = asset[s].version + 1
      /\ asset'[s].status = "RETIRED" /\ \A a \in Names \ {s} : asset'[a] = asset[a]
      /\ asset' \in [Names -> AssetRow]
  <2> DEFINE u == [Bumped(asset[s]) EXCEPT !.status = "RETIRED"]
  <2>1. asset[s] \in AssetRow /\ asset'[s] = [u EXCEPT !.into = t]
    <3>1. asset'[s] = [Bumped(asset[s]) EXCEPT !.status = "RETIRED", !.into = t]
      BY <1>1, <1>2 DEF MergeTypeOK
    <3>2. QED
      BY <1>1, <3>1 DEF MergeTypeOK
  <2>2. asset'[s] \in AssetRow /\ asset'[s].version = asset[s].version + 1 /\ asset'[s].status = "RETIRED"
    <3>1. u \in AssetRow /\ u.version = asset[s].version + 1 /\ u.status = "RETIRED"
      BY <2>1, AssetColumns DEF SetsStatus
    <3> HIDE DEF u
    <3>2. QED
      BY <1>1, <2>1, <3>1 DEF AssetRow
  <2>3. QED
    BY <1>1, <1>2, <2>2 DEF MergeTypeOK
<1>5. /\ finding' \in [ScanRows -> FindingRow] /\ record' \in [ScanRows -> RecordRow]
      /\ owner' \in [Names -> Names \cup {NoAsset}]
  BY <1>1, <1>2, <1>3, MergeRows DEF MergeTypeOK
<1>6. MergeDid(s, t)
  <2>1. \A n \in Names : owner'[n] = IF owner[n] = s THEN t ELSE owner[n]
    BY <1>2
  <2>2. QED
    BY <1>1, <1>2, <1>3, <1>4, <2>1, MergeRows DEF MergeDid
<1>7. NewJournal(s, t) \in Journal
  <2> DEFINE scope == {f \in ScanRows : finding[f].asset \in {s, t}}
  <2>1. Guard(Rows, s, t, scope) \in Snapshot
    BY <1>1, GuardTyped DEF Rows, MergeTypeOK
  <2>2. Guard(Rows', s, t, scope) \in Snapshot
    <3>1. /\ Rows'.asset = asset' /\ Rows'.owner = owner' /\ Rows'.finding = finding'
          /\ Rows'.record = record'
      BY DEF Rows
    <3>2. QED
      BY <1>1, <1>4, <1>5, <3>1, GuardTyped
  <2>3. QED
    BY <1>1, <2>1, <2>2 DEF NewJournal, Journal
<1>8. MergeTypeOK'
  BY <1>2, <1>4, <1>5, <1>7 DEF MergeTypeOK
<1>9. QED
  BY <1>1, <1>2, <1>6, <1>7, <1>8 DEF s, t

\* A merge takes no record away.
LEMMA NoRecordGoes ==
    ASSUME NEW s, NEW t, MergeDid(s, t), NEW r \in ScanRows
    PROVE  record'[r].of # {} <=> record[r].of # {}
<1>1. CASE record'[r] = record[r]
  BY <1>1
<1>2. CASE \E f, g : record[r].of = {f} /\ record'[r] = [of |-> {g}, key |-> Key(t, g)]
  <2>1. PICK f, g : record[r].of = {f} /\ record'[r] = [of |-> {g}, key |-> Key(t, g)]
    BY <1>2
  <2>2. record'[r].of = {g}
    BY <2>1
  <2>3. QED
    BY <2>1, <2>2
<1>3. RecordGoes(r, s, t)
  BY DEF MergeDid
<1>4. QED
  BY <1>1, <1>2, <1>3 DEF RecordGoes

\* After a merge every record still has its finding, under its new key.
LEMMA MergeKeepsRows ==
    ASSUME MergeTypeOK, RowsOK, MergeTypeOK', NEW s \in Names, NEW t \in Names, MergeDid(s, t)
    PROVE  RowsOK'
<1>1. \A a \in Names : asset'[a].status = "none" => asset'[a].version = 0
  BY DEF RowsOK, MergeDid, FindingGoes, RecordGoes
<1>2. \A f \in ScanRows : FindingOK(f, finding'[f])
  BY DEF MergeDid, FindingGoes, RecordGoes
<1>3. \A r \in ScanRows : record'[r].of # {} <=> record[r].of # {}
  BY NoRecordGoes
<1>4. \A f \in ScanRows : finding'[f].state # "none" => record'[f].of # {}
  BY <1>3 DEF MergeDid, FindingGoes, RecordGoes, RowsOK
<1>5. ASSUME NEW r \in ScanRows, record'[r].of # {}
      PROVE  RecordOK(r, record'[r], finding', owner')
  <2>0. r[1] \in Names /\ DOMAIN finding' = ScanRows /\ DOMAIN owner' = Names
    BY RowIsFound DEF MergeTypeOK
  <2>1. PICK f \in record[r].of : TRUE
    BY <1>3, <1>5
  <2>2. /\ f \in ScanRows /\ record[r] = [of |-> {f}, key |-> Key(finding[f].asset, f)]
        /\ Stands(finding[f]) /\ f[2] = r[2] /\ finding[f].asset \in Names
        /\ r[1] \in Authoritative => owner[r[1]] = finding[f].asset
    BY <2>1, RecordHas
  <2>3. CASE f \notin FindingsOf(s)
    <3>1. record'[r] = record[r]
      <4>1. RecordGoes(r, s, t) /\ record[r].of = {f}
        BY <2>2 DEF MergeDid
      <4>2. QED
        BY <2>3, <4>1 DEF RecordGoes
    <3>2. finding[f].asset # s
      BY <2>2, <2>3 DEF FindingsOf, Stands
    <3>3. Stands(finding'[f]) /\ finding'[f].asset = finding[f].asset
      BY <2>2, <2>3 DEF MergeDid, FindingGoes, RecordGoes, Stands
    <3>4. r[1] \in Authoritative => owner'[r[1]] = finding[f].asset
      BY <2>0, <2>2, <3>2 DEF MergeDid, FindingGoes, RecordGoes
    <3>5. QED
      BY <2>0, <2>2, <3>1, <3>3, <3>4 DEF RecordOK
  <2>4. CASE f \in FindingsOf(s)
    <3>1. PICK g \in ScanRows :
             /\ record'[r] = [of |-> {g}, key |-> Key(t, g)] /\ g[2] = f[2]
             /\ Stands(finding'[g]) /\ finding'[g].asset = t
      <4>1. RecordGoes(r, s, t) /\ record[r].of = {f}
        BY <2>2 DEF MergeDid
      <4>2. QED
        BY <2>4, <4>1 DEF RecordGoes
    <3>2. r[1] \in Authoritative => owner'[r[1]] = t
      BY <2>0, <2>2, <2>4 DEF MergeDid, FindingGoes, RecordGoes, FindingsOf
    <3>3. QED
      BY <2>0, <2>2, <3>1, <3>2 DEF RecordOK
  <2>5. QED
    BY <2>3, <2>4
<1>6. QED
  BY <1>1, <1>2, <1>4, <1>5 DEF RowsOK

\* The journals after a merge.
LEMMA OneMoreJournal ==
    ASSUME MergeTypeOK, NEW j, merges' = Append(merges, j)
    PROVE  /\ DOMAIN merges = 1..Len(merges) /\ Len(merges) \in Nat
           /\ DOMAIN merges' = 1..(Len(merges) + 1) /\ merges'[Len(merges) + 1] = j
           /\ \A i \in DOMAIN merges : i \in DOMAIN merges' /\ merges'[i] = merges[i]
BY DEF MergeTypeOK

\* The journal of a merge has the rows of its scope, before and after.
LEMMA NewJournalHas ==
    ASSUME NEW s \in Names, NEW t \in Names
    PROVE  LET j == NewJournal(s, t)
           IN /\ j.source = s /\ j.target = t /\ j.rollback = "none"
              /\ j.scope = {f \in ScanRows : finding[f].asset \in {s, t}}
              /\ DOMAIN j.before.asset = {s, t} /\ DOMAIN j.after.asset = {s, t}
              /\ \A a \in {s, t} : j.before.asset[a] = asset[a] /\ j.after.asset[a] = asset'[a]
              /\ DOMAIN j.before.finding = j.scope /\ DOMAIN j.after.finding = j.scope
              /\ \A f \in j.scope : j.before.finding[f] = finding[f] /\ j.after.finding[f] = finding'[f]
              /\ DOMAIN j.before.record = {r \in ScanRows : record[r].of \cap j.scope # {}}
              /\ DOMAIN j.after.record = {r \in ScanRows : record'[r].of \cap j.scope # {}}
              /\ \A r \in DOMAIN j.before.record : j.before.record[r] = record[r]
              /\ \A r \in DOMAIN j.after.record : j.after.record[r] = record'[r]
              /\ DOMAIN j.before.owner = {n \in Names : owner[n] \in {s, t}}
              /\ DOMAIN j.after.owner = {n \in Names : owner'[n] \in {s, t}}
              /\ \A n \in DOMAIN j.before.owner : j.before.owner[n] = owner[n]
              /\ \A n \in DOMAIN j.after.owner : j.after.owner[n] = owner'[n]
<1> DEFINE scope == {f \in ScanRows : finding[f].asset \in {s, t}}
<1>1. /\ NewJournal(s, t).before = Guard(Rows, s, t, scope)
      /\ NewJournal(s, t).after = Guard(Rows', s, t, scope)
      /\ NewJournal(s, t).source = s /\ NewJournal(s, t).target = t
      /\ NewJournal(s, t).rollback = "none" /\ NewJournal(s, t).scope = scope
  BY DEF NewJournal
<1>2. /\ Rows.asset = asset /\ Rows.owner = owner /\ Rows.finding = finding /\ Rows.record = record
      /\ Rows'.asset = asset' /\ Rows'.owner = owner' /\ Rows'.finding = finding' /\ Rows'.record = record'
  BY DEF Rows
<1> HIDE DEF scope
<1>3. QED
  BY <1>1, <1>2, GuardHas DEF scope

\* Findings that a merge makes twins: one was on the target, archived, or is an older twin.
LEMMA NewTwins ==
    ASSUME MergeTypeOK, RowsOK, TwinsOK, NEW s \in Names, NEW t \in Names, MergeDid(s, t),
           merges' = Append(merges, NewJournal(s, t)), NEW f \in ScanRows, NEW g \in ScanRows,
           Twins(f, g, finding'), f \in FindingsOf(s), g \notin FindingsOf(s)
    PROVE  MovedTogether(f, g)'
<1> DEFINE j == NewJournal(s, t)
<1>1. /\ finding'[f].key = Key(t, f) /\ Duplicates(f, t) = {} /\ finding[f].asset = s
      /\ finding'[g].key = finding[g].key /\ finding'[g].state = finding[g].state
      /\ finding[g].state # "none"
  BY OnSource DEF Twins, MergeDid, FindingGoes, RecordGoes, Stands
<1>2. finding[g].key = Key(t, f)
  BY <1>1 DEF Twins
<1>3. finding[g].asset = t
  BY <1>2, KeyedStands
<1>4. finding[g].state = "archived"
  <2>1. finding[g].state \in {"none", "live", "archived"}
    BY DEF MergeTypeOK, FindingRow
  <2>2. finding[g].state # "live"
    BY <1>1, <1>2, <1>3 DEF Duplicates, Twins
  <2>3. QED
    BY <1>1, <2>1, <2>2
<1>5. /\ j.source = s /\ j.target = t /\ {f, g} \subseteq DOMAIN j.before.finding
      /\ j.before.finding[f] = finding[f] /\ j.before.finding[g] = finding[g]
  BY <1>1, <1>3, NewJournalHas
<1> HIDE DEF j
<1>6. Len(merges) + 1 \in DOMAIN merges' /\ merges'[Len(merges) + 1] = j
  BY OneMoreJournal DEF j
<1>7. QED
  BY <1>1, <1>3, <1>4, <1>5, <1>6 DEF MovedTogether

\* So twins come from merges.
LEMMA MergeKeepsTwins ==
    ASSUME MergeTypeOK, RowsOK, TwinsOK, NEW s \in Names, NEW t \in Names, MergeDid(s, t),
           merges' = Append(merges, NewJournal(s, t))
    PROVE  TwinsOK'
<1> SUFFICES ASSUME NEW f \in ScanRows, NEW g \in ScanRows, Twins(f, g, finding')
             PROVE  MovedTogether(f, g)'
  BY DEF TwinsOK
<1>1. ASSUME Twins(f, g, finding)
      PROVE  MovedTogether(f, g)'
  BY <1>1, OneMoreJournal, MovedTogetherStays DEF TwinsOK
<1>2. CASE f \notin FindingsOf(s) /\ g \notin FindingsOf(s)
  <2>1. Twins(f, g, finding)
    BY <1>2 DEF Twins, MergeDid, FindingGoes, RecordGoes, Stands
  <2>2. QED
    BY <1>1, <2>1
<1>3. CASE f \in FindingsOf(s) /\ g \in FindingsOf(s)
  <2>1. f[2] = g[2]
    BY <1>3, KeysDiffer DEF Twins, MergeDid, FindingGoes, RecordGoes
  <2>2. Twins(f, g, finding)
    BY <1>3, <2>1, OnSource, KeysDiffer DEF Twins
  <2>3. QED
    BY <1>1, <2>2
<1>4. CASE f \in FindingsOf(s) /\ g \notin FindingsOf(s)
  BY <1>4, NewTwins
<1>5. CASE f \notin FindingsOf(s) /\ g \in FindingsOf(s)
  <2>1. Twins(g, f, finding')
    BY DEF Twins
  <2>2. MovedTogether(g, f)'
    BY <1>5, <2>1, NewTwins
  <2>3. QED
    BY <2>2, ZenonT(40) DEF MovedTogether
<1>6. QED
  BY <1>2, <1>3, <1>4, <1>5

\* What the new journal says.
LEMMA NewJournalIsOK ==
    ASSUME MergeTypeOK, RowsOK, MergeTypeOK', NEW s \in Names, NEW t \in Names, MergeDid(s, t)
    PROVE  JournalOK(NewJournal(s, t))
<1> DEFINE j == NewJournal(s, t)
<1>1. /\ j.source = s /\ j.target = t
      /\ j.scope = {f \in ScanRows : finding[f].asset \in {s, t}}
      /\ DOMAIN j.before.asset = {s, t} /\ DOMAIN j.after.asset = {s, t}
      /\ \A a \in {s, t} : j.before.asset[a] = asset[a] /\ j.after.asset[a] = asset'[a]
      /\ DOMAIN j.before.finding = j.scope /\ DOMAIN j.after.finding = j.scope
      /\ \A f \in j.scope : j.before.finding[f] = finding[f] /\ j.after.finding[f] = finding'[f]
  BY NewJournalHas
<1>2. /\ DOMAIN j.before.record = {r \in ScanRows : record[r].of \cap j.scope # {}}
      /\ DOMAIN j.after.record = {r \in ScanRows : record'[r].of \cap j.scope # {}}
      /\ \A r \in DOMAIN j.before.record : j.before.record[r] = record[r]
      /\ \A r \in DOMAIN j.after.record : j.after.record[r] = record'[r]
  BY NewJournalHas
<1>3. /\ DOMAIN j.before.owner = {n \in Names : owner[n] \in {s, t}}
      /\ DOMAIN j.after.owner = {n \in Names : owner'[n] \in {s, t}}
      /\ \A n \in DOMAIN j.before.owner : j.before.owner[n] = owner[n]
      /\ \A n \in DOMAIN j.after.owner : j.after.owner[n] = owner'[n]
  BY NewJournalHas
<1> HIDE DEF j
<1>4. /\ s # t /\ j.before.asset[t] = j.after.asset[t]
      /\ j.before.asset[s].status = "ACTIVE" /\ j.before.asset[t].status = "ACTIVE"
      /\ j.after.asset[s].version = j.before.asset[s].version + 1
  BY <1>1 DEF MergeDid, FindingGoes, RecordGoes
<1>5. ASSUME NEW f \in j.scope
      PROVE  /\ FindingOK(f, j.before.finding[f]) /\ j.before.finding[f].asset \in {s, t}
             /\ j.before.finding[f].asset = t /\ Stands(j.before.finding[f]) =>
                  /\ j.after.finding[f].asset = t /\ Stands(j.after.finding[f])
                  /\ j.after.finding[f].key = Key(t, f)
  <2>1. /\ f \in ScanRows /\ FindingOK(f, finding[f]) /\ finding[f].asset \in {s, t}
        /\ j.before.finding[f] = finding[f] /\ j.after.finding[f] = finding'[f]
    BY <1>1 DEF RowsOK
  <2>2. finding[f].asset = t => f \notin FindingsOf(s)
    BY <1>4 DEF FindingsOf
  <2>3. QED
    BY <2>1, <2>2 DEF MergeDid, FindingGoes, RecordGoes, Stands, FindingOK
<1>6. ASSUME NEW r \in ScanRows
      PROVE  record[r].of \cap j.scope # {} <=> record'[r].of \cap j.scope # {}
  <2>1. CASE record[r].of \cap FindingsOf(s) = {} /\ record'[r] = record[r]
    BY <2>1
  <2>2. CASE record[r].of \cap FindingsOf(s) # {}
    <3>1. PICK f \in FindingsOf(s), g \in ScanRows :
                /\ record[r].of = {f} /\ record'[r] = [of |-> {g}, key |-> Key(t, g)]
                /\ finding[g].asset \in {s, t}
      BY <2>2 DEF MergeDid, FindingGoes, RecordGoes
    <3>2. f \in j.scope /\ g \in j.scope
      BY <1>1, <3>1 DEF FindingsOf
    <3>3. QED
      BY <3>1, <3>2
  <2>3. QED
    BY <2>1, <2>2 DEF MergeDid, FindingGoes, RecordGoes
<1>7. DOMAIN j.before.record = DOMAIN j.after.record
  BY <1>2, <1>6
<1>8. ASSUME NEW r \in DOMAIN j.before.record
      PROVE  /\ RecordOK(r, j.before.record[r], j.before.finding, j.before.owner)
             /\ \A f \in j.before.record[r].of :
                  j.before.finding[f].asset = t => j.after.record[r] = j.before.record[r]
  <2>1. r \in ScanRows /\ r[1] \in Names
    BY <1>2, RowIsFound
  <2>2. PICK f \in record[r].of : f \in j.scope
    BY <1>2
  <2>3. /\ f \in ScanRows /\ record[r] = [of |-> {f}, key |-> Key(finding[f].asset, f)]
        /\ Stands(finding[f]) /\ f[2] = r[2]
        /\ r[1] \in Authoritative => owner[r[1]] = finding[f].asset
    BY <2>1, <2>2, RecordHas
  <2>4. j.before.finding[f] = finding[f] /\ finding[f].asset \in {s, t} /\ j.before.record[r] = record[r]
        /\ f \in DOMAIN j.before.finding
    BY <1>1, <1>2, <2>2
  <2>5. r[1] \in Authoritative =>
           r[1] \in DOMAIN j.before.owner /\ j.before.owner[r[1]] = finding[f].asset
    BY <1>3, <2>1, <2>3, <2>4
  <2>6. RecordOK(r, j.before.record[r], j.before.finding, j.before.owner)
    BY <2>3, <2>4, <2>5 DEF RecordOK
  <2>7. ASSUME finding[f].asset = t
        PROVE  j.after.record[r] = j.before.record[r]
    <3>1. f \notin FindingsOf(s)
      BY <1>4, <2>7 DEF FindingsOf
    <3>2. record'[r] = record[r]
      <4>1. RecordGoes(r, s, t) /\ record[r].of = {f}
        BY <2>1, <2>3 DEF MergeDid
      <4>2. QED
        BY <3>1, <4>1 DEF RecordGoes
    <3>3. QED
      BY <1>2, <1>7, <2>4, <3>2
  <2>8. QED
    BY <2>3, <2>4, <2>6, <2>7
<1>9. /\ DOMAIN j.before.owner = DOMAIN j.after.owner
      /\ \A n \in DOMAIN j.before.owner : j.before.owner[n] \in {s, t} /\ j.after.owner[n] = t
  BY <1>3 DEF MergeDid, FindingGoes, RecordGoes
<1>10. JournalOK(j)
  BY <1>1, <1>4, <1>5, <1>7, <1>8, <1>9 DEF JournalOK
<1>11. QED
  BY <1>10 DEF j

\* The old journals say what they said.
LEMMA MergeKeepsJournals ==
    ASSUME MergeTypeOK, RowsOK, TwinsOK, JournalsOK, MergeTypeOK', NEW s \in Names, NEW t \in Names,
           MergeDid(s, t), merges' = Append(merges, NewJournal(s, t))
    PROVE  JournalsOK'
<1> DEFINE j == NewJournal(s, t)
<1>1. /\ JournalOK(j)
      /\ j.scope = {f \in ScanRows : finding[f].asset \in {s, t}}
      /\ \A f \in j.scope : j.before.finding[f] = finding[f]
  BY NewJournalIsOK, NewJournalHas
<1>2. /\ DOMAIN merges = 1..Len(merges) /\ Len(merges) \in Nat
      /\ DOMAIN merges' = 1..(Len(merges) + 1) /\ merges'[Len(merges) + 1] = j
      /\ \A i \in DOMAIN merges : i \in DOMAIN merges' /\ merges'[i] = merges[i]
  BY OneMoreJournal
<1> HIDE DEF j
<1>3. ASSUME NEW f, NEW g, MovedTogether(f, g)
      PROVE  MovedTogether(f, g)'
  BY <1>2, <1>3, MovedTogetherStays
<1>4. \A r \in ScanRows : record[r].of # {} => record'[r].of # {}
  BY NoRecordGoes
<1>5. ASSUME NEW i \in DOMAIN merges'
      PROVE  /\ JournalOK(merges'[i])
             /\ \A f \in merges'[i].scope : record'[f].of # {}
             /\ \A f, g \in merges'[i].scope :
                   Twins(f, g, merges'[i].before.finding) => MovedTogether(f, g)'
  <2>1. CASE i \in DOMAIN merges
    <3>1. merges[i].scope \subseteq ScanRows /\ merges'[i] = merges[i]
      BY <1>2, <2>1, JournalTyped
    <3>2. QED
      BY <1>3, <1>4, <2>1, <3>1 DEF JournalsOK
  <2>2. CASE i \notin DOMAIN merges
    <3>1. merges'[i] = j
      BY <1>2, <1>5, <2>2
    <3>2. ASSUME NEW f \in j.scope
          PROVE  record'[f].of # {}
      <4>1. f \in ScanRows /\ finding[f].asset \in Names /\ FindingOK(f, finding[f])
        BY <1>1 DEF RowsOK
      <4>2. finding[f].state # "none"
        BY <4>1, MergeAssumption DEF FindingOK, NoFinding, MergeAssumption
      <4>3. QED
        BY <1>4, <4>1, <4>2 DEF RowsOK
    <3>3. ASSUME NEW f \in j.scope, NEW g \in j.scope, Twins(f, g, j.before.finding)
          PROVE  MovedTogether(f, g)'
      <4>1. Twins(f, g, finding) /\ f \in ScanRows /\ g \in ScanRows
        BY <1>1, <3>3 DEF Twins
      <4>2. QED
        BY <1>3, <4>1 DEF TwinsOK
    <3>4. QED
      BY <1>1, <3>1, <3>2, <3>3
  <2>3. QED
    BY <2>1, <2>2
<1>6. QED
  BY <1>5 DEF JournalsOK

\* The versions and names of journal i are those of assets and names.
LEMMA JournalNumbers ==
    ASSUME MergeTypeOK, JournalsOK, NEW i \in DOMAIN merges
    PROVE  LET m == merges[i]
           IN /\ m.source \in Names /\ m.target \in Names /\ m.source # m.target
              /\ m.after.asset[m.source].version \in Nat /\ m.after.asset[m.target].version \in Nat
              /\ m.before.asset[m.source].version \in Nat /\ m.before.asset[m.target].version \in Nat
              /\ asset[m.source].version \in Nat /\ asset[m.target].version \in Nat
              /\ NamesMoved(m) \subseteq Names
<1> DEFINE m == merges[i]
<1>1. JournalOK(m)
  BY DEF JournalsOK
<1>2. /\ m.source \in DOMAIN m.before.asset /\ m.target \in DOMAIN m.before.asset
      /\ m.source \in DOMAIN m.after.asset /\ m.target \in DOMAIN m.after.asset /\ m.source # m.target
  BY <1>1 DEF JournalOK
<1>3. /\ m.source \in Names /\ m.target \in Names
      /\ m.before.asset[m.source] \in AssetRow /\ m.before.asset[m.target] \in AssetRow
      /\ m.after.asset[m.source] \in AssetRow /\ m.after.asset[m.target] \in AssetRow
      /\ DOMAIN m.before.owner \subseteq Names
  BY <1>2, JournalTyped
<1>4. asset[m.source] \in AssetRow /\ asset[m.target] \in AssetRow
  BY <1>3 DEF MergeTypeOK
<1>5. QED
  BY <1>2, <1>3, <1>4 DEF AssetRow, NamesMoved

\* The new journal found the assets of the older ones no older than they left them.
LEMMA NewBetween ==
    ASSUME MergeTypeOK, RowsOK, JournalsOK, OpenOK, NEW s \in Names, NEW t \in Names,
           MergeDid(s, t), NEW i \in DOMAIN merges, Open(merges[i])
    PROVE  Between(merges[i], NewJournal(s, t))
<1> DEFINE m == merges[i]
<1> DEFINE j == NewJournal(s, t)
<1>1. VersionsOK(m, asset) /\ NamesStay(m, asset, owner, record)
  BY DEF OpenOK
<1>2. /\ m.source \in Names /\ m.target \in Names
      /\ m.after.asset[m.source].version \in Nat /\ m.after.asset[m.target].version \in Nat
      /\ asset[m.source].version \in Nat /\ asset[m.target].version \in Nat
      /\ NamesMoved(m) \subseteq Names
  BY JournalNumbers
<1>3. /\ j.source = s /\ j.target = t
      /\ \A a \in {s, t} : j.before.asset[a] = asset[a]
      /\ DOMAIN j.before.owner = {n \in Names : owner[n] \in {s, t}}
      /\ \A n \in DOMAIN j.before.owner : j.before.owner[n] = owner[n]
      /\ DOMAIN j.before.record \subseteq ScanRows
      /\ \A r \in DOMAIN j.before.record : j.before.record[r] = record[r]
  BY NewJournalHas
<1>4. asset[s].status = "ACTIVE" /\ asset[t].status = "ACTIVE"
  BY DEF MergeDid, FindingGoes, RecordGoes
<1> HIDE DEF m, j
<1>5. ASSUME NEW x \in {m.source, m.target} \cap {s, t}
      PROVE  /\ m.after.asset[x].version <= j.before.asset[x].version
             /\ x = m.source => m.after.asset[x].version < j.before.asset[x].version
  BY <1>1, <1>2, <1>3, <1>4 DEF VersionsOK
<1>6. ASSUME m.target \in {s, t}, j.before.asset[m.target].version = m.after.asset[m.target].version,
             NEW n \in NamesMoved(m)
      PROVE  /\ n \in DOMAIN j.before.owner /\ j.before.owner[n] = m.target
             /\ n \in Authoritative =>
                   \A r \in DOMAIN j.before.record : r[1] = n => j.before.record[r].of \subseteq m.scope
  <2>1. /\ owner[n] = m.target
        /\ n \in Authoritative => \A r \in ScanRows : r[1] = n => record[r].of \subseteq m.scope
    BY <1>1, <1>3, <1>6 DEF NamesStay
  <2>2. QED
    BY <1>2, <1>3, <1>6, <2>1
<1>7. Between(m, j)
  BY <1>3, <1>5, <1>6 DEF Between
<1>8. QED
  BY <1>7 DEF m, j

LEMMA MergeKeepsBetween ==
    ASSUME MergeTypeOK, RowsOK, JournalsOK, BetweenOK, OpenOK, NEW s \in Names, NEW t \in Names,
           MergeDid(s, t), merges' = Append(merges, NewJournal(s, t))
    PROVE  BetweenOK'
<1> DEFINE j == NewJournal(s, t)
<1>1. /\ DOMAIN merges = 1..Len(merges) /\ Len(merges) \in Nat
      /\ DOMAIN merges' = 1..(Len(merges) + 1) /\ merges'[Len(merges) + 1] = j
      /\ \A i \in DOMAIN merges : i \in DOMAIN merges' /\ merges'[i] = merges[i]
  BY OneMoreJournal
<1>2. \A i \in DOMAIN merges : Open(merges[i]) => Between(merges[i], j)
  BY NewBetween
<1> HIDE DEF j
<1>3. ASSUME NEW i \in DOMAIN merges', NEW k \in DOMAIN merges', i < k, Open(merges'[i])
      PROVE  Between(merges'[i], merges'[k])
  <2>1. i \in DOMAIN merges /\ merges'[i] = merges[i]
    BY <1>1, <1>3
  <2>2. CASE k \in DOMAIN merges
    BY <1>1, <1>3, <2>1, <2>2 DEF BetweenOK
  <2>3. CASE k = Len(merges) + 1
    BY <1>1, <1>2, <1>3, <2>1, <2>3
  <2>4. QED
    BY <1>1, <2>2, <2>3
<1>4. QED
  BY <1>3 DEF BetweenOK

\* An older merge that can be taken back: a newer one only touches its assets upwards.
LEMMA OldStayOpen ==
    ASSUME MergeTypeOK, RowsOK, JournalsOK, OpenOK, NEW s \in Names, NEW t \in Names,
           MergeDid(s, t), NEW i \in DOMAIN merges, Open(merges[i])
    PROVE  /\ VersionsOK(merges[i], asset') /\ NamesStay(merges[i], asset', owner', record')
           /\ SourceIsEmpty(merges[i], asset', finding')
<1> DEFINE m == merges[i]
<1>1. VersionsOK(m, asset) /\ NamesStay(m, asset, owner, record) /\ SourceIsEmpty(m, asset, finding)
  BY DEF OpenOK
<1>2. /\ m.source \in Names /\ m.target \in Names
      /\ m.after.asset[m.source].version \in Nat /\ m.after.asset[m.target].version \in Nat
      /\ asset[m.source].version \in Nat /\ asset[m.target].version \in Nat
      /\ NamesMoved(m) \subseteq Names
  BY JournalNumbers
<1> HIDE DEF m
<1>3. /\ m.after.asset[m.source].version <= asset[m.source].version
      /\ m.after.asset[m.target].version <= asset[m.target].version
  BY <1>1 DEF VersionsOK
<1>4. /\ asset'[m.source].version = m.after.asset[m.source].version =>
            m.source # s /\ asset'[m.source] = asset[m.source]
      /\ asset'[m.target].version = m.after.asset[m.target].version =>
            m.target # s /\ asset'[m.target] = asset[m.target]
  BY <1>2, <1>3 DEF MergeDid, FindingGoes, RecordGoes
<1>5. VersionsOK(m, asset')
  <2>1. \A x \in {m.source, m.target} : asset[x].version <= asset'[x].version
    BY <1>2 DEF MergeDid, FindingGoes, RecordGoes
  <2>2. \A x \in {m.source, m.target} : asset'[x].version \in Nat
    BY <1>2 DEF MergeDid, FindingGoes, RecordGoes
  <2>3. QED
    BY <1>1, <1>2, <1>3, <1>4, <2>1, <2>2 DEF VersionsOK
<1>6. NamesStay(m, asset', owner', record')
  <2> SUFFICES ASSUME asset'[m.target].version = m.after.asset[m.target].version, NEW n \in NamesMoved(m)
               PROVE  /\ owner'[n] = m.target
                      /\ n \in Authoritative =>
                            \A r \in ScanRows : r[1] = n => record'[r].of \subseteq m.scope
    BY DEF NamesStay
  <2>1. /\ owner[n] = m.target /\ n \in Names
        /\ n \in Authoritative => \A r \in ScanRows : r[1] = n => record[r].of \subseteq m.scope
    BY <1>1, <1>2, <1>4 DEF NamesStay
  <2>2. owner'[n] = m.target
    BY <1>4, <2>1 DEF MergeDid, FindingGoes, RecordGoes
  <2>3. ASSUME NEW r \in ScanRows, r[1] = n, n \in Authoritative
        PROVE  record'[r] = record[r]
    <3>1. ASSUME NEW f \in record[r].of \cap FindingsOf(s)
          PROVE  FALSE
      <4>1. finding[f].asset = s /\ owner[r[1]] = finding[f].asset
        BY <2>3, RecordHas, OnSource
      <4>2. QED
        BY <1>4, <2>1, <2>3, <4>1
    <3>2. QED
      BY <3>1 DEF MergeDid, FindingGoes, RecordGoes
  <2>4. QED
    BY <2>1, <2>2, <2>3
<1>7. SourceIsEmpty(m, asset', finding')
  <2> SUFFICES ASSUME asset'[m.source].version = m.after.asset[m.source].version,
                      NEW f \in ScanRows, Stands(finding'[f])
               PROVE  finding'[f].asset # m.source
    BY DEF SourceIsEmpty
  <2>1. m.source # s /\ asset[m.source].version = m.after.asset[m.source].version
    BY <1>4
  <2>2. m.source # t
    BY <1>1, <2>1 DEF VersionsOK, MergeDid, FindingGoes, RecordGoes
  <2>3. CASE f \in FindingsOf(s)
    BY <2>2, <2>3 DEF MergeDid, FindingGoes, RecordGoes
  <2>4. CASE f \notin FindingsOf(s)
    BY <1>1, <2>1, <2>4 DEF MergeDid, FindingGoes, RecordGoes, SourceIsEmpty, Stands
  <2>5. QED
    BY <2>3, <2>4
<1>8. QED
  BY <1>5, <1>6, <1>7 DEF m

\* The new merge can be taken back at once.
LEMMA NewIsOpen ==
    ASSUME MergeTypeOK, RowsOK, MergeTypeOK', NEW s \in Names, NEW t \in Names, MergeDid(s, t)
    PROVE  /\ VersionsOK(NewJournal(s, t), asset') /\ NamesStay(NewJournal(s, t), asset', owner', record')
           /\ SourceIsEmpty(NewJournal(s, t), asset', finding')
<1> DEFINE j == NewJournal(s, t)
<1>1. /\ j.source = s /\ j.target = t
      /\ j.scope = {f \in ScanRows : finding[f].asset \in {s, t}}
      /\ \A a \in {s, t} : j.after.asset[a] = asset'[a]
      /\ DOMAIN j.before.owner = {n \in Names : owner[n] \in {s, t}}
      /\ \A n \in DOMAIN j.before.owner : j.before.owner[n] = owner[n]
  BY NewJournalHas
<1> HIDE DEF j
<1>2. asset'[s].version \in Nat /\ asset'[t].version \in Nat
  BY DEF MergeTypeOK, AssetRow
<1>3. VersionsOK(j, asset')
  BY <1>1, <1>2 DEF VersionsOK, MergeDid, FindingGoes, RecordGoes
<1>4. NamesStay(j, asset', owner', record')
  <2> SUFFICES ASSUME NEW n \in NamesMoved(j)
               PROVE  /\ owner'[n] = t
                      /\ n \in Authoritative =>
                            \A r \in ScanRows : r[1] = n => record'[r].of \subseteq j.scope
    BY <1>1 DEF NamesStay
  <2>1. n \in Names /\ owner[n] = s
    BY <1>1 DEF NamesMoved
  <2>2. owner'[n] = t
    BY <2>1 DEF MergeDid, FindingGoes, RecordGoes
  <2>3. ASSUME NEW r \in ScanRows, r[1] = n, n \in Authoritative
        PROVE  record'[r].of \subseteq j.scope
    <3>1. CASE record[r].of \cap FindingsOf(s) = {} /\ record'[r] = record[r]
      <4>1. ASSUME NEW f \in record[r].of
            PROVE  FALSE
        <5>1. f \in ScanRows /\ Stands(finding[f]) /\ finding[f].asset = s
          BY <2>1, <2>3, RecordHas
        <5>2. f \in FindingsOf(s)
          BY <5>1 DEF FindingsOf, Stands
        <5>3. QED
          BY <3>1, <5>2
      <4>2. QED
        BY <3>1, <4>1
    <3>2. CASE record[r].of \cap FindingsOf(s) # {}
      <4>1. PICK g \in ScanRows :
               record'[r] = [of |-> {g}, key |-> Key(t, g)] /\ finding[g].asset \in {s, t}
        BY <3>2 DEF MergeDid, FindingGoes, RecordGoes
      <4>2. QED
        BY <1>1, <4>1
    <3>3. QED
      BY <3>1, <3>2 DEF MergeDid, FindingGoes, RecordGoes
  <2>4. QED
    BY <2>2, <2>3
<1>5. SourceIsEmpty(j, asset', finding')
  <2> SUFFICES ASSUME NEW f \in ScanRows, Stands(finding'[f])
               PROVE  finding'[f].asset # s
    BY <1>1 DEF SourceIsEmpty
  <2>1. CASE f \in FindingsOf(s)
    BY <2>1 DEF MergeDid, FindingGoes, RecordGoes
  <2>2. CASE f \notin FindingsOf(s)
    BY <2>2 DEF MergeDid, FindingGoes, RecordGoes, Stands, FindingsOf
  <2>3. QED
    BY <2>1, <2>2
<1>6. QED
  BY <1>3, <1>4, <1>5 DEF j

\* So a merge keeps the invariant.
LEMMA ApproveMergeKeepsInv ==
    ASSUME MergeInv, NEW q \in requests, ApproveMerge(q)
    PROVE  MergeInv'
<1> DEFINE s == q.source
<1> DEFINE t == q.target
<1>1. MergeTypeOK /\ RowsOK /\ TwinsOK /\ JournalsOK /\ BetweenOK /\ OpenOK
  BY DEF MergeInv
<1>2. /\ s \in Names /\ t \in Names /\ MergeDid(s, t) /\ MergeTypeOK'
      /\ NewJournal(s, t) \in Journal /\ merges' = Append(merges, NewJournal(s, t))
  BY <1>1, ApproveMergeDoes
<1> HIDE DEF s, t
<1>3. RowsOK' /\ TwinsOK' /\ JournalsOK' /\ BetweenOK'
  BY <1>1, <1>2, MergeKeepsRows, MergeKeepsTwins, MergeKeepsJournals, MergeKeepsBetween
<1>4. OpenOK'
  <2> DEFINE j == NewJournal(s, t)
  <2>1. /\ DOMAIN merges = 1..Len(merges) /\ Len(merges) \in Nat
        /\ DOMAIN merges' = 1..(Len(merges) + 1) /\ merges'[Len(merges) + 1] = j
        /\ \A i \in DOMAIN merges : i \in DOMAIN merges' /\ merges'[i] = merges[i]
    BY <1>1, <1>2, OneMoreJournal
  <2>2. /\ VersionsOK(j, asset') /\ NamesStay(j, asset', owner', record')
        /\ SourceIsEmpty(j, asset', finding')
    BY <1>1, <1>2, NewIsOpen
  <2>3. \A i \in DOMAIN merges : Open(merges[i]) =>
           /\ VersionsOK(merges[i], asset') /\ NamesStay(merges[i], asset', owner', record')
           /\ SourceIsEmpty(merges[i], asset', finding')
    BY <1>1, <1>2, OldStayOpen
  <2> HIDE DEF j
  <2>4. \A i \in DOMAIN merges' : i \in DOMAIN merges \/ merges'[i] = j
    BY <2>1
  <2>5. QED
    BY <2>1, <2>2, <2>3, <2>4 DEF OpenOK
<1>5. QED
  BY <1>2, <1>3, <1>4 DEF MergeInv
-----------------------------------------------------------------------------
(* Rollbacks. *)

\* A rollback asked for, refused or approved changes that column of the merge only.
LEMMA NewRollback ==
    ASSUME MergeTypeOK, NEW i \in DOMAIN merges, NEW v \in {"none", "PENDING", "APPROVED"},
           merges' = [merges EXCEPT ![i].rollback = v]
    PROVE  /\ merges' \in Seq(Journal) /\ DOMAIN merges' = DOMAIN merges
           /\ \A k \in DOMAIN merges : SameMerge(merges[k], merges'[k])
           /\ merges'[i].rollback = v /\ \A k \in DOMAIN merges \ {i} : merges'[k] = merges[k]
<1>1. merges[i] \in Journal /\ merges \in Seq(Journal)
  BY DEF MergeTypeOK
<1>2. merges'[i] = [merges[i] EXCEPT !.rollback = v] /\ DOMAIN merges' = DOMAIN merges
      /\ \A k \in DOMAIN merges \ {i} : merges'[k] = merges[k]
  BY <1>1
<1>3. merges'[i] \in Journal /\ SameMerge(merges[i], merges'[i]) /\ merges'[i].rollback = v
  BY <1>1, <1>2 DEF Journal, SameMerge
<1>4. merges' \in Seq(Journal)
  <2>1. merges' = [merges EXCEPT ![i] = merges'[i]]
    BY <1>1, <1>2
  <2>2. QED
    BY <1>1, <1>3, <2>1
<1>5. QED
  BY <1>2, <1>3, <1>4 DEF SameMerge

\* To ask for a rollback, or to refuse one, changes nothing else.
LEMMA AskingKeepsInv ==
    ASSUME MergeInv, NEW i \in DOMAIN merges, NEW v \in {"none", "PENDING"}, merges[i].rollback # "APPROVED",
           merges' = [merges EXCEPT ![i].rollback = v],
           UNCHANGED <<asset, owner, finding, record, requests, writes>>
    PROVE  MergeInv'
<1>1. MergeTypeOK /\ RowsOK /\ TwinsOK /\ JournalsOK /\ BetweenOK /\ OpenOK
  BY DEF MergeInv
<1>2. /\ merges' \in Seq(Journal) /\ DOMAIN merges' = DOMAIN merges
      /\ \A k \in DOMAIN merges : SameMerge(merges[k], merges'[k])
      /\ merges'[i].rollback = v /\ \A k \in DOMAIN merges \ {i} : merges'[k] = merges[k]
  BY <1>1, NewRollback
<1>3. \A k \in DOMAIN merges : Open(merges'[k]) => Open(merges[k])
  BY <1>2 DEF Open
<1>4. MergeTypeOK' /\ RowsOK'
  BY <1>1, <1>2 DEF MergeTypeOK, RowsOK
<1>5. TwinsOK'
  BY <1>1, <1>2, MovedTogetherStays DEF TwinsOK, SameMerge
<1>6. JournalsOK' /\ BetweenOK'
  BY <1>1, <1>2, <1>3, SameJournals
<1>7. OpenOK'
  <2> SUFFICES ASSUME NEW k \in DOMAIN merges, Open(merges[k])
               PROVE  /\ VersionsOK(merges'[k], asset) /\ NamesStay(merges'[k], asset, owner, record)
                      /\ SourceIsEmpty(merges'[k], asset, finding)
    BY <1>2, <1>3 DEF OpenOK
  <2>1. /\ VersionsOK(merges[k], asset) /\ NamesStay(merges[k], asset, owner, record)
        /\ SourceIsEmpty(merges[k], asset, finding)
    BY <1>1 DEF OpenOK
  <2>2. QED
    BY <1>2, <2>1, SameMergeSays
<1>8. QED
  BY <1>4, <1>5, <1>6, <1>7 DEF MergeInv

\* What a rollback of merge m finds and does.
RollbackDid(m) ==
    /\ asset[m.source] = m.after.asset[m.source] /\ asset[m.target] = m.after.asset[m.target]
    /\ asset'[m.source] = m.before.asset[m.source]
    /\ \A x \in Names \ {m.source} : asset'[x] = asset[x]
    /\ \A f \in m.scope : finding[f] = m.after.finding[f] /\ finding'[f] = m.before.finding[f]
    /\ \A f \in ScanRows \ m.scope : finding'[f] = finding[f]
    /\ DOMAIN m.before.record = {r \in ScanRows : record[r].of \cap m.scope # {}}
    /\ \A r \in DOMAIN m.before.record : record[r] = m.after.record[r] /\ record'[r] = m.before.record[r]
    /\ \A r \in ScanRows \ DOMAIN m.before.record : record'[r] = record[r]
    /\ DOMAIN m.before.owner = {n \in Names : owner[n] \in {m.source, m.target}}
    /\ \A n \in DOMAIN m.before.owner : owner[n] = m.target /\ owner'[n] = m.before.owner[n]
    /\ \A n \in Names \ DOMAIN m.before.owner : owner'[n] = owner[n]

\* An approved rollback does that.
LEMMA RollbackDoes ==
    ASSUME MergeTypeOK, JournalsOK, NEW i \in DOMAIN merges, ApproveRollback(i)
    PROVE  /\ RollbackDid(merges[i]) /\ MergeTypeOK' /\ Open(merges[i])
           /\ merges' = [merges EXCEPT ![i].rollback = "APPROVED"]
<1> DEFINE m == merges[i]
<1>1. JournalOK(m)
  BY DEF JournalsOK
<1>2. /\ m.source \in Names /\ m.target \in Names /\ m.scope \subseteq ScanRows
      /\ DOMAIN m.before.owner \subseteq Names /\ DOMAIN m.before.record \subseteq ScanRows
      /\ \A x \in DOMAIN m.before.asset : m.before.asset[x] \in AssetRow
      /\ \A r \in DOMAIN m.before.record : m.before.record[r] \in RecordRow
      /\ \A f \in DOMAIN m.before.finding : m.before.finding[f] \in FindingRow
      /\ \A n \in DOMAIN m.before.owner : m.before.owner[n] \in Names
  BY JournalTyped
<1>3. /\ Guard(Rows, m.source, m.target, m.scope) = m.after /\ Open(m)
      /\ asset' = [a \in Names |-> IF a \in DOMAIN m.before.asset THEN m.before.asset[a] ELSE asset[a]]
      /\ finding' = [f \in ScanRows |->
            IF f \in DOMAIN m.before.finding THEN m.before.finding[f] ELSE finding[f]]
      /\ record' = [r \in ScanRows |->
            IF r \in DOMAIN m.before.record THEN m.before.record[r] ELSE record[r]]
      /\ owner' = [n \in Names |-> IF n \in DOMAIN m.before.owner THEN m.before.owner[n] ELSE owner[n]]
      /\ merges' = [merges EXCEPT ![i].rollback = "APPROVED"] /\ requests' = requests
  BY DEF ApproveRollback, Reversible, Open
<1>4. Rows.asset = asset /\ Rows.owner = owner /\ Rows.finding = finding /\ Rows.record = record
  BY DEF Rows
<1> HIDE DEF m
<1>5. /\ \A a \in {m.source, m.target} : m.after.asset[a] = asset[a]
      /\ DOMAIN m.after.finding = m.scope /\ \A f \in m.scope : m.after.finding[f] = finding[f]
      /\ DOMAIN m.after.record = {r \in ScanRows : record[r].of \cap m.scope # {}}
      /\ \A r \in DOMAIN m.after.record : m.after.record[r] = record[r]
      /\ DOMAIN m.after.owner = {n \in Names : owner[n] \in {m.source, m.target}}
      /\ \A n \in DOMAIN m.after.owner : m.after.owner[n] = owner[n]
  BY <1>3, <1>4, GuardHas
<1>6. /\ DOMAIN m.before.asset = {m.source, m.target} /\ m.before.asset[m.target] = m.after.asset[m.target]
      /\ DOMAIN m.before.finding = m.scope /\ DOMAIN m.before.record = DOMAIN m.after.record
      /\ DOMAIN m.before.owner = DOMAIN m.after.owner /\ m.source # m.target
      /\ \A n \in DOMAIN m.before.owner : m.after.owner[n] = m.target
  BY <1>1 DEF JournalOK
<1>7. RollbackDid(m)
  <2>1. /\ asset'[m.source] = m.before.asset[m.source]
        /\ \A x \in Names \ {m.source} : asset'[x] = asset[x]
    BY <1>2, <1>3, <1>5, <1>6
  <2>2. /\ \A f \in m.scope : finding[f] = m.after.finding[f] /\ finding'[f] = m.before.finding[f]
        /\ \A f \in ScanRows \ m.scope : finding'[f] = finding[f]
    BY <1>2, <1>3, <1>5, <1>6
  <2>3. /\ DOMAIN m.before.record = {r \in ScanRows : record[r].of \cap m.scope # {}}
        /\ \A r \in DOMAIN m.before.record : record[r] = m.after.record[r] /\ record'[r] = m.before.record[r]
        /\ \A r \in ScanRows \ DOMAIN m.before.record : record'[r] = record[r]
    BY <1>2, <1>3, <1>5, <1>6
  <2>4. /\ DOMAIN m.before.owner = {n \in Names : owner[n] \in {m.source, m.target}}
        /\ \A n \in DOMAIN m.before.owner : owner[n] = m.target /\ owner'[n] = m.before.owner[n]
        /\ \A n \in Names \ DOMAIN m.before.owner : owner'[n] = owner[n]
    BY <1>2, <1>3, <1>5, <1>6
  <2>5. QED
    BY <1>5, <2>1, <2>2, <2>3, <2>4 DEF RollbackDid
<1>8. MergeTypeOK'
  <2>1. merges' \in Seq(Journal)
    BY <1>3, NewRollback
  <2>2. /\ asset' \in [Names -> AssetRow] /\ owner' \in [Names -> Names \cup {NoAsset}]
        /\ finding' \in [ScanRows -> FindingRow] /\ record' \in [ScanRows -> RecordRow]
    BY <1>2, <1>3 DEF MergeTypeOK
  <2>3. QED
    BY <1>3, <2>1, <2>2 DEF MergeTypeOK
<1>9. QED
  BY <1>3, <1>7, <1>8 DEF m

\* What a journal says of a finding or of a record in its scope.
LEMMA JournalSays ==
    ASSUME NEW m, JournalOK(m)
    PROVE  /\ m.source # m.target /\ m.before.asset[m.target] = m.after.asset[m.target]
           /\ m.before.asset[m.source].status = "ACTIVE"
           /\ m.after.asset[m.source].version = m.before.asset[m.source].version + 1
           /\ DOMAIN m.before.finding = m.scope
           /\ \A f \in m.scope :
                /\ FindingOK(f, m.before.finding[f])
                /\ m.before.finding[f].asset \in {m.source, m.target}
                /\ m.before.finding[f].asset = m.target /\ Stands(m.before.finding[f]) =>
                      /\ m.after.finding[f].asset = m.target /\ Stands(m.after.finding[f])
                      /\ m.after.finding[f].key = Key(m.target, f)
           /\ \A n \in DOMAIN m.before.owner : m.before.owner[n] \in {m.source, m.target}
BY DEF JournalOK

LEMMA JournalRecord ==
    ASSUME NEW m, JournalOK(m), NEW r \in DOMAIN m.before.record
    PROVE  /\ m.before.record[r].of # {}
           /\ \E f \in m.scope :
                /\ m.before.record[r] = [of |-> {f}, key |-> Key(m.before.finding[f].asset, f)]
                /\ Stands(m.before.finding[f]) /\ f[2] = r[2]
                /\ r[1] \in Authoritative =>
                      r[1] \in DOMAIN m.before.owner /\ m.before.owner[r[1]] = m.before.finding[f].asset
                /\ m.before.finding[f].asset = m.target => m.after.record[r] = m.before.record[r]
<1>1. /\ RecordOK(r, m.before.record[r], m.before.finding, m.before.owner)
      /\ \A f \in m.before.record[r].of :
            m.before.finding[f].asset = m.target => m.after.record[r] = m.before.record[r]
      /\ DOMAIN m.before.finding = m.scope
  BY DEF JournalOK
<1>2. PICK f \in m.scope :
         /\ m.before.record[r] = [of |-> {f}, key |-> Key(m.before.finding[f].asset, f)]
         /\ Stands(m.before.finding[f]) /\ f[2] = r[2]
         /\ r[1] \in Authoritative =>
               r[1] \in DOMAIN m.before.owner /\ m.before.owner[r[1]] = m.before.finding[f].asset
  BY <1>1 DEF RecordOK
<1>3. f \in m.before.record[r].of
  BY <1>2
<1>4. QED
  BY <1>1, <1>2, <1>3

\* The rows of a name that the rollback gives back to the source are all in its scope.
LEMMA RowsComeBack ==
    ASSUME MergeTypeOK, RowsOK, JournalsOK, OpenOK, NEW i \in DOMAIN merges, Open(merges[i]),
           RollbackDid(merges[i]), NEW r \in ScanRows, r[1] \in Authoritative,
           r[1] \in NamesMoved(merges[i]), r \notin DOMAIN merges[i].before.record
    PROVE  record[r].of = {}
<1> DEFINE m == merges[i]
<1>1. JournalOK(m) /\ NamesStay(m, asset, owner, record)
  BY DEF JournalsOK, OpenOK
<1> HIDE DEF m
<1>2. asset[m.target].version = m.after.asset[m.target].version
  BY DEF RollbackDid, m
<1>3. record[r].of \subseteq m.scope
  BY <1>1, <1>2 DEF NamesStay, m
<1>4. record[r].of \cap m.scope = {}
  BY DEF RollbackDid, m
<1>5. QED
  BY <1>3, <1>4

\* After a rollback every record has its finding.
LEMMA RollbackKeepsRows ==
    ASSUME MergeTypeOK, RowsOK, JournalsOK, OpenOK, MergeTypeOK', NEW i \in DOMAIN merges, Open(merges[i]),
           RollbackDid(merges[i])
    PROVE  RowsOK'
<1> DEFINE m == merges[i]
<1>1. /\ JournalOK(m) /\ m.source \in Names /\ m.scope \subseteq ScanRows
      /\ DOMAIN m.before.owner \subseteq Names /\ DOMAIN m.before.record \subseteq ScanRows
      /\ \A f \in m.scope : record[f].of # {}
  BY JournalTyped DEF JournalsOK
<1>2. RollbackDid(m)
  OBVIOUS
<1>3. ASSUME NEW r \in ScanRows, r[1] \in Authoritative, r[1] \in NamesMoved(m),
             r \notin DOMAIN m.before.record
      PROVE  record[r].of = {}
  BY <1>3, RowsComeBack, SMTT(30)
<1> HIDE DEF m
<1>4. \A a \in Names : asset'[a].status = "none" => asset'[a].version = 0
  BY <1>1, <1>2, JournalSays, SMTT(30) DEF RollbackDid, RowsOK
<1>5. \A f \in ScanRows : FindingOK(f, finding'[f])
  BY <1>1, <1>2, JournalSays, SMTT(30) DEF RollbackDid, RowsOK
<1>6. \A r \in DOMAIN m.before.record : record'[r].of # {}
  <2>1. ASSUME NEW r \in DOMAIN m.before.record
        PROVE  record'[r].of # {}
    <3>1. m.before.record[r].of # {}
      BY <1>1, JournalRecord
    <3>2. QED
      BY <1>2, <3>1 DEF RollbackDid
  <2>2. QED
    BY <2>1
<1>7. \A f \in ScanRows : finding'[f].state # "none" => record'[f].of # {}
  <2>1. \A f \in ScanRows : record[f].of # {} => record'[f].of # {}
    BY <1>2, <1>6 DEF RollbackDid
  <2>2. QED
    BY <1>1, <1>2, <2>1 DEF RollbackDid, RowsOK
<1>8. ASSUME NEW r \in ScanRows, record'[r].of # {}
      PROVE  RecordOK(r, record'[r], finding', owner')
  <2>0. r[1] \in Names /\ DOMAIN finding' = ScanRows /\ DOMAIN owner' = Names
    BY RowIsFound DEF MergeTypeOK
  <2>1. CASE r \in DOMAIN m.before.record
    <3>1. PICK f \in m.scope :
              /\ m.before.record[r] = [of |-> {f}, key |-> Key(m.before.finding[f].asset, f)]
              /\ Stands(m.before.finding[f]) /\ f[2] = r[2]
              /\ r[1] \in Authoritative =>
                   r[1] \in DOMAIN m.before.owner /\ m.before.owner[r[1]] = m.before.finding[f].asset
              /\ m.before.finding[f].asset = m.target => m.after.record[r] = m.before.record[r]
      <4>1. JournalOK(m)
        BY <1>1
      <4>2. QED
        BY <2>1, <4>1, JournalRecord
    <3>2. finding'[f] = m.before.finding[f] /\ record'[r] = m.before.record[r] /\ f \in ScanRows
      BY <1>1, <1>2, <2>1 DEF RollbackDid
    <3>3. r[1] \in Authoritative => owner'[r[1]] = m.before.finding[f].asset
      BY <1>2, <3>1 DEF RollbackDid
    <3>4. QED
      BY <2>0, <3>1, <3>2, <3>3 DEF RecordOK
  <2>2. CASE r \notin DOMAIN m.before.record
    <3>1. record'[r] = record[r] /\ record[r].of \cap m.scope = {}
      BY <1>2, <2>2 DEF RollbackDid
    <3>2. PICK f \in record[r].of : TRUE
      BY <1>8, <3>1
    <3>3. /\ f \in ScanRows /\ record[r] = [of |-> {f}, key |-> Key(finding[f].asset, f)]
          /\ Stands(finding[f]) /\ f[2] = r[2]
          /\ r[1] \in Authoritative => owner[r[1]] = finding[f].asset
      BY <3>2, RecordHas
    <3>4. finding'[f] = finding[f]
      BY <1>2, <3>1, <3>2, <3>3 DEF RollbackDid
    <3>5. ASSUME r[1] \in Authoritative
          PROVE  owner'[r[1]] = owner[r[1]]
      <4>1. r[1] \notin NamesMoved(m)
        BY <1>3, <2>2, <3>2, <3>5
      <4>2. CASE r[1] \in DOMAIN m.before.owner
        <5>1. m.before.owner[r[1]] = m.target
          BY <1>1, <4>1, <4>2, JournalSays DEF NamesMoved
        <5>2. QED
          BY <1>2, <4>2, <5>1 DEF RollbackDid
      <4>3. CASE r[1] \notin DOMAIN m.before.owner
        BY <1>2, <2>0, <4>3 DEF RollbackDid
      <4>4. QED
        BY <4>2, <4>3
    <3>6. QED
      BY <2>0, <3>1, <3>3, <3>4, <3>5 DEF RecordOK
  <2>3. QED
    BY <2>1, <2>2
<1>9. QED
  BY <1>4, <1>5, <1>7, <1>8 DEF RowsOK

\* A finding that comes back has no twin outside the scope, but one that it has already.
LEMMA TwinOfReturned ==
    ASSUME MergeTypeOK, RowsOK, TwinsOK, JournalsOK, OpenOK, NEW i \in DOMAIN merges, Open(merges[i]),
           RollbackDid(merges[i]), NEW f \in merges[i].scope, NEW g \in ScanRows \ merges[i].scope,
           Twins(f, g, finding')
    PROVE  MovedTogether(f, g)
<1> DEFINE m == merges[i]
<1>1. /\ JournalOK(m) /\ RollbackDid(m) /\ SourceIsEmpty(m, asset, finding)
      /\ f \in m.scope /\ g \in ScanRows \ m.scope /\ m.scope \subseteq ScanRows
  BY JournalTyped DEF JournalsOK, OpenOK
<1> HIDE DEF m
<1>2. finding'[f] = m.before.finding[f] /\ finding[f] = m.after.finding[f] /\ finding'[g] = finding[g]
  BY <1>1 DEF RollbackDid
<1>3. /\ f # g /\ Stands(m.before.finding[f]) /\ Stands(finding[g])
      /\ m.before.finding[f].key = finding[g].key
  BY <1>2 DEF Twins
<1>4. m.before.finding[f].key = Key(m.before.finding[f].asset, f)
  BY <1>1, <1>3, JournalSays DEF FindingOK
<1>5. finding[g].asset = m.before.finding[f].asset
  <2>1. g \in ScanRows /\ finding[g].key = Key(m.before.finding[f].asset, f)
    BY <1>1, <1>3, <1>4
  <2>2. QED
    BY <2>1, KeyedStands
<1>6. m.before.finding[f].asset = m.target
  <2>1. finding[g].asset # m.source
    BY <1>1, <1>3 DEF SourceIsEmpty, RollbackDid
  <2>2. QED
    BY <1>1, <1>5, <2>1, JournalSays
<1>7. Stands(finding[f]) /\ finding[f].key = Key(m.target, f)
  BY <1>1, <1>2, <1>3, <1>6, JournalSays
<1>8. Twins(f, g, finding)
  BY <1>3, <1>4, <1>6, <1>7 DEF Twins
<1>9. QED
  BY <1>1, <1>8 DEF TwinsOK

\* A rollback makes no twins.
LEMMA RollbackKeepsTwins ==
    ASSUME MergeTypeOK, RowsOK, TwinsOK, JournalsOK, OpenOK, NEW i \in DOMAIN merges, Open(merges[i]),
           RollbackDid(merges[i]), NEW f \in ScanRows, NEW g \in ScanRows, Twins(f, g, finding')
    PROVE  MovedTogether(f, g)
<1> DEFINE m == merges[i]
<1>1. CASE f \in m.scope /\ g \in m.scope
  <2>1. Twins(f, g, m.before.finding)
    BY <1>1 DEF Twins, RollbackDid
  <2>2. QED
    BY <1>1, <2>1 DEF JournalsOK
<1>2. CASE f \notin m.scope /\ g \notin m.scope
  <2>1. Twins(f, g, finding)
    BY <1>2 DEF Twins, RollbackDid
  <2>2. QED
    BY <2>1 DEF TwinsOK
<1>3. CASE f \in m.scope /\ g \notin m.scope
  BY <1>3, TwinOfReturned
<1>4. CASE f \notin m.scope /\ g \in m.scope
  <2>1. Twins(g, f, finding')
    BY DEF Twins
  <2>2. MovedTogether(g, f)
    BY <1>4, <2>1, TwinOfReturned
  <2>3. QED
    BY <2>2 DEF MovedTogether
<1>5. QED
  BY <1>1, <1>2, <1>3, <1>4

\* A merge that came later and may be taken back has nothing to do with the source of
\* one that can be: it would have changed it.
LEMMA SourceUntouched ==
    ASSUME MergeTypeOK, JournalsOK, BetweenOK, OpenOK, NEW i \in DOMAIN merges, NEW j \in DOMAIN merges,
           i < j, Open(merges[i]), Open(merges[j]), RollbackDid(merges[i])
    PROVE  merges[i].source \notin {merges[j].source, merges[j].target}
<1> DEFINE m == merges[i]
<1> DEFINE o == merges[j]
<1> DEFINE x == m.source
<1>1. Between(m, o) /\ JournalOK(o) /\ VersionsOK(o, asset) /\ RollbackDid(m)
  BY DEF BetweenOK, JournalsOK, OpenOK
<1>2. /\ m.after.asset[x].version \in Nat
      /\ o.after.asset[o.source].version \in Nat /\ o.after.asset[o.target].version \in Nat
      /\ o.before.asset[o.source].version \in Nat /\ o.before.asset[o.target].version \in Nat
      /\ asset[o.source].version \in Nat /\ asset[o.target].version \in Nat
  BY JournalNumbers
<1> HIDE DEF m, o, x
<1>3. SUFFICES ASSUME x \in {o.source, o.target}
               PROVE  FALSE
  BY DEF m, o, x
<1>4. m.after.asset[x].version < o.before.asset[x].version
  BY <1>1, <1>3 DEF Between, x
<1>5. o.before.asset[x].version <= o.after.asset[x].version
  <2>1. /\ o.after.asset[o.source].version = o.before.asset[o.source].version + 1
        /\ o.before.asset[o.target] = o.after.asset[o.target]
    BY <1>1, JournalSays
  <2>2. QED
    BY <1>2, <1>3, <2>1
<1>6. o.after.asset[x].version <= asset[x].version
  BY <1>1, <1>3 DEF VersionsOK
<1>7. asset[x] = m.after.asset[x]
  BY <1>1 DEF RollbackDid, x
<1>8. QED
  BY <1>2, <1>3, <1>4, <1>5, <1>6, <1>7

\* A name that merge o moved is not one that the rollback of m gives back, unless o's
\* target is m's source; and the records it has stay in o's scope.
LEMMA NamesAreKept ==
    ASSUME MergeTypeOK, RowsOK, JournalsOK, BetweenOK, OpenOK, NEW i \in DOMAIN merges,
           NEW j \in DOMAIN merges, i # j, Open(merges[i]), Open(merges[j]), RollbackDid(merges[i])
    PROVE  NamesStay(merges[j], asset', owner', record')
<1> DEFINE m == merges[i]
<1> DEFINE o == merges[j]
<1>1. /\ JournalOK(m) /\ JournalOK(o) /\ RollbackDid(m)
      /\ NamesStay(m, asset, owner, record) /\ NamesStay(o, asset, owner, record)
      /\ j < i => Between(o, m)
      /\ i < j => Between(m, o) /\ m.source \notin {o.source, o.target}
  BY SourceUntouched DEF BetweenOK, JournalsOK, OpenOK
<1>2. /\ m.source \in Names /\ m.target \in Names /\ o.target \in Names /\ o.source # o.target
      /\ m.source # m.target /\ NamesMoved(o) \subseteq Names /\ NamesMoved(m) \subseteq Names
      /\ i \in Int /\ j \in Int
  BY JournalNumbers DEF MergeTypeOK
<1>3. i < j \/ j < i
  BY <1>2
<1>4. DOMAIN m.before.record \subseteq ScanRows
  BY JournalTyped
<1>5. ASSUME NEW r \in ScanRows, r[1] \in Authoritative, r[1] \in NamesMoved(m),
             r \notin DOMAIN m.before.record
      PROVE  record[r].of = {}
  BY <1>5, RowsComeBack
<1> HIDE DEF m, o
<1> SUFFICES ASSUME asset'[o.target].version = o.after.asset[o.target].version, NEW n \in NamesMoved(o)
             PROVE  /\ owner'[n] = o.target
                    /\ n \in Authoritative =>
                          \A r \in ScanRows : r[1] = n => record'[r].of \subseteq o.scope
  BY DEF NamesStay, o
<1>6. CASE o.target = m.source
  <2>1. Between(o, m)
    BY <1>1, <1>3, <1>6
  <2>2. m.before.asset[o.target].version = o.after.asset[o.target].version
    BY <1>1, <1>6 DEF RollbackDid
  <2>3. /\ n \in DOMAIN m.before.owner /\ m.before.owner[n] = o.target
        /\ n \in Authoritative =>
              \A r \in DOMAIN m.before.record : r[1] = n => m.before.record[r].of \subseteq o.scope
    BY <1>6, <2>1, <2>2 DEF Between
  <2>4. owner'[n] = o.target
    BY <1>1, <2>3 DEF RollbackDid
  <2>5. ASSUME NEW r \in ScanRows, r[1] = n, n \in Authoritative
        PROVE  record'[r].of \subseteq o.scope
    <3>1. CASE r \in DOMAIN m.before.record
      BY <1>1, <2>3, <2>5, <3>1 DEF RollbackDid
    <3>2. CASE r \notin DOMAIN m.before.record
      <4>1. n \in NamesMoved(m)
        BY <1>6, <2>3 DEF NamesMoved
      <4>2. record[r].of = {} /\ record'[r] = record[r]
        BY <1>1, <1>5, <2>5, <3>2, <4>1 DEF RollbackDid
      <4>3. QED
        BY <4>2
    <3>3. QED
      BY <3>1, <3>2
  <2>6. QED
    BY <2>4, <2>5
<1>7. CASE o.target # m.source
  <2>1. asset[o.target].version = o.after.asset[o.target].version
    BY <1>1, <1>2, <1>7 DEF RollbackDid
  <2>2. /\ owner[n] = o.target
        /\ n \in Authoritative => \A r \in ScanRows : r[1] = n => record[r].of \subseteq o.scope
    BY <1>1, <2>1 DEF NamesStay
  <2>3. n \in DOMAIN m.before.owner => m.before.owner[n] = o.target
    <3> SUFFICES ASSUME n \in DOMAIN m.before.owner
                 PROVE  m.before.owner[n] = o.target
      OBVIOUS
    <3>1. o.target = m.target
      BY <1>1, <2>2, SMTT(30) DEF RollbackDid
    <3>2. asset[m.target] = m.after.asset[m.target]
          /\ m.before.asset[m.target] = m.after.asset[m.target]
      BY <1>1, JournalSays DEF RollbackDid
    <3>3. CASE j < i
      <4>1. m.before.asset[o.target].version = o.after.asset[o.target].version
        BY <2>1, <3>1, <3>2
      <4>2. QED
        BY <1>1, <3>1, <3>3, <4>1 DEF Between
    <3>4. CASE i < j
      <4>1. o.before.asset[m.target].version = m.after.asset[m.target].version
        <5>1. o.before.asset[o.target] = o.after.asset[o.target]
          BY <1>1, JournalSays
        <5>2. QED
          BY <2>1, <3>1, <3>2, <5>1
      <4>2. n \notin NamesMoved(m)
        <5>1. n \in NamesMoved(m) => o.before.owner[n] = m.target
          BY <1>1, <3>1, <3>4, <4>1 DEF Between
        <5>2. o.before.owner[n] = o.source
          BY DEF NamesMoved
        <5>3. QED
          BY <1>2, <3>1, <5>1, <5>2
      <4>3. QED
        BY <1>1, <3>1, <4>2, JournalSays DEF NamesMoved
    <3>5. QED
      BY <1>3, <3>3, <3>4
  <2>4. owner'[n] = o.target
    <3>1. n \in Names
      BY <1>2
    <3>2. QED
      BY <1>1, <2>2, <2>3, <3>1 DEF RollbackDid
  <2>5. ASSUME NEW r \in ScanRows, r[1] = n, n \in Authoritative
        PROVE  record'[r] = record[r]
    <3>1. CASE r \in DOMAIN m.before.record
      <4>1. PICK f \in m.scope :
              /\ r[1] \in DOMAIN m.before.owner /\ m.before.owner[r[1]] = m.before.finding[f].asset
              /\ m.before.finding[f].asset = m.target => m.after.record[r] = m.before.record[r]
        <5>1. JournalOK(m)
          BY <1>1
        <5>2. PICK f \in m.scope :
                /\ m.before.record[r] = [of |-> {f}, key |-> Key(m.before.finding[f].asset, f)]
                /\ Stands(m.before.finding[f]) /\ f[2] = r[2]
                /\ r[1] \in Authoritative =>
                      r[1] \in DOMAIN m.before.owner /\ m.before.owner[r[1]] = m.before.finding[f].asset
                /\ m.before.finding[f].asset = m.target => m.after.record[r] = m.before.record[r]
          BY <3>1, <5>1, JournalRecord
        <5>3. r[1] \in Authoritative
          BY <2>5
        <5>4. QED
          BY <5>2, <5>3
      <4>2. m.before.finding[f].asset = m.target
        <5>1. m.before.owner[n] = o.target /\ m.before.owner[n] \in {m.source, m.target}
          BY <1>1, <2>3, <2>5, <4>1, JournalSays
        <5>2. QED
          BY <1>7, <2>5, <4>1, <5>1
      <4>3. QED
        BY <1>1, <3>1, <4>1, <4>2 DEF RollbackDid
    <3>2. CASE r \notin DOMAIN m.before.record
      BY <1>1, <3>2 DEF RollbackDid
    <3>3. QED
      BY <3>1, <3>2
  <2>6. QED
    BY <2>2, <2>4, <2>5
<1>8. QED
  BY <1>6, <1>7

\* The other merges that could be taken back still can be.
LEMMA OthersStayOpen ==
    ASSUME MergeTypeOK, RowsOK, JournalsOK, BetweenOK, OpenOK, NEW i \in DOMAIN merges,
           NEW j \in DOMAIN merges, i # j, Open(merges[i]), Open(merges[j]), RollbackDid(merges[i])
    PROVE  VersionsOK(merges[j], asset') /\ SourceIsEmpty(merges[j], asset', finding')
<1> DEFINE m == merges[i]
<1> DEFINE o == merges[j]
<1>1. /\ JournalOK(m) /\ RollbackDid(m) /\ VersionsOK(o, asset) /\ SourceIsEmpty(o, asset, finding)
      /\ j < i => Between(o, m)
      /\ i < j => m.source \notin {o.source, o.target}
  BY SourceUntouched DEF BetweenOK, JournalsOK, OpenOK
<1>2. /\ m.source \in Names /\ o.source \in Names /\ o.target \in Names /\ i \in Int /\ j \in Int
      /\ o.after.asset[o.source].version \in Nat /\ o.after.asset[o.target].version \in Nat
      /\ m.before.asset[m.source].version \in Nat
  BY JournalNumbers, SMTT(30) DEF MergeTypeOK
<1>3. m.source \in {o.source, o.target} => Between(o, m)
  BY <1>1, <1>2
<1>4. m.scope \subseteq ScanRows
  BY JournalTyped, SMTT(30)
<1> HIDE DEF m, o
<1>5. o.source = m.source => o.after.asset[o.source].version < asset'[o.source].version
  BY <1>1, <1>3 DEF Between, RollbackDid
<1>6. VersionsOK(o, asset')
  <2>1. ASSUME NEW x \in {o.source, o.target}
        PROVE  o.after.asset[x].version <= asset'[x].version
    <3>1. CASE x = m.source
      BY <1>1, <1>3, <3>1 DEF Between, RollbackDid
    <3>2. CASE x # m.source
      BY <1>1, <1>2, <3>2 DEF VersionsOK, RollbackDid
    <3>3. QED
      BY <3>1, <3>2
  <2>2. asset'[o.source].version = o.after.asset[o.source].version => asset'[o.source].status = "RETIRED"
    <3>1. CASE o.source = m.source
      BY <1>2, <1>5, <3>1
    <3>2. CASE o.source # m.source
      BY <1>1, <1>2, <3>2 DEF VersionsOK, RollbackDid
    <3>3. QED
      BY <3>1, <3>2
  <2>3. QED
    BY <2>1, <2>2 DEF VersionsOK
<1>7. SourceIsEmpty(o, asset', finding')
  <2> SUFFICES ASSUME asset'[o.source].version = o.after.asset[o.source].version,
                      NEW f \in ScanRows, Stands(finding'[f]), finding'[f].asset = o.source
               PROVE  FALSE
    BY DEF SourceIsEmpty
  <2>1. o.source # m.source
    BY <1>2, <1>5
  <2>2. \A g \in ScanRows : Stands(finding[g]) => finding[g].asset # o.source
    BY <1>1, <1>2, <2>1 DEF RollbackDid, SourceIsEmpty
  <2>3. f \in m.scope
    BY <1>1, <2>2 DEF RollbackDid
  <2>4. finding'[f] = m.before.finding[f] /\ finding[f] = m.after.finding[f]
    BY <1>1, <2>3 DEF RollbackDid
  <2>5. m.before.finding[f].asset = m.target
    BY <1>1, <2>1, <2>3, <2>4, JournalSays
  <2>6. m.after.finding[f].asset = m.target /\ Stands(m.after.finding[f])
    BY <1>1, <2>3, <2>4, <2>5, JournalSays
  <2>7. QED
    BY <2>2, <2>4, <2>5, <2>6
<1>8. QED
  BY <1>6, <1>7 DEF o

\* So a rollback keeps the invariant.
LEMMA ApproveRollbackKeepsInv ==
    ASSUME MergeInv, NEW i \in DOMAIN merges, ApproveRollback(i)
    PROVE  MergeInv'
<1>1. MergeTypeOK /\ RowsOK /\ TwinsOK /\ JournalsOK /\ BetweenOK /\ OpenOK
  BY DEF MergeInv
<1>2. /\ RollbackDid(merges[i]) /\ MergeTypeOK' /\ Open(merges[i])
      /\ merges' = [merges EXCEPT ![i].rollback = "APPROVED"]
  BY <1>1, RollbackDoes
<1>3. /\ DOMAIN merges' = DOMAIN merges
      /\ \A k \in DOMAIN merges : SameMerge(merges[k], merges'[k])
      /\ merges'[i].rollback = "APPROVED" /\ \A k \in DOMAIN merges \ {i} : merges'[k] = merges[k]
  BY <1>1, <1>2, NewRollback
<1>4. \A k \in DOMAIN merges : Open(merges'[k]) => Open(merges[k]) /\ k # i
  BY <1>3 DEF Open
<1>5. RowsOK'
  BY <1>1, <1>2, RollbackKeepsRows
<1>6. TwinsOK'
  <2> SUFFICES ASSUME NEW f \in ScanRows, NEW g \in ScanRows, Twins(f, g, finding')
               PROVE  MovedTogether(f, g)'
    BY DEF TwinsOK
  <2>1. MovedTogether(f, g)
    BY <1>1, <1>2, RollbackKeepsTwins
  <2>2. QED
    BY <1>3, <2>1, MovedTogetherStays DEF SameMerge
<1>7. JournalsOK' /\ BetweenOK'
  <2>1. \A r \in ScanRows : record[r].of # {} => record'[r].of # {}
    <3> SUFFICES ASSUME NEW r \in ScanRows, record[r].of # {}
                 PROVE  record'[r].of # {}
      OBVIOUS
    <3>1. CASE r \in DOMAIN merges[i].before.record
      <4>1. JournalOK(merges[i])
        BY <1>1 DEF JournalsOK
      <4>2. merges[i].before.record[r].of # {}
        BY <3>1, <4>1, JournalRecord
      <4>3. QED
        BY <1>2, <3>1, <4>2 DEF RollbackDid
    <3>2. CASE r \notin DOMAIN merges[i].before.record
      BY <1>2, <3>2 DEF RollbackDid
    <3>3. QED
      BY <3>1, <3>2
  <2>2. QED
    BY <1>1, <1>3, <1>4, <2>1, SameJournals
<1>8. OpenOK'
  <2> SUFFICES ASSUME NEW k \in DOMAIN merges, k # i, Open(merges[k])
               PROVE  /\ VersionsOK(merges[k], asset') /\ NamesStay(merges[k], asset', owner', record')
                      /\ SourceIsEmpty(merges[k], asset', finding')
    BY <1>3, <1>4 DEF OpenOK
  <2>1. QED
    BY <1>1, <1>2, NamesAreKept, OthersStayOpen
<1>9. QED
  BY <1>2, <1>5, <1>6, <1>7, <1>8 DEF MergeInv

-----------------------------------------------------------------------------

\* The invariant holds of empty tables, and every step keeps it.
LEMMA MergeInvInit == AssetInit => MergeInv
<1> SUFFICES ASSUME AssetInit
             PROVE  MergeInv
  OBVIOUS
<1>1. Unknown \in AssetRow /\ NoFinding \in FindingRow /\ NoRecord \in RecordRow
  BY DEF Unknown, AssetRow, NoFinding, FindingRow, NoRecord, RecordRow, Keys
<1>2. MergeTypeOK
  BY <1>1 DEF AssetInit, MergeTypeOK
<1>3. ~Stands(NoFinding) /\ \A f : FindingOK(f, NoFinding)
  BY DEF Stands, NoFinding, FindingOK
<1>4. RowsOK
  BY <1>3 DEF AssetInit, RowsOK, Unknown, NoFinding, NoRecord
<1>5. TwinsOK
  BY <1>3 DEF AssetInit, TwinsOK, Twins
<1>6. JournalsOK /\ BetweenOK /\ OpenOK
  BY DEF AssetInit, JournalsOK, BetweenOK, OpenOK
<1>7. QED
  BY <1>2, <1>4, <1>5, <1>6 DEF MergeInv

LEMMA MergeInvNext == MergeInv /\ [AssetNext]_assetVars => MergeInv'
<1> SUFFICES ASSUME MergeInv, [AssetNext]_assetVars
             PROVE  MergeInv'
  OBVIOUS
<1>1. ASSUME NEW r \in ScanRows, Import(r) \/ SetAside(r)
      PROVE  MergeInv'
  BY <1>1, ImportKeepsInv, SetAsideKeepsInv
<1>2. ASSUME NEW a \in Names, NEW status \in {"ACTIVE", "RETIRED"}, Inventory(a, status)
      PROVE  MergeInv'
  BY <1>2, InventoryKeepsInv
<1>3. ASSUME UNCHANGED <<asset, owner, finding, record, merges>>,
             \A q \in requests' : q.source \in Names /\ q.target \in Names
      PROVE  MergeInv'
  <2>1. MergeTypeOK' /\ RowsOK'
    BY <1>3 DEF MergeInv, MergeTypeOK, RowsOK
  <2>2. TwinsOK' /\ JournalsOK'
    <3>1. \A f, g : MovedTogether(f, g) => MovedTogether(f, g)'
      BY <1>3 DEF MovedTogether
    <3>2. QED
      BY <1>3, <3>1 DEF MergeInv, TwinsOK, JournalsOK
  <2>3. BetweenOK' /\ OpenOK'
    BY <1>3 DEF MergeInv, BetweenOK, OpenOK
  <2>4. QED
    BY <2>1, <2>2, <2>3 DEF MergeInv
<1>4. ASSUME NEW s \in Names, NEW t \in Names, RequestMerge(s, t)
      PROVE  MergeInv'
  <2>1. \A q \in requests' : q.source \in Names /\ q.target \in Names
    BY <1>4 DEF RequestMerge, MergeInv, MergeTypeOK
  <2>2. QED
    BY <1>3, <1>4, <2>1 DEF RequestMerge
<1>5. ASSUME NEW q \in requests, RejectMerge(q)
      PROVE  MergeInv'
  <2>1. \A p \in requests' : p.source \in Names /\ p.target \in Names
    BY <1>5 DEF RejectMerge, MergeInv, MergeTypeOK
  <2>2. QED
    BY <1>3, <1>5, <2>1 DEF RejectMerge
<1>6. ASSUME NEW q \in requests, ApproveMerge(q)
      PROVE  MergeInv'
  BY <1>6, ApproveMergeKeepsInv
<1>7. ASSUME NEW i \in DOMAIN merges, RequestRollback(i) \/ RejectRollback(i)
      PROVE  MergeInv'
  <2>1. CASE RequestRollback(i)
    BY <2>1, AskingKeepsInv DEF RequestRollback
  <2>2. CASE RejectRollback(i)
    BY <2>2, AskingKeepsInv DEF RejectRollback
  <2>3. QED
    BY <1>7, <2>1, <2>2
<1>8. ASSUME NEW i \in DOMAIN merges, ApproveRollback(i)
      PROVE  MergeInv'
  BY <1>8, ApproveRollbackKeepsInv
<1>9. CASE UNCHANGED assetVars
  <2>1. \A q \in requests' : q.source \in Names /\ q.target \in Names
    BY <1>9 DEF assetVars, MergeInv, MergeTypeOK
  <2>2. QED
    BY <1>3, <1>9, <2>1 DEF assetVars
<1>10. QED
  BY <1>1, <1>2, <1>4, <1>5, <1>6, <1>7, <1>8, <1>9 DEF AssetNext

LEMMA MergesAreSound == AssetSpec => []MergeInv
BY MergeInvInit, MergeInvNext, PTL DEF AssetSpec

\* A row that is imported again arrives, whatever was merged and taken back.
THEOREM RowsArrive == AssetSpec => []KnownRowsArrive
<1>1. MergeInv => KnownRowsArrive
  <2> SUFFICES ASSUME MergeInv, NEW r \in ScanRows, NEW f \in record[r].of
               PROVE  /\ ~finding[f].merged /\ record[r].key = finding[f].key
                      /\ finding[f].key = Key(finding[f].asset, f)
                      /\ r[1] \in Authoritative => Accepted(r)
    BY DEF KnownRowsArrive
  <2>1. /\ f \in ScanRows /\ record[r] = [of |-> {f}, key |-> Key(finding[f].asset, f)]
        /\ Stands(finding[f]) /\ f[2] = r[2] /\ finding[f].asset \in Names
        /\ finding[f].key = Key(finding[f].asset, f)
        /\ r[1] \in Authoritative => owner[r[1]] = finding[f].asset
    BY RecordHas DEF MergeInv
  <2>2. ASSUME r[1] \in Authoritative
        PROVE  Accepted(r)
    <3>1. Resolved(r[1]) = finding[f].asset
      BY <2>1, <2>2, MergeAssumption DEF Resolved, MergeAssumption
    <3>2. record[r].key = Proposed(r)
      BY <2>1, <3>1, KeysDiffer DEF Proposed
    <3>3. QED
      BY <3>2 DEF Accepted
  <2>3. QED
    BY <2>1, <2>2 DEF Stands
<1>2. QED
  BY <1>1, MergesAreSound, PTL

\* Two live findings of one asset and one vulnerability come from a merge that moved one
\* of them to where the other was, archived.
THEOREM TwinsComeFromMerges == AssetSpec => []TwinsWereMoved
<1>1. MergeInv => TwinsWereMoved
  <2> SUFFICES ASSUME MergeInv, NEW f \in ScanRows, NEW g \in ScanRows, f # g,
                      finding[f].state = "live", finding[g].state = "live",
                      finding[f].key = finding[g].key
               PROVE  MovedTogether(f, g)
    BY DEF TwinsWereMoved, MovedTogether
  <2>1. Stands(finding[f]) /\ Stands(finding[g])
    BY DEF MergeInv, RowsOK, FindingOK, Stands
  <2>2. QED
    BY <2>1 DEF MergeInv, TwinsOK, Twins
<1>2. QED
  BY <1>1, MergesAreSound, PTL

-----------------------------------------------------------------------------
(* The restore barrier. *)

LeaseRow == [holder : Instances \cup {Nobody}, token : Nat, ttl : -1..LeaseTTL]
RestoreRow == [pc : RestorePc, token : Nat]

\* A restore in progress holds a token that was really issued.
TokenInv ==
    /\ lease \in LeaseRow
    /\ restore \in [Instances -> RestoreRow]
    /\ \A i \in Instances : restore[i].pc # "idle" => restore[i].token <= lease.token
    /\ TokensFence

\* With TTLs respected, a restore in its exclusive part has the lease.
HolderInv ==
    \A i \in Instances \cap Reliable :
        restore[i].pc \in Exclusive => lease.holder = i /\ lease.ttl >= 1

\* A request past its registration is visible to a restore that counts.
WriterInv ==
    /\ activity \in [Requests -> Int]
    /\ request \in [Requests -> RequestPc]
    /\ \A r \in Requests \cap Reliable :
          request[r] \in {"registered", "writing"} => activity[r] >= 0

USE BarrierAssumption DEF BarrierAssumption, Exclusive, RestorePc

-----------------------------------------------------------------------------
(* The lease row. *)

LEMMA AcquiredRow ==
    ASSUME NEW l \in LeaseRow, NEW h \in Instances
    PROVE  LET a == Acquired(l, h, LeaseTTL)
           IN  /\ a \in LeaseRow
               /\ a.holder = h /\ a.ttl = LeaseTTL
               /\ a.token = l.token + 1 \/ (a.token = l.token /\ l.holder = h)
BY DEF Acquired, LeaseRow, Expired

LEMMA ReleasedRow ==
    ASSUME NEW l \in LeaseRow, NEW h \in Instances, NEW t \in Nat
    PROVE  LET a == Released(l, h, t)
           IN  /\ a \in LeaseRow
               /\ a.holder = l.holder /\ a.token = l.token
               /\ a = l \/ l.holder = h
BY DEF Released, LeaseRow

LEMMA AgedRow ==
    ASSUME NEW l \in LeaseRow
    PROVE  /\ Aged(l) \in LeaseRow
           /\ Aged(l).holder = l.holder /\ Aged(l).token = l.token
           /\ l.ttl >= 0 => Aged(l).ttl = l.ttl - 1
BY DEF Aged, LeaseRow

\* What every restore step but an acquisition does to the restores.
LEMMA MovedRow ==
    ASSUME TokenInv, NEW i \in Instances, NEW pc \in RestorePc, Goto(i, pc)
    PROVE  /\ restore' \in [Instances -> RestoreRow]
           /\ restore'[i].pc = pc /\ restore'[i].token = restore[i].token
           /\ \A j \in Instances \ {i} : restore'[j] = restore[j]
BY DEF TokenInv, Goto, RestoreRow

-----------------------------------------------------------------------------
(* Fencing. *)

\* A step that keeps the lease's holder and token, and issues none.
LEMMA MoveKeepsTokens ==
    ASSUME TokenInv, NEW i \in Instances, NEW pc \in RestorePc, Goto(i, pc),
           restore[i].pc # "idle",
           lease' \in LeaseRow, lease'.holder = lease.holder, lease'.token = lease.token
    PROVE  TokenInv'
<1>1. /\ restore' \in [Instances -> RestoreRow]
      /\ \A j \in Instances : restore'[j].token = restore[j].token
      /\ \A j \in Instances : restore'[j].pc # "idle" => restore[j].pc # "idle"
  BY MovedRow
<1>2. QED
  BY <1>1 DEF TokenInv, TokensFence

LEMMA StayKeepsTokens ==
    ASSUME TokenInv, restore' = restore,
           lease' \in LeaseRow, lease'.holder = lease.holder, lease'.token = lease.token
    PROVE  TokenInv'
BY DEF TokenInv, TokensFence

LEMMA AcquireKeepsTokens ==
    ASSUME TokenInv, NEW i \in Instances, AcquireRestore(i)
    PROVE  TokenInv'
<1>1. /\ lease' \in LeaseRow /\ lease'.holder = i
      /\ lease'.token = lease.token + 1 \/ (lease'.token = lease.token /\ lease.holder = i)
  BY AcquiredRow DEF TokenInv, AcquireRestore
<1>2. lease.token \in Nat /\ lease'.token \in Nat
  BY <1>1 DEF TokenInv, LeaseRow
<1>3. /\ restore \in [Instances -> RestoreRow]
      /\ restore' = [restore EXCEPT ![i] = [pc |-> "held", token |-> lease'.token]]
  BY DEF TokenInv, AcquireRestore
<1>4. [pc |-> "held", token |-> lease'.token] \in RestoreRow
  BY <1>2 DEF RestoreRow
<1>5. /\ restore' \in [Instances -> RestoreRow]
      /\ restore'[i].token = lease'.token
      /\ \A j \in Instances \ {i} : restore'[j] = restore[j]
  BY <1>3, <1>4
<1>6. \A j \in Instances : restore[j].token \in Nat
  BY <1>3 DEF RestoreRow
<1>7. \A j \in Instances \ {i} : restore[j].pc # "idle" => restore[j].token < lease'.token
  BY <1>1, <1>2, <1>6 DEF TokenInv, TokensFence
<1>8. \A j \in Instances : restore'[j].pc # "idle" => restore'[j].token <= lease'.token
  BY <1>2, <1>5, <1>6, <1>7
<1>9. TokensFence'
  <2>1. ASSUME NEW j \in Instances, restore'[j].pc # "idle"
        PROVE  /\ restore'[j].token = lease'.token => lease'.holder = j
               /\ \A k \in Instances :
                     restore'[k].pc # "idle" /\ restore'[k].token = restore'[j].token => j = k
    <3>1. CASE j = i
      BY <1>1, <1>2, <1>5, <1>6, <1>7, <3>1
    <3>2. CASE j # i
      BY <1>2, <1>5, <1>6, <1>7, <2>1, <3>2 DEF TokenInv, TokensFence
    <3>3. QED
      BY <3>1, <3>2
  <2>2. QED
    BY <2>1 DEF TokensFence
<1>10. QED
  BY <1>1, <1>5, <1>8, <1>9 DEF TokenInv

LEMMA TokenInit == BarrierInit => TokenInv
BY DEF BarrierInit, TokenInv, TokensFence, NoLease, LeaseRow, RestoreRow

LEMMA TokenStep == TokenInv /\ [BarrierNext]_barrierVars => TokenInv'
<1> SUFFICES ASSUME TokenInv, [BarrierNext]_barrierVars
             PROVE  TokenInv'
  OBVIOUS
<1>0. lease \in LeaseRow /\ \A i \in Instances : restore[i].token \in Nat
  BY DEF TokenInv, RestoreRow
<1>1. ASSUME NEW r \in Requests, RequestStep(r)
      PROVE  TokenInv'
  BY <1>0, <1>1, StayKeepsTokens
     DEF RequestStep, CheckBarrier, Register, Recheck, Written, Deregister, LoseRequest, SubmitJob
<1>2. ASSUME NEW i \in Instances, RestoreStep(i)
      PROVE  TokenInv'
  <2>1. CASE AcquireRestore(i)
    BY <2>1, AcquireKeepsTokens
  <2>2. CASE CountJobs(i) \/ CountWrites(i) \/ Restored(i) \/ RestoreFails(i) \/ CrashRestore(i)
    <3>1. lease' = lease /\ restore[i].pc # "idle" /\ \E pc \in RestorePc : Goto(i, pc)
      BY <2>2 DEF CountJobs, CountWrites, Restored, RestoreFails, CrashRestore
    <3>2. QED
      BY <1>0, <3>1, MoveKeepsTokens
  <2>3. CASE ReleaseRestore(i)
    <3>1. Goto(i, "idle") /\ restore[i].pc # "idle"
      BY <2>3 DEF ReleaseRestore
    <3>2. lease' \in LeaseRow /\ lease'.holder = lease.holder /\ lease'.token = lease.token
      BY <1>0, <2>3, ReleasedRow DEF ReleaseRestore
    <3>3. QED
      BY <3>1, <3>2, MoveKeepsTokens
  <2>4. QED
    BY <1>2, <2>1, <2>2, <2>3 DEF RestoreStep
<1>3. ASSUME NEW i \in Instances, BackgroundStep(i)
      PROVE  TokenInv'
  BY <1>0, <1>3, StayKeepsTokens
     DEF BackgroundStep, WorkerChecks, WorkerClaims, WorkerSettles, SchedulerChecks, SchedulerProduces
<1>4. CASE Tick
  BY <1>0, <1>4, AgedRow, StayKeepsTokens DEF Tick
<1>5. CASE UNCHANGED barrierVars
  BY <1>0, <1>5, StayKeepsTokens DEF barrierVars
<1>6. QED
  BY <1>1, <1>2, <1>3, <1>4, <1>5 DEF BarrierNext

\* However late the restores are, no two of those in progress share a fencing
\* token, and the current token is the current holder's.
THEOREM RestoreTokensFence == BarrierSpec => []TokensFence
<1>1. BarrierSpec => []TokenInv
  BY TokenInit, TokenStep, PTL DEF BarrierSpec
<1>2. TokenInv => TokensFence
  BY DEF TokenInv
<1>3. QED
  BY <1>1, <1>2, PTL

-----------------------------------------------------------------------------
(* Exclusion, when TTLs are respected. *)

LEMMA HolderStays ==
    ASSUME TokenInv, HolderInv, lease' = lease,
           \A i \in Instances : restore'[i].pc \in Exclusive => restore[i].pc \in Exclusive
    PROVE  HolderInv'
BY DEF HolderInv

LEMMA HolderStep ==
    ASSUME TokenInv, HolderInv, [BarrierNext]_barrierVars
    PROVE  HolderInv'
<1>0. /\ lease \in LeaseRow /\ lease.ttl \in Int
      /\ \A i \in Instances : restore[i].token \in Nat
  BY DEF TokenInv, RestoreRow, LeaseRow
<1>1. ASSUME NEW r \in Requests, RequestStep(r)
      PROVE  HolderInv'
  BY <1>1, HolderStays
     DEF RequestStep, CheckBarrier, Register, Recheck, Written, Deregister, LoseRequest, SubmitJob
<1>2. ASSUME NEW i \in Instances, RestoreStep(i)
      PROVE  HolderInv'
  <2>1. CASE AcquireRestore(i)
    <3>1. lease.holder = i \/ lease.ttl <= 0
      BY <2>1 DEF AcquireRestore, Acquirable, Expired
    <3>2. lease'.holder = i /\ lease'.ttl = LeaseTTL
      BY <1>0, <2>1, AcquiredRow DEF AcquireRestore
    <3>3. \A j \in Instances \ {i} : restore'[j] = restore[j]
      BY <2>1 DEF TokenInv, AcquireRestore
    <3>4. \A j \in (Instances \cap Reliable) \ {i} : restore[j].pc \notin Exclusive
      BY <1>0, <3>1 DEF HolderInv
    <3>5. QED
      BY <3>2, <3>3, <3>4 DEF HolderInv
  <2>2. CASE CountJobs(i) \/ CountWrites(i) \/ Restored(i) \/ RestoreFails(i) \/ CrashRestore(i)
    <3>1. /\ lease' = lease
          /\ \E pc \in RestorePc : /\ Goto(i, pc)
                                   /\ pc \in Exclusive => restore[i].pc \in Exclusive
      BY <2>2 DEF CountJobs, CountWrites, Restored, RestoreFails, CrashRestore
    <3>2. QED
      BY <3>1, MovedRow, HolderStays
  <2>3. CASE ReleaseRestore(i)
    <3>1. Goto(i, "idle") /\ restore[i].pc = "releasing"
      BY <2>3 DEF ReleaseRestore
    <3>2. restore'[i].pc = "idle" /\ \A j \in Instances \ {i} : restore'[j] = restore[j]
      BY <3>1, MovedRow
    <3>3. lease' = lease \/ lease.holder = i
      BY <1>0, <2>3, ReleasedRow DEF ReleaseRestore
    <3>4. QED
      BY <3>1, <3>2, <3>3 DEF HolderInv
  <2>4. QED
    BY <1>2, <2>1, <2>2, <2>3 DEF RestoreStep
<1>3. ASSUME NEW i \in Instances, BackgroundStep(i)
      PROVE  HolderInv'
  BY <1>3, HolderStays
     DEF BackgroundStep, WorkerChecks, WorkerClaims, WorkerSettles, SchedulerChecks, SchedulerProduces
<1>4. CASE Tick
  <2>1. \A i \in Instances \cap Reliable : restore[i].pc \in Exclusive => lease.ttl > 1
    BY <1>4 DEF Tick
  <2>2. lease'.holder = lease.holder /\ (lease.ttl >= 0 => lease'.ttl = lease.ttl - 1)
    BY <1>0, <1>4, AgedRow DEF Tick
  <2>3. restore' = restore
    BY <1>4 DEF Tick
  <2>4. QED
    BY <1>0, <2>1, <2>2, <2>3 DEF HolderInv
<1>5. CASE UNCHANGED barrierVars
  BY <1>5, HolderStays DEF barrierVars
<1>6. QED
  BY <1>1, <1>2, <1>3, <1>4, <1>5 DEF BarrierNext

\* No two processes whose restores end within their leases restore at once,
\* however many slow ones there are beside them.
THEOREM RestoreAlone == BarrierSpec => []OneRestore
<1>1. BarrierInit => TokenInv /\ HolderInv
  BY TokenInit DEF BarrierInit, HolderInv
<1>2. TokenInv /\ HolderInv /\ [BarrierNext]_barrierVars => (TokenInv /\ HolderInv)'
  BY TokenStep, HolderStep
<1>3. TokenInv /\ HolderInv => OneRestore
  BY DEF HolderInv, OneRestore
<1>4. QED
  BY <1>1, <1>2, <1>3, PTL DEF BarrierSpec

LEMMA WriterStep ==
    ASSUME WriterInv, [BarrierNext]_barrierVars
    PROVE  WriterInv'
<1> USE DEF WriterInv, RequestPc
<1>1. ASSUME NEW r \in Requests, RequestStep(r)
      PROVE  WriterInv'
  <2>1. CASE Register(r)
    BY <2>1 DEF Register
  <2>2. CASE Deregister(r)
    BY <2>2 DEF Deregister
  <2>3. CASE Recheck(r)
    <3>1. PICK seen \in BOOLEAN :
            request' = [request EXCEPT ![r] = IF seen THEN "leaving" ELSE "writing"]
      BY <2>3 DEF Recheck, RestoreSeen, Active
    <3>2. request[r] = "registered" /\ activity' = activity
      BY <2>3 DEF Recheck
    <3>3. QED
      BY <3>1, <3>2
  <2>4. CASE CheckBarrier(r)
    BY <2>4 DEF CheckBarrier
  <2>5. CASE Written(r)
    BY <2>5 DEF Written
  <2>6. CASE LoseRequest(r)
    BY <2>6 DEF LoseRequest
  <2>7. CASE \E b \in Jobs : SubmitJob(r, b)
    BY <2>7 DEF SubmitJob
  <2>8. QED
    BY <1>1, <2>1, <2>2, <2>3, <2>4, <2>5, <2>6, <2>7 DEF RequestStep
<1>2. ASSUME NEW i \in Instances, RestoreStep(i)
      PROVE  WriterInv'
  BY <1>2 DEF RestoreStep, AcquireRestore, CountJobs, CountWrites, Restored, RestoreFails,
              ReleaseRestore, CrashRestore
<1>3. ASSUME NEW i \in Instances, BackgroundStep(i)
      PROVE  WriterInv'
  BY <1>3
     DEF BackgroundStep, WorkerChecks, WorkerClaims, WorkerSettles, SchedulerChecks, SchedulerProduces
<1>4. CASE Tick
  BY <1>4 DEF Tick
<1>5. CASE UNCHANGED barrierVars
  BY <1>5 DEF barrierVars
<1>6. QED
  BY <1>1, <1>2, <1>3, <1>4, <1>5 DEF BarrierNext

LEMMA QuietStep ==
    ASSUME TokenInv, HolderInv, WriterInv, NoWriteDuringRestore,
           [BarrierNext]_barrierVars
    PROVE  NoWriteDuringRestore'
<1>1. SUFFICES ASSUME NEW i \in Instances \cap Reliable, NEW r \in Requests \cap Reliable,
                      restore'[i].pc = "restoring", request'[r] = "writing"
               PROVE  FALSE
  BY DEF NoWriteDuringRestore
<1>2. lease.ttl \in Int
  BY DEF TokenInv, LeaseRow
<1>3. ASSUME NEW q \in Requests, RequestStep(q)
      PROVE  FALSE
  <2>1. restore' = restore
    BY <1>3
       DEF RequestStep, CheckBarrier, Register, Recheck, Written, Deregister, LoseRequest, SubmitJob
  <2>2. request[r] # "writing"
    BY <1>1, <2>1 DEF NoWriteDuringRestore
  <2>3. Recheck(q)
    BY <1>1, <1>3, <2>2
       DEF RequestStep, CheckBarrier, Register, Written, Deregister, LoseRequest, SubmitJob,
           WriterInv
  <2>4. ~Active(lease)
    BY <1>1, <2>2, <2>3 DEF Recheck, RestoreSeen, WriterInv
  <2>5. lease.ttl >= 1
    BY <1>1, <2>1 DEF HolderInv
  <2>6. QED
    BY <1>2, <2>4, <2>5 DEF Active
<1>4. ASSUME NEW k \in Instances, RestoreStep(k)
      PROVE  FALSE
  <2>1. request' = request
    BY <1>4 DEF RestoreStep, AcquireRestore, CountJobs, CountWrites, Restored, RestoreFails,
                ReleaseRestore, CrashRestore
  <2>2. restore[i].pc # "restoring"
    BY <1>1, <2>1 DEF NoWriteDuringRestore
  <2>3. CountWrites(k)
    BY <1>1, <1>4, <2>2
       DEF RestoreStep, AcquireRestore, CountJobs, Restored, RestoreFails,
           ReleaseRestore, CrashRestore, Goto, TokenInv, RestoreRow
  <2>4. \A q \in Requests : ~(activity[q] >= 0)
    BY <1>1, <2>2, <2>3 DEF CountWrites, Goto, TokenInv, RestoreRow
  <2>5. QED
    BY <1>1, <2>1, <2>4 DEF WriterInv
<1>5. ASSUME NEW k \in Instances, BackgroundStep(k)
      PROVE  FALSE
  BY <1>1, <1>5
     DEF BackgroundStep, WorkerChecks, WorkerClaims, WorkerSettles, SchedulerChecks,
         SchedulerProduces, NoWriteDuringRestore
<1>6. CASE Tick
  BY <1>1, <1>6 DEF Tick, NoWriteDuringRestore
<1>7. CASE UNCHANGED barrierVars
  BY <1>1, <1>7 DEF barrierVars, NoWriteDuringRestore
<1>8. QED
  BY <1>3, <1>4, <1>5, <1>6, <1>7 DEF BarrierNext

\* No reliable request is being handled while a reliable restore replaces the
\* database, for any number of requests and restores of either sort.
THEOREM RestoreExcludesWrites == BarrierSpec => []NoWriteDuringRestore
<1>1. BarrierInit => TokenInv /\ HolderInv /\ WriterInv /\ NoWriteDuringRestore
  BY TokenInit DEF BarrierInit, HolderInv, WriterInv, NoWriteDuringRestore, RequestPc
<1>2. TokenInv /\ HolderInv /\ WriterInv /\ NoWriteDuringRestore /\ [BarrierNext]_barrierVars
        => (TokenInv /\ HolderInv /\ WriterInv /\ NoWriteDuringRestore)'
  BY TokenStep, HolderStep, WriterStep, QuietStep
<1>3. QED
  BY <1>1, <1>2, PTL DEF BarrierSpec

USE SplitAssumption DEF SplitAssumption

-----------------------------------------------------------------------------
(* The preparation of the storage.  Only one process prepares.  One that    *)
(* splits the old database works alone: nobody serves until it is done.     *)

Places == {"stopped", "aside", "control", "role", "default", "strip", "directories", "marker", "serving"}

SplitTypeOK ==
    /\ legacy \in BOOLEAN /\ cut \in BOOLEAN
    /\ control \in Database \cup {NoFile} /\ default \in Database \cup {NoFile}
    /\ copied \subseteq Directories
    /\ starter \in [Starters -> [at : Places, splits : BOOLEAN]]
    /\ worked \in [control : Nat, default : Nat]

Prepares(s) == starter[s].at \notin {"stopped", "serving"}
Serves == \E s \in Starters : At(s, "serving")
Both == control # NoFile /\ default # NoFile

\* Where a process is says which databases there are.
PlaceOK(s) ==
    LET place == starter[s].at
        splits == starter[s].splits
    IN  /\ place = "aside" => splits /\ ~Both
        /\ place = "control" => IF splits THEN control = NoFile /\ default = NoFile ELSE legacy => Both
        /\ place = "role" => splits /\ control # NoFile /\ default = NoFile
        /\ place = "default" => control # NoFile /\ (IF splits THEN default = NoFile ELSE legacy => Both)
        /\ place \in {"strip", "directories", "marker", "serving"} => Both
        /\ place = "directories" => splits
        /\ splits => legacy

Alone ==
    /\ \A s, t \in Starters : Prepares(s) /\ Prepares(t) => s = t
    /\ \A s \in Starters : Prepares(s) /\ starter[s].splits => ~Serves

\* A database is of the right origin and has what was written to it.
FilesOK ==
    LET origin == IF legacy THEN "legacy" ELSE "new" IN
    /\ control # NoFile => control.source = origin /\ control.work = worked.control
    /\ default # NoFile => default.source = origin /\ default.work = worked.default
    /\ ~Both => worked.control = 0 /\ worked.default = 0

\* Accounts are in the default database only before it is stripped.
StrippedOK ==
    default # NoFile /\ default.accounts =>
        \A s \in Starters : starter[s].at \notin {"directories", "marker", "serving"}

CopiesOK ==
    legacy /\ ~cut /\ Both =>
        \/ copied = Directories
        \/ \E s \in Starters : starter[s].splits /\ starter[s].at \in {"strip", "directories"}

SplitInv ==
    /\ SplitTypeOK /\ (\A s \in Starters : PlaceOK(s))
    /\ Alone /\ FilesOK /\ StrippedOK /\ CopiesOK

LEMMA StarterTyped ==
    ASSUME SplitTypeOK, NEW s \in Starters
    PROVE  starter[s] \in [at : Places, splits : BOOLEAN]
BY DEF SplitTypeOK

\* The files that the steps make are databases.
LEMMA Files ==
    /\ Fresh \in Database /\ [Fresh EXCEPT !.source = "legacy", !.accounts = TRUE] \in Database
    /\ \A f \in Database : /\ [f EXCEPT !.role = "control"] \in Database
                           /\ [f EXCEPT !.accounts = FALSE] \in Database
BY DEF Fresh, Database

\* A step of a process that moves it on.
LEMMA Moves ==
    ASSUME SplitTypeOK, NEW s \in Starters, NEW p \in Places, GoTo(s, p)
    PROVE  /\ starter' \in [Starters -> [at : Places, splits : BOOLEAN]]
           /\ starter'[s].at = p /\ starter'[s].splits = starter[s].splits
           /\ \A t \in Starters \ {s} : starter'[t] = starter[t]
BY DEF SplitTypeOK, GoTo

\* The others are stopped, or serve what this process leaves as it is.
LEMMA StaysAlone ==
    ASSUME Alone, NEW s \in Starters, Prepares(s),
           \A t \in Starters \ {s} : starter'[t] = starter[t],
           starter'[s].at # "serving", starter'[s].splits = starter[s].splits
    PROVE  Alone'
BY DEF Alone, Prepares, Serves, At

LEMMA Frame ==
    ASSUME SplitInv, NEW s \in Starters, Prepares(s),
           \A t \in Starters \ {s} : starter'[t] = starter[t],
           legacy' = legacy, Both => Both', PlaceOK(s)'
    PROVE  \A t \in Starters : PlaceOK(t)'
<1>1. ASSUME NEW t \in Starters \ {s} PROVE PlaceOK(t)'
  <2>1. starter[t].at \in {"stopped", "serving"}
    BY DEF SplitInv, Alone, Prepares
  <2>2. QED
    BY <2>1 DEF PlaceOK, SplitInv
<1>2. QED
  BY <1>1

LEMMA StartServerKeepsSplit ==
    ASSUME SplitInv, NEW s \in Starters, StartServer(s)
    PROVE  SplitInv'
<1> USE DEF StartServer, GoTo, At, Stopped, Fresh, Places, Database, Both, Prepares
<1>1. SplitTypeOK'
  BY DEF SplitInv, SplitTypeOK, PlaceOK
<1>2. /\ starter[s] \in [at : Places, splits : BOOLEAN]
      /\ starter'[s] \in [at : Places, splits : BOOLEAN]
      /\ \A t \in Starters \ {s} : starter'[t] = starter[t]
  BY <1>1 DEF SplitInv, SplitTypeOK
<1>3. \A t \in Starters : PlaceOK(t)'
  <2>1. \A t \in Starters : PlaceOK(t)
    BY DEF SplitInv
  <2>2. PlaceOK(s)'
    BY <1>2, <2>1 DEF PlaceOK, SplitInv, SplitTypeOK
  <2>3. \A t \in Starters \ {s} : PlaceOK(t)'
    BY <1>2, <2>1 DEF PlaceOK
  <2>4. QED
    BY <2>2, <2>3
<1>4. Alone'
  <2>1. \A t \in Starters \ {s} : ~Prepares(t)'
    BY <1>2
  <2>2. starter'[s].splits => ~Both
    BY DEF SplitInv, SplitTypeOK
  <2>3. \A t \in Starters : PlaceOK(t)
    BY DEF SplitInv
  <2>4. Serves' => Both
    BY <1>2, <2>3 DEF Serves, PlaceOK, SplitInv, SplitTypeOK
  <2>5. QED
    BY <2>1, <2>2, <2>4 DEF Alone
<1>5. FilesOK'
  BY <1>1, <1>2 DEF SplitInv, SplitTypeOK, PlaceOK, FilesOK
<1>6. StrippedOK'
  BY <1>1, <1>2 DEF SplitInv, SplitTypeOK, PlaceOK, Alone, StrippedOK, Serves
<1>7. CopiesOK'
  BY <1>1, <1>2 DEF SplitInv, SplitTypeOK, PlaceOK, Alone, CopiesOK
<1>8. QED
  BY <1>1, <1>3, <1>4, <1>5, <1>6, <1>7 DEF SplitInv

LEMMA AsideKeepsSplit ==
    ASSUME SplitInv, NEW s \in Starters, Aside(s)
    PROVE  SplitInv'
<1> USE DEF Aside, GoTo, At, Stopped, Fresh, Places, Database, Both, Prepares
<1>1. SplitTypeOK'
  BY DEF SplitInv, SplitTypeOK, PlaceOK
<1>2. /\ starter[s] \in [at : Places, splits : BOOLEAN]
      /\ starter'[s] \in [at : Places, splits : BOOLEAN]
      /\ \A t \in Starters \ {s} : starter'[t] = starter[t]
  BY <1>1 DEF SplitInv, SplitTypeOK
<1>3. \A t \in Starters : PlaceOK(t)'
  BY <1>1, <1>2 DEF SplitInv, SplitTypeOK, PlaceOK, Alone, Serves
<1>4. Alone'
  BY <1>1, <1>2 DEF SplitInv, SplitTypeOK, PlaceOK, Alone, Serves
<1>5. FilesOK'
  BY <1>1, <1>2 DEF SplitInv, SplitTypeOK, PlaceOK, FilesOK
<1>6. StrippedOK'
  BY <1>1, <1>2 DEF SplitInv, SplitTypeOK, PlaceOK, Alone, StrippedOK, Serves
<1>7. CopiesOK'
  BY <1>1, <1>2 DEF SplitInv, SplitTypeOK, PlaceOK, Alone, CopiesOK
<1>8. QED
  BY <1>1, <1>3, <1>4, <1>5, <1>6, <1>7 DEF SplitInv

LEMMA MakeControlKeepsSplit ==
    ASSUME SplitInv, NEW s \in Starters, MakeControl(s)
    PROVE  SplitInv'
<1>1. SplitTypeOK'
  <2>1. control' \in Database \cup {NoFile}
    BY Files DEF MakeControl, SplitInv, SplitTypeOK
  <2>2. starter' \in [Starters -> [at : Places, splits : BOOLEAN]]
    BY Moves DEF MakeControl, SplitInv, Places
  <2>3. QED
    BY <2>1, <2>2 DEF MakeControl, SplitInv, SplitTypeOK
<1> USE DEF MakeControl, GoTo, At, Stopped, Fresh, Places, Database, Both, Prepares
<1>2. /\ starter[s] \in [at : Places, splits : BOOLEAN]
      /\ starter'[s] \in [at : Places, splits : BOOLEAN]
      /\ \A t \in Starters \ {s} : starter'[t] = starter[t]
  BY <1>1 DEF SplitInv, SplitTypeOK
<1>3. \A t \in Starters : PlaceOK(t)'
  <2>1. PlaceOK(s) /\ (Both => Both')
    BY DEF SplitInv, SplitTypeOK, PlaceOK
  <2>2. control' \in Database /\ default' = default
    BY DEF SplitInv, SplitTypeOK
  <2>3. PlaceOK(s)'
    <3>1. /\ starter'[s].at = (IF starter[s].splits THEN "role" ELSE "default")
          /\ starter'[s].splits = starter[s].splits
      BY <1>2 DEF SplitInv, SplitTypeOK
    <3>2. starter'[s].splits => legacy' /\ default' = NoFile
      BY <2>1, <2>2, <3>1 DEF PlaceOK
    <3>3. ~starter'[s].splits => (legacy' => Both')
      BY <2>1, <2>2, <3>1 DEF PlaceOK
    <3>4. control' # NoFile
      BY <2>2
    <3> HIDE DEF MakeControl, Both
    <3>5. QED
      BY <3>1, <3>2, <3>3, <3>4 DEF PlaceOK
  <2>4. QED
    BY <1>2, <2>1, <2>3, Frame
<1>4. Alone'
  BY <1>1, <1>2 DEF SplitInv, SplitTypeOK, PlaceOK, Alone, Serves
<1>5. FilesOK'
  BY <1>1, <1>2 DEF SplitInv, SplitTypeOK, PlaceOK, FilesOK
<1>6. StrippedOK'
  BY <1>1, <1>2 DEF SplitInv, SplitTypeOK, PlaceOK, Alone, StrippedOK, Serves
<1>7. CopiesOK'
  BY <1>1, <1>2 DEF SplitInv, SplitTypeOK, PlaceOK, Alone, CopiesOK
<1>8. QED
  BY <1>1, <1>3, <1>4, <1>5, <1>6, <1>7 DEF SplitInv

LEMMA SetRoleKeepsSplit ==
    ASSUME SplitInv, NEW s \in Starters, SetRole(s)
    PROVE  SplitInv'
<1>1. SplitTypeOK'
  <2>1. control' \in Database \cup {NoFile}
    BY Files DEF SetRole, SplitInv, SplitTypeOK, PlaceOK, At
  <2>2. starter' \in [Starters -> [at : Places, splits : BOOLEAN]]
    BY Moves DEF SetRole, SplitInv, Places
  <2>3. QED
    BY <2>1, <2>2 DEF SetRole, SplitInv, SplitTypeOK
<1> USE DEF SetRole, GoTo, At, Stopped, Fresh, Places, Database, Both, Prepares
<1>2. /\ starter[s] \in [at : Places, splits : BOOLEAN]
      /\ starter'[s] \in [at : Places, splits : BOOLEAN]
      /\ \A t \in Starters \ {s} : starter'[t] = starter[t]
  BY <1>1 DEF SplitInv, SplitTypeOK
<1>3. \A t \in Starters : PlaceOK(t)'
  BY <1>1, <1>2 DEF SplitInv, SplitTypeOK, PlaceOK, Alone, Serves
<1>4. Alone'
  BY <1>1, <1>2 DEF SplitInv, SplitTypeOK, PlaceOK, Alone, Serves
<1>5. FilesOK'
  BY <1>1, <1>2 DEF SplitInv, SplitTypeOK, PlaceOK, FilesOK
<1>6. StrippedOK'
  BY <1>1, <1>2 DEF SplitInv, SplitTypeOK, PlaceOK, Alone, StrippedOK, Serves
<1>7. CopiesOK'
  BY <1>1, <1>2 DEF SplitInv, SplitTypeOK, PlaceOK, Alone, CopiesOK
<1>8. QED
  BY <1>1, <1>3, <1>4, <1>5, <1>6, <1>7 DEF SplitInv

LEMMA MakeDefaultKeepsSplit ==
    ASSUME SplitInv, NEW s \in Starters, MakeDefault(s)
    PROVE  SplitInv'
<1>1. SplitTypeOK'
  <2>1. default' \in Database \cup {NoFile}
    BY Files DEF MakeDefault, SplitInv, SplitTypeOK
  <2>2. starter' \in [Starters -> [at : Places, splits : BOOLEAN]]
    BY Moves DEF MakeDefault, SplitInv, Places
  <2>3. QED
    BY <2>1, <2>2 DEF MakeDefault, SplitInv, SplitTypeOK
<1> USE DEF MakeDefault, GoTo, At, Stopped, Fresh, Places, Database, Both, Prepares
<1>2. /\ starter[s] \in [at : Places, splits : BOOLEAN]
      /\ starter'[s] \in [at : Places, splits : BOOLEAN]
      /\ \A t \in Starters \ {s} : starter'[t] = starter[t]
  BY <1>1 DEF SplitInv, SplitTypeOK
<1>3. \A t \in Starters : PlaceOK(t)'
  <2>1. PlaceOK(s) /\ (Both => Both')
    BY DEF SplitInv, SplitTypeOK, PlaceOK
  <2>2. default' \in Database /\ control' = control
    BY DEF SplitInv, SplitTypeOK
  <2>3. PlaceOK(s)'
    <3>1. starter'[s].at = "strip" /\ starter'[s].splits = starter[s].splits
      BY <1>2 DEF SplitInv, SplitTypeOK
    <3>2. QED
      BY <2>1, <2>2, <3>1 DEF PlaceOK
  <2>4. QED
    BY <1>2, <2>1, <2>3, Frame
<1>4. Alone'
  BY <1>1, <1>2 DEF SplitInv, SplitTypeOK, PlaceOK, Alone, Serves
<1>5. FilesOK'
  BY <1>1, <1>2 DEF SplitInv, SplitTypeOK, PlaceOK, FilesOK
<1>6. StrippedOK'
  BY <1>1, <1>2 DEF SplitInv, SplitTypeOK, PlaceOK, Alone, StrippedOK, Serves
<1>7. CopiesOK'
  BY <1>1, <1>2 DEF SplitInv, SplitTypeOK, PlaceOK, Alone, CopiesOK
<1>8. QED
  BY <1>1, <1>3, <1>4, <1>5, <1>6, <1>7 DEF SplitInv

LEMMA StripKeepsSplit ==
    ASSUME SplitInv, NEW s \in Starters, Strip(s)
    PROVE  SplitInv'
<1>1. SplitTypeOK'
  <2>1. default' \in Database \cup {NoFile}
    BY Files DEF Strip, SplitInv, SplitTypeOK, PlaceOK, At, Both
  <2>2. starter' \in [Starters -> [at : Places, splits : BOOLEAN]]
    BY Moves DEF Strip, SplitInv, Places
  <2>3. QED
    BY <2>1, <2>2 DEF Strip, SplitInv, SplitTypeOK
<1> USE DEF Strip, GoTo, At, Stopped, Fresh, Places, Database, Both, Prepares
<1>2. /\ starter[s] \in [at : Places, splits : BOOLEAN]
      /\ starter'[s] \in [at : Places, splits : BOOLEAN]
      /\ \A t \in Starters \ {s} : starter'[t] = starter[t]
  BY <1>1 DEF SplitInv, SplitTypeOK
<1>3. \A t \in Starters : PlaceOK(t)'
  <2>1. PlaceOK(s) /\ (Both => Both')
    BY DEF SplitInv, SplitTypeOK, PlaceOK
  <2>2. PlaceOK(s)'
    BY <1>1, <1>2, <2>1 DEF PlaceOK
  <2>3. QED
    BY <1>2, <2>1, <2>2, Frame
<1>4. Alone'
  <2>1. starter'[s].at # "serving" /\ starter'[s].splits = starter[s].splits
    BY <1>1, <1>2 DEF SplitInv, SplitTypeOK
  <2>2. QED
    BY <1>2, <2>1, StaysAlone DEF SplitInv
<1>5. FilesOK'
  BY <1>1, <1>2, ZenonT(40) DEF SplitInv, SplitTypeOK, PlaceOK, FilesOK
<1>6. StrippedOK'
  BY <1>1, <1>2 DEF SplitInv, SplitTypeOK, PlaceOK, Alone, StrippedOK, Serves
<1>7. CopiesOK'
  BY <1>1, <1>2 DEF SplitInv, SplitTypeOK, PlaceOK, Alone, CopiesOK
<1>8. QED
  BY <1>1, <1>3, <1>4, <1>5, <1>6, <1>7 DEF SplitInv

LEMMA EndCopiesKeepsSplit ==
    ASSUME SplitInv, NEW s \in Starters, EndCopies(s)
    PROVE  SplitInv'
<1> USE DEF EndCopies, GoTo, At, Stopped, Fresh, Places, Database, Both, Prepares
<1>1. SplitTypeOK'
  BY DEF SplitInv, SplitTypeOK, PlaceOK
<1>2. /\ starter[s] \in [at : Places, splits : BOOLEAN]
      /\ starter'[s] \in [at : Places, splits : BOOLEAN]
      /\ \A t \in Starters \ {s} : starter'[t] = starter[t]
  BY <1>1 DEF SplitInv, SplitTypeOK
<1>3. \A t \in Starters : PlaceOK(t)'
  BY <1>1, <1>2 DEF SplitInv, SplitTypeOK, PlaceOK, Alone, Serves
<1>4. Alone'
  BY <1>1, <1>2 DEF SplitInv, SplitTypeOK, PlaceOK, Alone, Serves
<1>5. FilesOK'
  BY <1>1, <1>2 DEF SplitInv, SplitTypeOK, PlaceOK, FilesOK
<1>6. StrippedOK'
  BY <1>1, <1>2 DEF SplitInv, SplitTypeOK, PlaceOK, Alone, StrippedOK, Serves
<1>7. CopiesOK'
  BY <1>1, <1>2 DEF SplitInv, SplitTypeOK, PlaceOK, Alone, CopiesOK
<1>8. QED
  BY <1>1, <1>3, <1>4, <1>5, <1>6, <1>7 DEF SplitInv

LEMMA WriteMarkerKeepsSplit ==
    ASSUME SplitInv, NEW s \in Starters, WriteMarker(s)
    PROVE  SplitInv'
<1> USE DEF WriteMarker, GoTo, At, Stopped, Fresh, Places, Database, Both, Prepares
<1>1. SplitTypeOK'
  BY DEF SplitInv, SplitTypeOK, PlaceOK
<1>2. /\ starter[s] \in [at : Places, splits : BOOLEAN]
      /\ starter'[s] \in [at : Places, splits : BOOLEAN]
      /\ \A t \in Starters \ {s} : starter'[t] = starter[t]
  BY <1>1 DEF SplitInv, SplitTypeOK
<1>3. \A t \in Starters : PlaceOK(t)'
  BY <1>1, <1>2 DEF SplitInv, SplitTypeOK, PlaceOK, Alone, Serves
<1>4. Alone'
  BY <1>1, <1>2 DEF SplitInv, SplitTypeOK, PlaceOK, Alone, Serves
<1>5. FilesOK'
  BY <1>1, <1>2 DEF SplitInv, SplitTypeOK, PlaceOK, FilesOK
<1>6. StrippedOK'
  BY <1>1, <1>2 DEF SplitInv, SplitTypeOK, PlaceOK, Alone, StrippedOK, Serves
<1>7. CopiesOK'
  BY <1>1, <1>2 DEF SplitInv, SplitTypeOK, PlaceOK, Alone, CopiesOK
<1>8. QED
  BY <1>1, <1>3, <1>4, <1>5, <1>6, <1>7 DEF SplitInv

LEMMA StopServerKeepsSplit ==
    ASSUME SplitInv, NEW s \in Starters, StopServer(s)
    PROVE  SplitInv'
<1> USE DEF StopServer, GoTo, At, Stopped, Fresh, Places, Database, Both, Prepares
<1>1. SplitTypeOK'
  BY DEF SplitInv, SplitTypeOK, PlaceOK
<1>2. /\ starter[s] \in [at : Places, splits : BOOLEAN]
      /\ starter'[s] \in [at : Places, splits : BOOLEAN]
      /\ \A t \in Starters \ {s} : starter'[t] = starter[t]
  BY <1>1 DEF SplitInv, SplitTypeOK
<1>3. \A t \in Starters : PlaceOK(t)'
  BY <1>1, <1>2 DEF SplitInv, SplitTypeOK, PlaceOK, Alone, Serves
<1>4. Alone'
  BY <1>1, <1>2 DEF SplitInv, SplitTypeOK, PlaceOK, Alone, Serves
<1>5. FilesOK'
  BY <1>1, <1>2 DEF SplitInv, SplitTypeOK, PlaceOK, FilesOK
<1>6. StrippedOK'
  BY <1>1, <1>2 DEF SplitInv, SplitTypeOK, PlaceOK, Alone, StrippedOK, Serves
<1>7. CopiesOK'
  BY <1>1, <1>2 DEF SplitInv, SplitTypeOK, PlaceOK, Alone, CopiesOK
<1>8. QED
  BY <1>1, <1>3, <1>4, <1>5, <1>6, <1>7 DEF SplitInv

LEMMA KillStartKeepsSplit ==
    ASSUME SplitInv, NEW s \in Starters, KillStart(s)
    PROVE  SplitInv'
<1> USE DEF KillStart, GoTo, At, Stopped, Fresh, Places, Database, Both, Prepares
<1>1. SplitTypeOK'
  BY DEF SplitInv, SplitTypeOK, PlaceOK
<1>2. /\ starter[s] \in [at : Places, splits : BOOLEAN]
      /\ starter'[s] \in [at : Places, splits : BOOLEAN]
      /\ \A t \in Starters \ {s} : starter'[t] = starter[t]
  BY <1>1 DEF SplitInv, SplitTypeOK
<1>3. \A t \in Starters : PlaceOK(t)'
  BY <1>1, <1>2 DEF SplitInv, SplitTypeOK, PlaceOK, Alone, Serves
<1>4. Alone'
  BY <1>1, <1>2 DEF SplitInv, SplitTypeOK, PlaceOK, Alone, Serves
<1>5. FilesOK'
  BY <1>1, <1>2 DEF SplitInv, SplitTypeOK, PlaceOK, FilesOK
<1>6. StrippedOK'
  BY <1>1, <1>2 DEF SplitInv, SplitTypeOK, PlaceOK, Alone, StrippedOK, Serves
<1>7. CopiesOK'
  BY <1>1, <1>2 DEF SplitInv, SplitTypeOK, PlaceOK, Alone, CopiesOK
<1>8. QED
  BY <1>1, <1>3, <1>4, <1>5, <1>6, <1>7 DEF SplitInv

\* What is written while serving is written to both a database and its count.
LEMMA WorkDone ==
    ASSUME SplitInv, NEW s \in Starters, Work(s)
    PROVE  /\ Both /\ control' \in Database /\ default' \in Database
           /\ control'.source = control.source /\ default'.source = default.source
           /\ default'.accounts = default.accounts
           /\ worked' \in [control : Nat, default : Nat]
           /\ control.work = worked.control /\ default.work = worked.default
           /\ control'.work = worked'.control /\ default'.work = worked'.default
<1>1. /\ Both /\ control \in Database /\ default \in Database
      /\ worked \in [control : Nat, default : Nat]
  BY DEF SplitInv, SplitTypeOK, PlaceOK, Work, At, Both
<1>2. control.work = worked.control /\ default.work = worked.default
  BY <1>1 DEF SplitInv, FilesOK, Both
<1>3. CASE /\ control' = [control EXCEPT !.work = @ + 1, !.accounts = TRUE]
           /\ worked' = [worked EXCEPT !.control = @ + 1]
           /\ UNCHANGED default
  <2> DEFINE x == [control EXCEPT !.work = @ + 1]
  <2>1. /\ x \in Database /\ x.source = control.source /\ x.work = control.work + 1
        /\ control' = [x EXCEPT !.accounts = TRUE]
    BY <1>1, <1>3 DEF Database
  <2> HIDE DEF x
  <2>2. /\ control' \in Database /\ control'.source = control.source
        /\ control'.work = control.work + 1
    BY <2>1 DEF Database
  <2>3. /\ worked' \in [control : Nat, default : Nat]
        /\ worked'.control = worked.control + 1 /\ worked'.default = worked.default
    BY <1>1, <1>3
  <2>4. QED
    BY <1>1, <1>2, <1>3, <2>1, <2>2, <2>3
<1>4. CASE /\ default' = [default EXCEPT !.work = @ + 1]
           /\ worked' = [worked EXCEPT !.default = @ + 1]
           /\ UNCHANGED control
  <2>1. /\ default' \in Database /\ default'.source = default.source
        /\ default'.work = default.work + 1 /\ default'.accounts = default.accounts
    BY <1>1, <1>4 DEF Database
  <2>2. /\ worked' \in [control : Nat, default : Nat]
        /\ worked'.default = worked.default + 1 /\ worked'.control = worked.control
    BY <1>1, <1>4
  <2>3. QED
    BY <1>1, <1>2, <1>4, <2>1, <2>2
<1>5. QED
  BY <1>3, <1>4 DEF Work

LEMMA WorkKeepsSplit ==
    ASSUME SplitInv, NEW s \in Starters, Work(s)
    PROVE  SplitInv'
<1>1. Both' /\ Both /\ UNCHANGED <<legacy, copied, starter, cut>>
  BY WorkDone DEF Work, Both
<1>2. SplitTypeOK'
  BY <1>1, WorkDone DEF SplitInv, SplitTypeOK
<1>3. \A t \in Starters : PlaceOK(t)'
  BY <1>1 DEF SplitInv, PlaceOK, Both
<1>4. Alone'
  BY <1>1 DEF SplitInv, Alone, Prepares, Serves, At
<1>5. FilesOK'
  BY <1>1, WorkDone DEF SplitInv, FilesOK, Both
<1>6. StrippedOK'
  BY <1>1, WorkDone DEF SplitInv, StrippedOK, Both
<1>7. CopiesOK'
  BY <1>1 DEF SplitInv, CopiesOK, Both
<1>8. QED
  BY <1>2, <1>3, <1>4, <1>5, <1>6, <1>7 DEF SplitInv

LEMMA CopyDirectoryKeepsSplit ==
    ASSUME SplitInv, NEW s \in Starters, NEW d \in Directories, CopyDirectory(s, d)
    PROVE  SplitInv'
BY DEF SplitInv, SplitTypeOK, PlaceOK, Alone, FilesOK, StrippedOK, CopiesOK, CopyDirectory,
       Prepares, Serves, Both, At

\* Whatever processes are killed while they prepare the storage, and however
\* often: a server that serves has both databases of one origin, the accounts
\* in the control database only, all that was written since, and the
\* directories, unless a split was killed after it had made both databases.
THEOREM SplitServed == SplitSpec => []ServedIsSplit
<1>1. SplitInit => SplitInv
  <2> SUFFICES ASSUME SplitInit PROVE SplitInv
    OBVIOUS
  <2>1. SplitTypeOK
    BY DEF SplitInit, SplitTypeOK, Places, Stopped
  <2>2. \A s \in Starters : starter[s].at = "stopped" /\ ~starter[s].splits
    BY DEF SplitInit, Stopped
  <2>3. QED
    BY <2>1, <2>2 DEF SplitInit, SplitInv, PlaceOK, Alone, FilesOK, StrippedOK, CopiesOK,
                      Prepares, Both
<1>2. SplitInv /\ [SplitNext]_splitVars => SplitInv'
  <2> SUFFICES ASSUME SplitInv, [SplitNext]_splitVars PROVE SplitInv'
    OBVIOUS
  <2>1. CASE UNCHANGED splitVars
    BY <2>1 DEF splitVars, SplitInv, SplitTypeOK, PlaceOK, Alone, FilesOK, StrippedOK, CopiesOK,
                Prepares, Serves, Both, At
  <2>2. CASE SplitNext
    BY <2>2, StartServerKeepsSplit, AsideKeepsSplit, MakeControlKeepsSplit, SetRoleKeepsSplit,
       MakeDefaultKeepsSplit, StripKeepsSplit, EndCopiesKeepsSplit, WriteMarkerKeepsSplit,
       StopServerKeepsSplit, KillStartKeepsSplit, WorkKeepsSplit, CopyDirectoryKeepsSplit
       DEF SplitNext
  <2>3. QED
    BY <2>1, <2>2
<1>3. SplitInv => ServedIsSplit
  <2> SUFFICES ASSUME SplitInv, NEW s \in Starters, At(s, "serving") PROVE ServedIsSplit
    BY DEF ServedIsSplit
  <2>1. Both
    BY DEF SplitInv, PlaceOK, At
  <2>2. FilesOK /\ default.accounts \in BOOLEAN /\ ~default.accounts
    BY <2>1 DEF SplitInv, SplitTypeOK, StrippedOK, Both, At, Database
  <2>3. legacy /\ ~cut => copied = Directories
    BY <2>1 DEF SplitInv, CopiesOK, Alone, Prepares, Serves, At
  <2>4. QED
    BY <2>1, <2>2, <2>3 DEF ServedIsSplit, FilesOK, Both
<1>4. QED
  BY <1>1, <1>2, <1>3, PTL DEF SplitSpec

USE ControlAssumption DEF ControlAssumption

-----------------------------------------------------------------------------
(* The control database: its columns.                                       *)

LEMMA DatabaseColumns ==
    ASSUME NEW d \in ControlDatabase
    PROVE  /\ d.users \in [Users -> {"none", "active", "inactive"}] /\ d.password \in [Users -> Nat]
           /\ d.sessions \subseteq Session
           /\ d.rows \in [Projects -> {"none", "ACTIVE", "INACTIVE"}]
           /\ d.members \in [Projects -> SUBSET Users]
BY DEF ControlDatabase

Columns(d, users, password, sessions, rows, members) ==
    /\ d.users = users /\ d.password = password /\ d.sessions = sessions
    /\ d.rows = rows /\ d.members = members

LEMMA SetUsers ==
    ASSUME NEW d \in ControlDatabase, NEW x \in [Users -> {"none", "active", "inactive"}]
    PROVE  /\ [d EXCEPT !.users = x] \in ControlDatabase
           /\ Columns([d EXCEPT !.users = x], x, d.password, d.sessions, d.rows, d.members)
BY DEF ControlDatabase, Columns

LEMMA SetPasswords ==
    ASSUME NEW d \in ControlDatabase, NEW x \in [Users -> Nat]
    PROVE  /\ [d EXCEPT !.password = x] \in ControlDatabase
           /\ Columns([d EXCEPT !.password = x], d.users, x, d.sessions, d.rows, d.members)
BY DEF ControlDatabase, Columns

LEMMA SetSessions ==
    ASSUME NEW d \in ControlDatabase, NEW x \in SUBSET Session
    PROVE  /\ [d EXCEPT !.sessions = x] \in ControlDatabase
           /\ Columns([d EXCEPT !.sessions = x], d.users, d.password, x, d.rows, d.members)
BY DEF ControlDatabase, Columns

LEMMA SetRows ==
    ASSUME NEW d \in ControlDatabase, NEW x \in [Projects -> {"none", "ACTIVE", "INACTIVE"}]
    PROVE  /\ [d EXCEPT !.rows = x] \in ControlDatabase
           /\ Columns([d EXCEPT !.rows = x], d.users, d.password, d.sessions, x, d.members)
BY DEF ControlDatabase, Columns

LEMMA SetMembers ==
    ASSUME NEW d \in ControlDatabase, NEW x \in [Projects -> SUBSET Users]
    PROVE  /\ [d EXCEPT !.members = x] \in ControlDatabase
           /\ Columns([d EXCEPT !.members = x], d.users, d.password, d.sessions, d.rows, x)
BY DEF ControlDatabase, Columns

StoreState == {"none", "database", "project"}
LoginRow == {LoggedOut} \cup [user : {{u} : u \in Users}, password : Nat]
SavedRegistry == [at : {"saved", "copied", "merged"}, rows : [Projects -> {"none", "ACTIVE", "INACTIVE"}],
    members : [Projects -> SUBSET Users], stores : SUBSET Projects, safety : ControlDatabase]

ControlTypeOK ==
    /\ db \in ControlDatabase /\ bundle \in ControlDatabase \cup {NoBundle}
    /\ store \in [Projects -> StoreState]
    /\ login \in [Clients -> LoginRow]
    /\ making \in [project : Projects \cup {NoProject}, failed : BOOLEAN]
    /\ making # NotMaking => making.project \in Projects
    /\ restoring \in SavedRegistry \cup {NotRestoring}
    /\ restoring # NotRestoring => bundle # NoBundle /\ ~serving
    /\ serving \in BOOLEAN /\ changes \in Nat
    /\ ~serving => making = NotMaking
    /\ kept \in [rows : [Projects -> {"none", "ACTIVE", "INACTIVE"}],
                 members : [Projects -> SUBSET Users], cut : BOOLEAN]

\* What each transaction does to the columns.
LEMMA CreateUserDoes ==
    ASSUME ControlTypeOK, NEW u \in Users, CreateUser(u)
    PROVE  /\ db' \in ControlDatabase
           /\ Columns(db', [db.users EXCEPT ![u] = "active"], [db.password EXCEPT ![u] = changes],
                      db.sessions, db.rows, db.members)
<1> DEFINE x == [db.users EXCEPT ![u] = "active"]
           y == [db.password EXCEPT ![u] = changes]
           d == [db EXCEPT !.users = x]
<1>1. x \in [Users -> {"none", "active", "inactive"}] /\ y \in [Users -> Nat]
  BY DatabaseColumns DEF ControlTypeOK
<1>2. db' = [d EXCEPT !.password = y]
  BY DEF CreateUser, ControlTypeOK, ControlDatabase
<1> HIDE DEF x, y
<1>3. d \in ControlDatabase /\ Columns(d, x, db.password, db.sessions, db.rows, db.members)
  BY <1>1, SetUsers DEF ControlTypeOK
<1> HIDE DEF d
<1>4. db' \in ControlDatabase /\ Columns(db', x, y, db.sessions, db.rows, db.members)
  BY <1>1, <1>2, <1>3, SetPasswords DEF Columns
<1>5. QED
  BY <1>4 DEF x, y

LEMMA DisableUserDoes ==
    ASSUME ControlTypeOK, NEW u \in Users, DisableUser(u)
    PROVE  /\ db' \in ControlDatabase
           /\ Columns(db', [db.users EXCEPT ![u] = "inactive"], db.password,
                      db.sessions \ SessionsOf(u), db.rows, db.members)
<1> DEFINE x == [db.users EXCEPT ![u] = "inactive"]
           y == db.sessions \ SessionsOf(u)
           d == [db EXCEPT !.users = x]
<1>1. x \in [Users -> {"none", "active", "inactive"}] /\ y \in SUBSET Session
  BY DatabaseColumns DEF ControlTypeOK
<1>2. db' = [d EXCEPT !.sessions = y]
  BY DEF DisableUser, ControlTypeOK, ControlDatabase
<1> HIDE DEF x, y
<1>3. d \in ControlDatabase /\ Columns(d, x, db.password, db.sessions, db.rows, db.members)
  BY <1>1, SetUsers DEF ControlTypeOK
<1> HIDE DEF d
<1>4. QED
  BY <1>1, <1>2, <1>3, SetSessions DEF Columns, x, y

LEMMA SetPasswordDoes ==
    ASSUME ControlTypeOK, NEW u \in Users, SetPassword(u)
    PROVE  /\ db' \in ControlDatabase
           /\ Columns(db', db.users, [db.password EXCEPT ![u] = changes],
                      db.sessions \ SessionsOf(u), db.rows, db.members)
<1> DEFINE x == [db.password EXCEPT ![u] = changes]
           y == db.sessions \ SessionsOf(u)
           d == [db EXCEPT !.password = x]
<1>1. x \in [Users -> Nat] /\ y \in SUBSET Session
  BY DatabaseColumns DEF ControlTypeOK
<1>2. db' = [d EXCEPT !.sessions = y]
  BY DEF SetPassword, ControlTypeOK, ControlDatabase
<1> HIDE DEF x, y
<1>3. d \in ControlDatabase /\ Columns(d, db.users, x, db.sessions, db.rows, db.members)
  BY <1>1, SetPasswords DEF ControlTypeOK
<1> HIDE DEF d
<1>4. QED
  BY <1>1, <1>2, <1>3, SetSessions DEF Columns, x, y

LEMMA OtherAccountsDo ==
    ASSUME ControlTypeOK,
           \/ \E u \in Users : EnableUser(u)
           \/ \E s \in db.sessions : EndSession(s)
    PROVE  /\ db' \in ControlDatabase
           /\ \/ \E u \in Users : Columns(db', [db.users EXCEPT ![u] = "active"], db.password,
                                          db.sessions, db.rows, db.members)
              \/ \E s \in db.sessions : Columns(db', db.users, db.password, db.sessions \ {s},
                                                db.rows, db.members)
<1>1. ASSUME NEW u \in Users, EnableUser(u)
      PROVE  db' \in ControlDatabase /\ Columns(db', [db.users EXCEPT ![u] = "active"], db.password,
                                          db.sessions, db.rows, db.members)
  <2> DEFINE x == [db.users EXCEPT ![u] = "active"]
  <2>1. x \in [Users -> {"none", "active", "inactive"}] /\ db' = [db EXCEPT !.users = x]
    BY <1>1, DatabaseColumns DEF ControlTypeOK, EnableUser, ControlDatabase
  <2> HIDE DEF x
  <2>2. QED
    BY <2>1, SetUsers DEF ControlTypeOK, x
<1>2. ASSUME NEW s \in db.sessions, EndSession(s)
      PROVE  db' \in ControlDatabase /\ Columns(db', db.users, db.password, db.sessions \ {s},
                                                db.rows, db.members)
  <2> DEFINE x == db.sessions \ {s}
  <2>1. x \in SUBSET Session /\ db' = [db EXCEPT !.sessions = x]
    BY <1>2, DatabaseColumns DEF ControlTypeOK, EndSession, ControlDatabase
  <2> HIDE DEF x
  <2>2. QED
    BY <2>1, SetSessions DEF ControlTypeOK, x
<1>3. QED
  BY <1>1, <1>2

LEMMA OpenSessionDoes ==
    ASSUME ControlTypeOK, NEW c \in Clients, OpenSession(c)
    PROVE  \/ db' = db
           \/ \E rest \in SUBSET db.sessions, new \in Session :
                 /\ db' \in ControlDatabase
                 /\ Columns(db', db.users, db.password, rest \cup {new}, db.rows, db.members)
                 /\ IsActive(new.user) /\ (new.late \/ new.password = db.password[new.user])
<1>1. PICK v \in Users, n \in Nat : login[c] = [user |-> {v}, password |-> n]
  <2>1. login[c] \in LoginRow /\ login[c] # LoggedOut
    BY DEF OpenSession, ControlTypeOK
  <2>2. login[c] \in [user : {{u} : u \in Users}, password : Nat]
    BY <2>1 DEF LoginRow
  <2>3. QED
    BY <2>2
<1> DEFINE u == CHOOSE w \in Users : login[c].user = {w}
           new == [opened |-> changes, user |-> u, password |-> login[c].password,
                   late |-> login[c].password # db.password[u]]
<1>2. u = v
  BY <1>1, SMTT(30)
<1>3. PICK rest \in SUBSET db.sessions :
        db' = db \/ (IsActive(u) /\ db' = [db EXCEPT !.sessions = rest \cup {new}])
  <2> HIDE DEF u, new
  <2>1. CASE ~IsActive(u) /\ UNCHANGED db
    BY <2>1
  <2>2. CASE IsActive(u) /\ db' = [db EXCEPT !.sessions = @ \cup {new}]
    BY <2>2
  <2>3. CASE /\ IsActive(u)
             /\ \E old \in SessionsOf(u) : db' = [db EXCEPT !.sessions = (@ \ {old}) \cup {new}]
    BY <2>3
  <2>4. QED
    BY <2>1, <2>2, <2>3 DEF OpenSession, u, new
<1>4. new \in Session /\ new.user = u
      /\ (new.late \/ new.password = db.password[new.user])
  <2>1. u \in Users /\ changes \in Nat /\ login[c].password \in Nat
    BY <1>1, <1>2 DEF ControlTypeOK
  <2> HIDE DEF u
  <2>2. QED
    BY <2>1 DEF Session
<1> HIDE DEF new
<1> DEFINE x == rest \cup {new}
<1>5. x \in SUBSET Session
  BY <1>4, DatabaseColumns DEF ControlTypeOK
<1>6. ASSUME db' # db
      PROVE  /\ IsActive(new.user) /\ db' \in ControlDatabase
             /\ Columns(db', db.users, db.password, x, db.rows, db.members)
  <2>1. IsActive(u) /\ db' = [db EXCEPT !.sessions = x]
    BY <1>3, <1>6
  <2> HIDE DEF x, u
  <2>2. QED
    BY <1>4, <1>5, <2>1, SetSessions DEF ControlTypeOK
<1> HIDE DEF u
<1>7. QED
  BY <1>4, <1>6

LEMMA RegisterProjectDoes ==
    ASSUME ControlTypeOK, NEW p \in Projects, NEW u \in Users, RegisterProject(p, u)
    PROVE  /\ db' \in ControlDatabase
           /\ Columns(db', db.users, db.password, db.sessions,
                      [db.rows EXCEPT ![p] = "ACTIVE"], [db.members EXCEPT ![p] = {u}])
<1> DEFINE x == [db.rows EXCEPT ![p] = "ACTIVE"]
           y == [db.members EXCEPT ![p] = {u}]
           d == [db EXCEPT !.rows = x]
<1>1. x \in [Projects -> {"none", "ACTIVE", "INACTIVE"}] /\ y \in [Projects -> SUBSET Users]
  BY DatabaseColumns DEF ControlTypeOK
<1>2. db' = [d EXCEPT !.members = y]
  BY DEF RegisterProject, ControlTypeOK, ControlDatabase
<1> HIDE DEF x, y
<1>3. d \in ControlDatabase /\ Columns(d, db.users, db.password, db.sessions, x, db.members)
  BY <1>1, SetRows DEF ControlTypeOK
<1> HIDE DEF d
<1>4. db' \in ControlDatabase /\ Columns(db', db.users, db.password, db.sessions, x, y)
  BY <1>1, <1>2, <1>3, SetMembers DEF Columns
<1>5. QED
  BY <1>4 DEF x, y

LEMMA FailProjectDoes ==
    ASSUME ControlTypeOK, NEW p \in Projects, p = making.project, FailProject
    PROVE  /\ db' \in ControlDatabase
           /\ Columns(db', db.users, db.password, db.sessions,
                      [db.rows EXCEPT ![p] = "none"], [db.members EXCEPT ![p] = {}])
<1> DEFINE x == [db.rows EXCEPT ![p] = "none"]
           y == [db.members EXCEPT ![p] = {}]
           d == [db EXCEPT !.rows = x]
<1>1. x \in [Projects -> {"none", "ACTIVE", "INACTIVE"}] /\ y \in [Projects -> SUBSET Users]
  BY DatabaseColumns DEF ControlTypeOK
<1>2. db' = [d EXCEPT !.members = y]
  BY DEF FailProject, ControlTypeOK, ControlDatabase
<1> HIDE DEF x, y
<1>3. d \in ControlDatabase /\ Columns(d, db.users, db.password, db.sessions, x, db.members)
  BY <1>1, SetRows DEF ControlTypeOK
<1> HIDE DEF d
<1>4. db' \in ControlDatabase /\ Columns(db', db.users, db.password, db.sessions, x, y)
  BY <1>1, <1>2, <1>3, SetMembers DEF Columns
<1>5. QED
  BY <1>4 DEF x, y

LEMMA SetStatusDoes ==
    ASSUME ControlTypeOK, NEW p \in Projects, NEW st \in {"ACTIVE", "INACTIVE"}, SetStatus(p, st)
    PROVE  /\ db' \in ControlDatabase
           /\ Columns(db', db.users, db.password, db.sessions, [db.rows EXCEPT ![p] = st], db.members)
<1> DEFINE x == [db.rows EXCEPT ![p] = st]
<1>1. x \in [Projects -> {"none", "ACTIVE", "INACTIVE"}] /\ db' = [db EXCEPT !.rows = x]
  BY DatabaseColumns DEF ControlTypeOK, SetStatus, ControlDatabase
<1> HIDE DEF x
<1>2. QED
  BY <1>1, SetRows DEF ControlTypeOK, x

LEMMA SetMemberDoes ==
    ASSUME ControlTypeOK, NEW p \in Projects, NEW u \in Users, NEW m \in BOOLEAN, SetMember(p, u, m)
    PROVE  /\ db' \in ControlDatabase
           /\ \E x : Columns(db', db.users, db.password, db.sessions, db.rows, x)
<1> DEFINE x == [db.members EXCEPT ![p] = IF m THEN @ \cup {u} ELSE @ \ {u}]
<1>1. x \in [Projects -> SUBSET Users] /\ db' = [db EXCEPT !.members = x]
  BY DatabaseColumns DEF ControlTypeOK, SetMember, ControlDatabase
<1> HIDE DEF x
<1>2. QED
  BY <1>1, SetMembers DEF ControlTypeOK

LEMMA CreateBundleDoes ==
    ASSUME ControlTypeOK, CreateBundle
    PROVE  /\ bundle' \in ControlDatabase
           /\ Columns(bundle', db.users, db.password, {}, db.rows, db.members)
BY SetSessions DEF ControlTypeOK, CreateBundle

LEMMA MergeDoes ==
    ASSUME ControlTypeOK, MergeRegistry
    PROVE  /\ db' \in ControlDatabase
           /\ Columns(db', db.users, db.password, db.sessions, [p \in Projects |-> Registered(p)],
                [p \in Projects |-> db.members[p] \cup
                    {u \in restoring.members[p] : Registered(p) # "none" /\ HasAccount(u)}])
<1> DEFINE x == [p \in Projects |-> Registered(p)]
           y == [p \in Projects |-> db.members[p] \cup
                    {u \in restoring.members[p] : Registered(p) # "none" /\ HasAccount(u)}]
           d == [db EXCEPT !.rows = x]
<1>1. x \in [Projects -> {"none", "ACTIVE", "INACTIVE"}] /\ y \in [Projects -> SUBSET Users]
  BY DatabaseColumns DEF ControlTypeOK, MergeRegistry, NotRestoring, SavedRegistry, Registered
<1>2. db' = [d EXCEPT !.members = y]
  BY DEF MergeRegistry, ControlTypeOK, ControlDatabase
<1> HIDE DEF x, y
<1>3. d \in ControlDatabase /\ Columns(d, db.users, db.password, db.sessions, x, db.members)
  BY <1>1, SetRows DEF ControlTypeOK
<1> HIDE DEF d
<1>4. db' \in ControlDatabase /\ Columns(db', db.users, db.password, db.sessions, x, y)
  BY <1>1, <1>2, <1>3, SetMembers DEF Columns
<1>5. QED
  BY <1>4 DEF x, y

\* Every step on accounts and memberships leaves the registry.
AccountsOnly ==
    /\ db' = db \/ (db' \in ControlDatabase /\ db'.rows = db.rows)
    /\ UNCHANGED <<store, making, bundle, restoring, serving, stops, kept>>
    /\ changes' = changes + 1

LEMMA AccountSteps ==
    ASSUME ControlTypeOK,
           \/ AccountNext
           \/ \E p \in Projects, u \in Users, m \in BOOLEAN : SetMember(p, u, m)
    PROVE  AccountsOnly /\ serving /\ login' \in [Clients -> LoginRow]
<1>1. ASSUME NEW u \in Users, CreateUser(u) PROVE AccountsOnly /\ serving /\ login' = login
  BY <1>1, CreateUserDoes DEF CreateUser, Change, AccountsOnly, Columns
<1>2. ASSUME NEW u \in Users, DisableUser(u) PROVE AccountsOnly /\ serving /\ login' = login
  BY <1>2, DisableUserDoes DEF DisableUser, Change, AccountsOnly, Columns
<1>3. ASSUME NEW u \in Users, SetPassword(u) PROVE AccountsOnly /\ serving /\ login' = login
  BY <1>3, SetPasswordDoes DEF SetPassword, Change, AccountsOnly, Columns
<1>4. ASSUME NEW u \in Users, EnableUser(u) PROVE AccountsOnly /\ serving /\ login' = login
  BY <1>4, OtherAccountsDo DEF EnableUser, Change, AccountsOnly, Columns
<1>5. ASSUME NEW s \in db.sessions, EndSession(s) PROVE AccountsOnly /\ serving /\ login' = login
  BY <1>5, OtherAccountsDo DEF EndSession, Change, AccountsOnly, Columns
<1>6. ASSUME NEW p \in Projects, NEW u \in Users, NEW m \in BOOLEAN, SetMember(p, u, m)
      PROVE  AccountsOnly /\ serving /\ login' = login
  BY <1>6, SetMemberDoes DEF SetMember, Change, AccountsOnly, Columns
<1>7. ASSUME NEW c \in Clients, OpenSession(c) PROVE AccountsOnly /\ serving /\ login' \in [Clients -> LoginRow]
  <2>1. AccountsOnly /\ serving
    BY <1>7, OpenSessionDoes DEF OpenSession, Change, AccountsOnly, Columns
  <2>2. login' \in [Clients -> LoginRow]
    BY <1>7 DEF OpenSession, ControlTypeOK, LoginRow
  <2>3. QED
    BY <2>1, <2>2
<1>8. ASSUME NEW c \in Clients, NEW u \in Users, CheckPassword(c, u)
      PROVE  AccountsOnly /\ serving /\ login' \in [Clients -> LoginRow]
  <2>1. AccountsOnly /\ serving
    BY <1>8 DEF CheckPassword, Change, AccountsOnly
  <2>2. db.password[u] \in Nat
    BY DatabaseColumns DEF ControlTypeOK
  <2>3. login' \in [Clients -> LoginRow]
    BY <1>8, <2>2 DEF CheckPassword, ControlTypeOK, LoginRow
  <2>4. QED
    BY <2>1, <2>3
<1>9. login \in [Clients -> LoginRow]
  BY DEF ControlTypeOK
<1>10. QED
  BY <1>1, <1>2, <1>3, <1>4, <1>5, <1>6, <1>7, <1>8, <1>9 DEF AccountNext

LEMMA ControlNextTyped == ControlTypeOK /\ [ControlNext]_controlVars => ControlTypeOK'
<1> SUFFICES ASSUME ControlTypeOK, [ControlNext]_controlVars PROVE ControlTypeOK'
  OBVIOUS
<1> USE DEF NotRestoring, NotMaking
<1>1. CASE AccountNext \/ \E p \in Projects, u \in Users, m \in BOOLEAN : SetMember(p, u, m)
  <2>1. AccountsOnly /\ login' \in [Clients -> LoginRow]
    BY <1>1, AccountSteps
  <2>2. QED
    BY <2>1 DEF AccountsOnly, ControlTypeOK
<1>2. ASSUME NEW p \in Projects, NEW st \in {"ACTIVE", "INACTIVE"}, SetStatus(p, st) PROVE ControlTypeOK'
  <2>1. db' \in ControlDatabase
    BY <1>2, SetStatusDoes
  <2>2. QED
    BY <1>2, <2>1 DEF SetStatus, Change, ControlTypeOK
<1>3. ASSUME NEW p \in Projects, NEW u \in Users, RegisterProject(p, u) PROVE ControlTypeOK'
  <2>1. db' \in ControlDatabase
    BY <1>3, RegisterProjectDoes
  <2>2. QED
    BY <1>3, <2>1 DEF RegisterProject, Change, ControlTypeOK
<1>4. CASE MakeStore
  BY <1>4 DEF MakeStore, ControlTypeOK, StoreState
<1>5. CASE FailProject
  BY <1>5, FailProjectDoes DEF FailProject, ControlTypeOK
<1>6. CASE RemoveStore
  BY <1>6 DEF RemoveStore, ControlTypeOK, StoreState
<1>7. CASE CreateBundle
  BY <1>7, CreateBundleDoes DEF CreateBundle, ControlTypeOK
<1>8. CASE Stop \/ Serve
  <2>1. login' \in [Clients -> LoginRow]
    BY <1>8 DEF Stop, Serve, ControlTypeOK, LoginRow
  <2>2. making' = NotMaking /\ NotMaking \in [project : Projects \cup {NoProject}, failed : BOOLEAN]
    BY <1>8 DEF Stop, Serve, ControlTypeOK
  <2>3. serving' \in BOOLEAN /\ (restoring # NotRestoring => ~serving')
    BY <1>8 DEF Stop, Serve, ControlTypeOK
  <2>4. QED
    BY <1>8, <2>1, <2>2, <2>3 DEF Stop, Serve, ControlTypeOK
<1>9. CASE StartRestore
  <2>1. restoring' \in SavedRegistry
    BY <1>9, DatabaseColumns DEF StartRestore, ControlTypeOK, SavedRegistry
  <2>2. QED
    BY <1>9, <2>1, DatabaseColumns DEF StartRestore, ControlTypeOK
<1>10. CASE CopyDatabase
  BY <1>10 DEF CopyDatabase, ControlTypeOK, SavedRegistry
<1>11. CASE MergeRegistry
  BY <1>11, MergeDoes DEF MergeRegistry, ControlTypeOK, SavedRegistry
<1>12. CASE EndRestore
  BY <1>12 DEF EndRestore, ControlTypeOK
<1>13. CASE FailRestore
  BY <1>13 DEF FailRestore, ControlTypeOK, SavedRegistry
<1>14. CASE KillRestore
  BY <1>14 DEF KillRestore, ControlTypeOK
<1>15. CASE UNCHANGED controlVars
  BY <1>15 DEF controlVars, ControlTypeOK
<1>16. QED
  BY <1>1, <1>2, <1>3, <1>4, <1>5, <1>6, <1>7, <1>8, <1>9, <1>10, <1>11, <1>12, <1>13, <1>14, <1>15
     DEF ControlNext, ProjectNext, RestoreNext

-----------------------------------------------------------------------------
(* Access: in the database, in the bundle and in what a restore keeps.      *)

AccessOK(d) ==
    /\ \E u \in Admins : d.users[u] = "active"
    /\ \A s \in d.sessions :
          d.users[s.user] = "active" /\ (s.late \/ s.password = d.password[s.user])

AccessInv ==
    /\ AccessOK(db)
    /\ bundle # NoBundle => AccessOK(bundle) /\ bundle.sessions = {}
    /\ restoring # NotRestoring => AccessOK(restoring.safety)

\* Fewer sessions, and accounts and passwords as they were.
LEMMA AccessOfFewer ==
    ASSUME NEW d, NEW e, AccessOK(d), e.users = d.users, e.password = d.password,
           e.sessions \subseteq d.sessions
    PROVE  AccessOK(e)
BY DEF AccessOK

LEMMA AccountsKeepAccess ==
    ASSUME ControlTypeOK, AccessInv,
           \/ AccountNext
           \/ \E p \in Projects, u \in Users, m \in BOOLEAN : SetMember(p, u, m)
    PROVE  AccessOK(db')
<1> USE DEF Columns, AccessOK
<1>1. /\ AccessOK(db) /\ db \in ControlDatabase
      /\ db.users \in [Users -> {"none", "active", "inactive"}] /\ db.password \in [Users -> Nat]
      /\ \A s \in db.sessions : s.user \in Users
  BY DatabaseColumns DEF AccessInv, ControlTypeOK, Session
<1>2. ASSUME NEW u \in Users, CreateUser(u) PROVE AccessOK(db')
  <2>1. db.users[u] = "none" /\ \A s \in db.sessions : s.user # u
    BY <1>1, <1>2 DEF CreateUser, HasAccount
  <2>2. /\ db'.users = [db.users EXCEPT ![u] = "active"]
        /\ db'.password = [db.password EXCEPT ![u] = changes] /\ db'.sessions = db.sessions
    BY <1>2, CreateUserDoes
  <2>3. QED
    BY <1>1, <2>1, <2>2
<1>3. ASSUME NEW u \in Users, DisableUser(u) PROVE AccessOK(db')
  <2>1. \E v \in Admins \ {u} : db.users[v] = "active"
    BY <1>1, <1>3 DEF DisableUser, IsActive
  <2>2. /\ db'.users = [db.users EXCEPT ![u] = "inactive"] /\ db'.password = db.password
        /\ \A s \in db'.sessions : s \in db.sessions /\ s.user # u
    BY <1>3, DisableUserDoes DEF SessionsOf
  <2>3. QED
    BY <1>1, <2>1, <2>2
<1>4. ASSUME NEW u \in Users, SetPassword(u) PROVE AccessOK(db')
  <2>1. /\ db'.users = db.users /\ db'.password = [db.password EXCEPT ![u] = changes]
        /\ \A s \in db'.sessions : s \in db.sessions /\ s.user # u
    BY <1>4, SetPasswordDoes DEF SessionsOf
  <2>2. QED
    BY <1>1, <2>1
<1>5. ASSUME \/ \E u \in Users : EnableUser(u)
             \/ \E s \in db.sessions : EndSession(s)
      PROVE  AccessOK(db')
  <2>1. ASSUME NEW u \in Users, Columns(db', [db.users EXCEPT ![u] = "active"], db.password,
                                          db.sessions, db.rows, db.members)
        PROVE  AccessOK(db')
    BY <1>1, <2>1
  <2>2. ASSUME NEW s \in db.sessions, Columns(db', db.users, db.password, db.sessions \ {s},
                                                db.rows, db.members)
        PROVE  AccessOK(db')
    BY <1>1, <2>2
  <2> HIDE DEF Columns, AccessOK
  <2>3. QED
    BY <1>5, <2>1, <2>2, OtherAccountsDo
<1>6. ASSUME NEW c \in Clients, NEW u \in Users, CheckPassword(c, u) PROVE AccessOK(db')
  BY <1>1, <1>6 DEF CheckPassword
<1>7. ASSUME NEW c \in Clients, OpenSession(c) PROVE AccessOK(db')
  <2>1. ASSUME NEW rest \in SUBSET db.sessions, NEW new \in Session,
               Columns(db', db.users, db.password, rest \cup {new}, db.rows, db.members),
               IsActive(new.user), new.late \/ new.password = db.password[new.user]
        PROVE  AccessOK(db')
    BY <1>1, <2>1 DEF IsActive
  <2> HIDE DEF Columns
  <2>2. QED
    BY <1>1, <1>7, <2>1, OpenSessionDoes
<1>8. ASSUME NEW p \in Projects, NEW u \in Users, NEW m \in BOOLEAN, SetMember(p, u, m) PROVE AccessOK(db')
  BY <1>1, <1>8, SetMemberDoes
<1> HIDE DEF Columns, AccessOK
<1>9. QED
  BY <1>2, <1>3, <1>4, <1>5, <1>6, <1>7, <1>8 DEF AccountNext

LEMMA AccessNext == ControlTypeOK /\ AccessInv /\ [ControlNext]_controlVars => AccessInv'
<1> SUFFICES ASSUME ControlTypeOK, AccessInv, [ControlNext]_controlVars PROVE AccessInv'
  OBVIOUS
<1>1. CASE AccountNext \/ \E p \in Projects, u \in Users, m \in BOOLEAN : SetMember(p, u, m)
  <2>1. UNCHANGED <<bundle, restoring>>
    BY <1>1, AccountSteps DEF AccountsOnly
  <2>2. QED
    BY <1>1, <2>1, AccountsKeepAccess DEF AccessInv
<1>2. ASSUME UNCHANGED <<bundle, restoring>>, db'.users = db.users, db'.password = db.password,
             db'.sessions = db.sessions
      PROVE  AccessInv'
  BY <1>2, AccessOfFewer DEF AccessInv
<1>3. ASSUME NEW p \in Projects, NEW st \in {"ACTIVE", "INACTIVE"}, SetStatus(p, st) PROVE AccessInv'
  BY <1>2, <1>3, SetStatusDoes DEF SetStatus, Columns
<1>4. ASSUME NEW p \in Projects, NEW u \in Users, RegisterProject(p, u) PROVE AccessInv'
  BY <1>2, <1>4, RegisterProjectDoes DEF RegisterProject, Columns
<1>5. CASE MakeStore \/ RemoveStore \/ Stop \/ Serve \/ UNCHANGED controlVars
  BY <1>2, <1>5 DEF MakeStore, RemoveStore, Stop, Serve, controlVars
<1>6. CASE FailProject
  BY <1>2, <1>6, FailProjectDoes DEF FailProject, Columns
<1>7. CASE CreateBundle
  <2>1. bundle'.users = db.users /\ bundle'.password = db.password /\ bundle'.sessions = {}
    BY <1>7, CreateBundleDoes DEF Columns
  <2>2. AccessOK(bundle')
    BY <2>1, AccessOfFewer DEF AccessInv
  <2>3. QED
    BY <1>7, <2>1, <2>2 DEF CreateBundle, AccessInv
<1>8. CASE StartRestore
  BY <1>8 DEF StartRestore, AccessInv
<1>9. CASE CopyDatabase
  <2>1. restoring.at = "saved" /\ bundle # NoBundle /\ restoring \in SavedRegistry
    BY <1>9 DEF CopyDatabase, ControlTypeOK, NotRestoring
  <2>2. restoring'.safety = restoring.safety
    BY <1>9, <2>1 DEF CopyDatabase, SavedRegistry
  <2>3. restoring # NotRestoring
    BY <2>1 DEF NotRestoring
  <2>4. QED
    BY <1>9, <2>1, <2>2, <2>3 DEF CopyDatabase, AccessInv
<1>10. CASE MergeRegistry
  <2>1. restoring.at = "copied" /\ restoring \in SavedRegistry
    BY <1>10 DEF MergeRegistry, ControlTypeOK, NotRestoring
  <2>2. restoring'.safety = restoring.safety /\ restoring # NotRestoring
    BY <1>10, <2>1 DEF MergeRegistry, SavedRegistry, NotRestoring
  <2>3. db'.users = db.users /\ db'.password = db.password /\ db'.sessions = db.sessions
    BY <1>10, MergeDoes DEF Columns
  <2>4. QED
    BY <1>10, <2>2, <2>3, AccessOfFewer DEF MergeRegistry, AccessInv
<1>11. CASE EndRestore \/ FailRestore \/ KillRestore
  BY <1>11 DEF EndRestore, FailRestore, KillRestore, AccessInv
<1>12. QED
  BY <1>1, <1>3, <1>4, <1>5, <1>6, <1>7, <1>8, <1>9, <1>10, <1>11
     DEF ControlNext, ProjectNext, RestoreNext

LEMMA ControlTyped == ControlSpec => []ControlTypeOK
<1>1. ControlInit => ControlTypeOK
  BY DEF ControlInit, ControlTypeOK, ControlDatabase, Nothing, NoMembers, LoginRow, StoreState, NotMaking
<1>2. QED
  BY <1>1, ControlNextTyped, PTL DEF ControlSpec

\* For any accounts, browsers, projects and restores: an administrator can
\* always log in, and no session outlives its account or its password.
THEOREM AccessStaysCurrent == ControlSpec => []AccessIsCurrent
<1>1. ControlInit => AccessInv
  BY DEF ControlInit, AccessInv, AccessOK
<1>2. AccessInv => AccessIsCurrent
  BY DEF AccessInv, AccessOK, AccessIsCurrent, IsActive
<1>3. QED
  BY <1>1, <1>2, AccessNext, ControlTyped, PTL DEF ControlSpec

-----------------------------------------------------------------------------
(* The registry of projects: what a restore keeps in memory is the registry *)
(* it found, and every store that is complete was registered.               *)

Complete == {p \in Projects : store[p] = "project"}

RegistryInv ==
    /\ making # NotMaking =>
          /\ store[making.project] # "project"
          /\ ~making.failed => db.rows[making.project] # "none"
    /\ restoring # NotRestoring =>
          /\ restoring.stores = Complete
          /\ restoring.rows = kept.rows /\ restoring.members = kept.members
          /\ restoring.safety.rows = kept.rows
          /\ ~kept.cut => \A p \in Complete : kept.rows[p] # "none"
    /\ restoring.at = "copied" => db = bundle
    /\ ~kept.cut /\ restoring.at # "copied" => \A p \in Complete : db.rows[p] # "none"
    /\ RegistrySurvives

LEMMA RegistryNext == ControlTypeOK /\ RegistryInv /\ [ControlNext]_controlVars => RegistryInv'
<1> SUFFICES ASSUME ControlTypeOK, RegistryInv, [ControlNext]_controlVars PROVE RegistryInv'
  OBVIOUS
<1> USE DEF NotRestoring, NotMaking
<1>1. CASE AccountNext \/ \E p \in Projects, u \in Users, m \in BOOLEAN : SetMember(p, u, m)
  <2>1. AccountsOnly /\ serving
    BY <1>1, AccountSteps
  <2>2. QED
    BY <2>1 DEF AccountsOnly, ControlTypeOK, RegistryInv, RegistrySurvives, Complete
<1>2. ASSUME NEW p \in Projects, NEW st \in {"ACTIVE", "INACTIVE"}, SetStatus(p, st) PROVE RegistryInv'
  <2>1. db'.rows = [db.rows EXCEPT ![p] = st]
    BY <1>2, SetStatusDoes DEF Columns
  <2>2. QED
    BY <1>2, <2>1, DatabaseColumns DEF SetStatus, Change, ControlTypeOK, RegistryInv, RegistrySurvives, Complete
<1>3. ASSUME NEW p \in Projects, NEW u \in Users, RegisterProject(p, u) PROVE RegistryInv'
  <2>1. db'.rows = [db.rows EXCEPT ![p] = "ACTIVE"]
    BY <1>3, RegisterProjectDoes DEF Columns
  <2>2. QED
    BY <1>3, <2>1, DatabaseColumns DEF RegisterProject, Change, ControlTypeOK, RegistryInv, RegistrySurvives, Complete
<1>4. CASE MakeStore
  BY <1>4 DEF MakeStore, ControlTypeOK, RegistryInv, RegistrySurvives, Complete
<1>5. CASE FailProject
  <2>1. PICK p \in Projects : p = making.project
    BY <1>5 DEF FailProject, ControlTypeOK
  <2>2. db'.rows = [db.rows EXCEPT ![p] = "none"]
    BY <1>5, <2>1, FailProjectDoes DEF Columns
  <2>3. QED
    BY <1>5, <2>1, <2>2, DatabaseColumns DEF FailProject, ControlTypeOK, RegistryInv, RegistrySurvives, Complete
<1>6. CASE RemoveStore
  BY <1>6 DEF RemoveStore, ControlTypeOK, RegistryInv, RegistrySurvives, Complete
<1>7. CASE CreateBundle
  BY <1>7 DEF CreateBundle, ControlTypeOK, RegistryInv, RegistrySurvives, Complete
<1>8. CASE Stop \/ Serve
  BY <1>8 DEF Stop, Serve, ControlTypeOK, RegistryInv, RegistrySurvives, Complete
<1>9. CASE StartRestore
  BY <1>9 DEF StartRestore, ControlTypeOK, RegistryInv, RegistrySurvives, Complete
<1>10. CASE CopyDatabase
  BY <1>10 DEF CopyDatabase, ControlTypeOK, SavedRegistry, RegistryInv, RegistrySurvives, Complete
<1>11. CASE MergeRegistry
  <2>1. /\ restoring \in SavedRegistry /\ restoring.at = "copied" /\ db = bundle
        /\ bundle \in ControlDatabase /\ bundle # NoBundle /\ making = NotMaking
    BY <1>11 DEF MergeRegistry, ControlTypeOK, SavedRegistry, RegistryInv
  <2>2. /\ restoring.stores = Complete /\ restoring.rows = kept.rows
        /\ restoring.members = kept.members /\ restoring.safety.rows = kept.rows
        /\ ~kept.cut => \A p \in Complete : kept.rows[p] # "none"
    BY <2>1 DEF RegistryInv
  <2>3. /\ db'.users = db.users
        /\ db'.rows = [p \in Projects |-> Registered(p)]
        /\ db'.members = [p \in Projects |-> db.members[p] \cup
               {u \in restoring.members[p] : Registered(p) # "none" /\ HasAccount(u)}]
    BY <1>11, MergeDoes DEF Columns
  <2>4. /\ restoring'.at = "merged" /\ restoring'.stores = restoring.stores
        /\ restoring'.rows = restoring.rows /\ restoring'.members = restoring.members
        /\ restoring'.safety = restoring.safety
        /\ UNCHANGED <<store, making, bundle, kept>>
    BY <1>11, <2>1 DEF MergeRegistry, SavedRegistry
  <2>5. ASSUME NEW p \in Complete
        PROVE  /\ Registered(p) # "none"
               /\ ~kept.cut => Registered(p) \in {kept.rows[p], bundle.rows[p]}
    BY <2>1, <2>2 DEF Registered, Complete
  <2>6. ASSUME NEW p \in Complete, NEW u \in kept.members[p], HasAccount(u)'
        PROVE  u \in db'.members[p]
    BY <2>2, <2>3, <2>5, <2>6 DEF HasAccount, Complete
  <2>7. RegistrySurvives'
    BY <2>3, <2>4, <2>5, <2>6 DEF RegistrySurvives, Complete
  <2>8. QED
    BY <2>1, <2>2, <2>3, <2>4, <2>5, <2>7 DEF RegistryInv, Complete
<1>12. CASE EndRestore
  BY <1>12 DEF EndRestore, ControlTypeOK, RegistryInv, RegistrySurvives, Complete
<1>13. CASE FailRestore
  BY <1>13 DEF FailRestore, ControlTypeOK, RegistryInv, RegistrySurvives, Complete
<1>14. CASE KillRestore
  <2>1. /\ kept'.rows = kept.rows /\ kept'.members = kept.members
        /\ kept'.cut = (kept.cut \/ restoring.at = "copied")
    BY <1>14 DEF KillRestore, ControlTypeOK
  <2>2. restoring'.at = "idle" /\ restoring.at \in {"saved", "copied", "merged"}
        /\ UNCHANGED <<db, store, making, bundle>> /\ restoring' = NotRestoring
    BY <1>14 DEF KillRestore, ControlTypeOK, SavedRegistry
  <2>3. QED
    BY <2>1, <2>2 DEF RegistryInv, RegistrySurvives, Complete
<1>15. CASE UNCHANGED controlVars
  BY <1>15 DEF controlVars, RegistryInv, RegistrySurvives, Complete, HasAccount
<1>16. QED
  BY <1>1, <1>2, <1>3, <1>4, <1>5, <1>6, <1>7, <1>8, <1>9, <1>10, <1>11, <1>12, <1>13, <1>14, <1>15
     DEF ControlNext, ProjectNext, RestoreNext

\* For any projects and members, and any restores that fail or are killed: after
\* one that was not preceded by one killed before its merge, every project that
\* has its store is registered, as it was or as the bundle says, with its members.
THEOREM RegistryKept == ControlSpec => []RegistrySurvives
<1>1. ControlInit => RegistryInv
  BY DEF ControlInit, RegistryInv, RegistrySurvives, Complete, Nothing, NotRestoring, NotMaking
<1>2. RegistryInv => RegistrySurvives
  BY DEF RegistryInv
<1>3. QED
  BY <1>1, <1>2, RegistryNext, ControlTyped, PTL DEF ControlSpec
=============================================================================
