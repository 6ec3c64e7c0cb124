------------------------------ MODULE RecoveryProofs ------------------------------
(***************************************************************************)
(* Proofs about what is kept to be put back, for any number of files,      *)
(* bundles, trees, processes and deaths: the evidence and its bundles      *)
(* (module RecoveryBundle), the directory bundles are kept in              *)
(* (BundleRetention), the trees of an installation and its authenticated   *)
(* history (HistoryRecovery).                                              *)
(***************************************************************************)
EXTENDS RecoveryBundle, BundleRetention, HistoryRecovery, NumberLemmas, FiniteSetTheorems,
        SequenceTheorems, TLAPS

-----------------------------------------------------------------------------
(* Bundles and the evidence they hold.  At every stage of a restore it is   *)
(* known where the files of the rows are, and of those that would be put    *)
(* back; while some healthy process has no reason to doubt, there are no    *)
(* others.                                                                  *)

OnRecord == Registered(artifact)
OnDisk == folder.files
Aside == restoring.previous.files
Saved == Registered(restoring.safety)
Wanted == Registered(restoring.from.rows)
InFlight == {e \in Evidence : \E p \in Procs : upload[p] = e}

FilesAreFound ==
    /\ restoring.at \in {"idle", "move"} => OnRecord \subseteq OnDisk \cup strays /\ Aside = {}
    /\ restoring.at \in {"place", "backup", "swap", "clear", "return"} =>
          OnRecord \subseteq Aside \cup strays
    /\ restoring.at \in {"backup", "swap", "verify"} => OnDisk = Wanted
    /\ restoring.at \in {"swap", "verify", "undo"} => Saved \subseteq Aside \cup strays
    /\ restoring.at = "verify" => OnRecord = Wanted
    /\ restoring.at = "undo" => OnRecord \subseteq OnDisk \cup Aside \cup strays

NoOthers ==
    /\ restoring.at \in {"idle", "move"} => OnDisk = OnRecord \cup InFlight
    /\ restoring.at \in {"place", "backup", "swap", "clear", "return"} => Aside = OnRecord
    /\ restoring.at \in {"swap", "verify", "undo"} => Aside = Saved

Sure(p) == mode[p] = "HEALTHY" /\ ~doubt[p] /\ ~Checking(p)

\* No restore runs beside a check that is to be believed; what it did not see
\* has come since, with its file.
CheckSees ==
    /\ restoring.at = "idle"
    /\ check.at = "files" => /\ Registered(check.view) \subseteq OnRecord
                             /\ OnRecord \ Registered(check.view) \subseteq OnDisk
    /\ check.at = "custody" /\ ~check.bad => OnDisk = OnRecord \cup InFlight

UploadsOK ==
    /\ \A p \in Procs : upload[p] # NoEvidence =>
          upload[p] \in OnDisk /\ upload[p] \notin OnRecord /\ restoring.at = "idle"
    /\ \A p, q \in Procs : upload[p] # NoEvidence /\ upload[p] = upload[q] => p = q

RowsOK(rows) ==
    /\ rows \in [Evidence -> Row]
    /\ \A e \in Evidence : rows[e].status = "NONE" <=> rows[e].seq = 0

FolderOK(dir) ==
    /\ dir \in [there : BOOLEAN, files : SUBSET Evidence]
    /\ ~dir.there => dir.files = {}

\* Bundles and copies are of evidence that was once there.
KnownIds ==
    /\ RowsOK(bundle.rows) /\ RowsOK(making.draft.rows)
    /\ RowsOK(restoring.from.rows) /\ RowsOK(restoring.safety) /\ FolderOK(restoring.previous)
    /\ OnDisk \cup Aside \cup Saved \cup Wanted \subseteq used
    /\ Registered(bundle.rows) \subseteq used /\ Registered(making.draft.rows) \subseteq used

RecoveryInv ==
    /\ BundleTypeOK
    /\ UploadsOK /\ KnownIds
    /\ restoring.at # "idle" => restoring.from.manifest = restoring.from.rows
    /\ check.at = "idle" => check.by = NoProc
    /\ FilesAreFound
    /\ \A p \in Procs : Sure(p) => NoOthers
    /\ \A p \in Procs : Checking(p) /\ ~doubt[p] => CheckSees

LEMMA RecoveryStarts == RecoveryInit => RecoveryInv
<1> SUFFICES ASSUME RecoveryInit PROVE RecoveryInv
  OBVIOUS
<1>1. /\ artifact = EmptyRows /\ folder = [there |-> FALSE, files |-> {}] /\ used = {}
      /\ upload = [p \in Procs |-> NoEvidence] /\ check = NoCheck
      /\ mode = [p \in Procs |-> "DOWN"] /\ barrier = FALSE /\ crashes = 0
      /\ doubt = [p \in Procs |-> FALSE] /\ bundle = NoBundle /\ making = NotMaking
      /\ restoring = NotRestoring /\ strays = {} /\ bundles = 0 /\ restores = 0
  BY DEF RecoveryInit, StoreInit, EmptyRows
<1>2. /\ EmptyRows \in [Evidence -> Row] /\ Registered(EmptyRows) = {}
      /\ \A e \in Evidence : EmptyRows[e].status = "NONE" /\ EmptyRows[e].seq = 0
  BY EvidenceAssumption DEF EmptyRows, NoRow, Row, Registered
<1>3. NoBundle \in BundleRow /\ NoBundle.rows = EmptyRows
  BY <1>2, EvidenceAssumption DEF NoBundle, BundleRow
<1>4. /\ restoring \in [at : Stages, by : Procs \cup {NoProc}, from : BundleRow,
                        previous : [there : BOOLEAN, files : SUBSET Evidence],
                        safety : [Evidence -> Row]]
      /\ restoring.at = "idle" /\ Aside = {} /\ Saved = {} /\ Wanted = {}
  BY <1>1, <1>2, <1>3 DEF NotRestoring, Stages, Aside, Saved, Wanted
<1>5. check.at = "idle" /\ check.by = NoProc
      /\ check \in [at : {"idle", "files", "custody"}, by : Procs \cup {NoProc},
                    view : [Evidence -> Row], bad : BOOLEAN]
  BY <1>1, <1>2 DEF NoCheck, EmptyRows
<1>6. StoreTypeOK
  <2>1. /\ artifact \in [Evidence -> Row] /\ Registered(artifact) \subseteq used
        /\ \A e \in Evidence : artifact[e].status = "NONE" <=> artifact[e].seq = 0
    BY <1>1, <1>2
  <2>2. /\ folder \in [there : BOOLEAN, files : SUBSET Evidence]
        /\ ~folder.there => folder.files = {}
    BY <1>1
  <2>3. /\ upload \in [Procs -> Evidence \cup {NoEvidence}]
        /\ \A p \in Procs : upload[p] = NoEvidence
        /\ mode \in [Procs -> {"DOWN", "HEALTHY", "READ_ONLY"}] /\ doubt \in [Procs -> BOOLEAN]
    BY <1>1
  <2>4. used \subseteq Evidence /\ barrier \in BOOLEAN /\ crashes \in 0..MaxCrashes
    <3>1. barrier \in BOOLEAN
      BY <1>1
    <3>2. crashes = 0 /\ MaxCrashes \in Nat
      BY <1>1, EvidenceAssumption
    <3>3. crashes \in 0..MaxCrashes
      BY ONLY <3>2
    <3>4. QED
      BY <1>1, <3>1, <3>3
  <2>5. QED
    BY <1>5, <2>1, <2>2, <2>3, <2>4 DEF StoreTypeOK
<1>7. making \in [at : {"idle", "rows", "files"}, by : Procs \cup {NoProc}, draft : BundleRow]
      /\ making.draft.rows = EmptyRows
  BY <1>1, <1>3 DEF NotMaking
<1>8. BundleTypeOK
  BY <1>1, <1>3, <1>4, <1>6, <1>7, BundleAssumption DEF BundleTypeOK
<1>9. OnRecord = {} /\ OnDisk = {}
  BY <1>1, <1>2 DEF OnRecord, OnDisk
<1>10. \A p \in Procs : ~Checking(p) /\ ~Sure(p)
  BY <1>1, <1>5, EvidenceAssumption DEF Checking, Sure
<1>11. UploadsOK
  BY <1>1 DEF UploadsOK
<1>12. KnownIds
  <2>1. RowsOK(EmptyRows)
    BY <1>2 DEF RowsOK
  <2>2. restoring.from.rows = EmptyRows /\ restoring.safety = EmptyRows /\ bundle.rows = EmptyRows
    BY <1>1, <1>3 DEF NotRestoring
  <2>3. FolderOK(restoring.previous)
    BY <1>1 DEF NotRestoring, FolderOK
  <2>4. QED
    BY <1>1, <1>2, <1>4, <1>7, <1>9, <2>1, <2>2, <2>3 DEF KnownIds
<1>13. FilesAreFound
  BY <1>1, <1>4, <1>9 DEF FilesAreFound
<1>14. QED
  BY <1>4, <1>5, <1>8, <1>10, <1>11, <1>12, <1>13 DEF RecoveryInv

LEMMA CustodyKeeps ==
    ASSUME RecoveryInv, NEW e \in Evidence, NEW st \in {"ACTIVE", "RETIRED"},
           artifact[e].status # "NONE", Appended(e, st), UNCHANGED bundleVars
    PROVE  RecoveryInv'
<1>1. /\ artifact \in [Evidence -> Row]
      /\ \A x \in Evidence : artifact[x].status = "NONE" <=> artifact[x].seq = 0
  BY DEF RecoveryInv, BundleTypeOK, StoreTypeOK
<1>. PICK n : n = artifact[e].seq + 1
  OBVIOUS
<1>2. n \in 1..MaxSeq
  <2>1. artifact[e].seq \in 0..MaxSeq /\ artifact[e].seq < MaxSeq
    BY <1>1 DEF Row, Appended
  <2>2. QED
    BY <2>1, EvidenceAssumption
<1>3. artifact' = [artifact EXCEPT ![e] = [status |-> st, seq |-> n]]
  BY <1>1 DEF Appended
<1>4. /\ artifact' \in [Evidence -> Row] /\ Registered(artifact') = Registered(artifact)
      /\ \A x \in Evidence : artifact'[x].status = "NONE" <=> artifact'[x].seq = 0
  <2>. PICK row : row = [status |-> st, seq |-> n]
    OBVIOUS
  <2>1. n \in 0..MaxSeq /\ n # 0
    BY <1>2, EvidenceAssumption
  <2>2. row \in Row /\ row.status # "NONE" /\ row.seq # 0
    BY <2>1 DEF Row
  <2>3. artifact' = [artifact EXCEPT ![e] = row]
    BY <1>3
  <2>4. artifact'[e] = row /\ \A x \in Evidence : x # e => artifact'[x] = artifact[x]
    BY <1>1, <2>3
  <2>5. artifact' \in [Evidence -> Row]
    BY <1>1, <2>2, <2>3
  <2>6. Registered(artifact') = Registered(artifact)
    BY <2>2, <2>4 DEF Registered
  <2>7. QED
    BY <1>1, <2>2, <2>4, <2>5, <2>6
<1>5. UNCHANGED <<folder, used, upload, check, mode, barrier, crashes, doubt,
                  bundle, making, restoring, strays, bundles, restores>>
  BY DEF Appended, bundleVars
<1>6. BundleTypeOK'
  BY <1>4, <1>5 DEF RecoveryInv, BundleTypeOK, StoreTypeOK
<1>7. UNCHANGED <<OnRecord, OnDisk, Aside, Saved, Wanted, InFlight>>
  BY <1>4, <1>5 DEF OnRecord, OnDisk, Aside, Saved, Wanted, InFlight
<1>8. UploadsOK' /\ KnownIds' /\ FilesAreFound'
  BY <1>5, <1>7 DEF RecoveryInv, UploadsOK, KnownIds, FilesAreFound
<1>9. ASSUME NEW p \in Procs PROVE (Sure(p) => NoOthers)'
  BY <1>5, <1>7 DEF RecoveryInv, Sure, Checking, NoOthers
<1>10. ASSUME NEW p \in Procs PROVE (Checking(p) /\ ~doubt[p] => CheckSees)'
  BY <1>5, <1>7 DEF RecoveryInv, Checking, CheckSees
<1>11. QED
  BY <1>5, <1>6, <1>8, <1>9, <1>10 DEF RecoveryInv

LEMMA WriteFileKeeps ==
    ASSUME RecoveryInv, NEW p \in Procs, NEW e \in Evidence, WriteFile(p, e), UNCHANGED bundleVars
    PROVE  RecoveryInv'
<1>1. /\ upload \in [Procs -> Evidence \cup {NoEvidence}] /\ upload[p] = NoEvidence
      /\ e # NoEvidence /\ mode[p] # "DOWN" /\ restoring.at = "idle" /\ e \notin used
  BY EvidenceAssumption DEF RecoveryInv, BundleTypeOK, StoreTypeOK, WriteFile, MayWrite
<1>2. /\ used' = used \cup {e} /\ upload' = [upload EXCEPT ![p] = e]
      /\ folder' = [there |-> TRUE, files |-> folder.files \cup {e}]
      /\ UNCHANGED <<artifact, check, mode, barrier, crashes, doubt,
                     bundle, making, restoring, strays, bundles, restores>>
  BY DEF WriteFile, bundleVars
<1>3. /\ UNCHANGED <<OnRecord, Aside, Saved, Wanted>> /\ OnDisk' = OnDisk \cup {e}
  BY <1>2 DEF OnRecord, OnDisk, Aside, Saved, Wanted
<1>4. /\ \A r \in Procs : upload'[r] = IF r = p THEN e ELSE upload[r]
      /\ upload' \in [Procs -> Evidence \cup {NoEvidence}]
  BY <1>1, <1>2
<1>5. InFlight' = InFlight \cup {e}
  BY <1>1, <1>4, EvidenceAssumption DEF InFlight
<1>6. BundleTypeOK'
  <2>1. folder' \in [there : BOOLEAN, files : SUBSET Evidence] /\ folder'.there
    BY <1>2 DEF RecoveryInv, BundleTypeOK, StoreTypeOK
  <2>2. StoreTypeOK'
    BY <1>1, <1>2, <1>4, <2>1 DEF RecoveryInv, BundleTypeOK, StoreTypeOK
  <2>3. QED
    BY <1>2, <2>2 DEF RecoveryInv, BundleTypeOK
<1>7. OnRecord \subseteq used /\ \A r \in Procs : upload[r] # NoEvidence => upload[r] \in used
  BY DEF RecoveryInv, BundleTypeOK, StoreTypeOK, OnRecord
<1>8. UploadsOK'
  BY <1>1, <1>2, <1>3, <1>4, <1>7 DEF RecoveryInv, UploadsOK
<1>9. KnownIds' /\ FilesAreFound'
  BY <1>1, <1>2, <1>3 DEF RecoveryInv, KnownIds, FilesAreFound
<1>10. ASSUME NEW r \in Procs PROVE (Sure(r) => NoOthers)'
  BY <1>1, <1>2, <1>3, <1>5 DEF RecoveryInv, Sure, Checking, NoOthers
<1>11. ASSUME NEW r \in Procs PROVE (Checking(r) /\ ~doubt[r] => CheckSees)'
  BY <1>1, <1>2, <1>3, <1>5 DEF RecoveryInv, Checking, CheckSees
<1>12. QED
  BY <1>2, <1>6, <1>8, <1>9, <1>10, <1>11 DEF RecoveryInv

LEMMA CommitRowKeeps ==
    ASSUME RecoveryInv, NEW p \in Procs, CommitRow(p), UNCHANGED bundleVars PROVE RecoveryInv'
<1>. PICK e : e = upload[p]
  OBVIOUS
<1>1. /\ upload \in [Procs -> Evidence \cup {NoEvidence}] /\ e # NoEvidence /\ e \in Evidence
      /\ e \in OnDisk /\ e \notin OnRecord /\ restoring.at = "idle" /\ e \in used
      /\ \A r \in Procs : upload[r] = e => r = p
  BY DEF RecoveryInv, BundleTypeOK, StoreTypeOK, CommitRow, UploadsOK
<1>2. /\ upload' = [upload EXCEPT ![p] = NoEvidence]
      /\ UNCHANGED <<used, check, mode, barrier, crashes, doubt,
                     bundle, making, restoring, strays, bundles, restores>>
  BY DEF CommitRow, bundleVars
<1>3. /\ \A r \in Procs : upload'[r] = IF r = p THEN NoEvidence ELSE upload[r]
      /\ upload' \in [Procs -> Evidence \cup {NoEvidence}]
  BY <1>1, <1>2
<1>4. InFlight' = InFlight \ {e} /\ e \in InFlight
  BY <1>1, <1>3, EvidenceAssumption DEF InFlight
<1>5. /\ artifact \in [Evidence -> Row] /\ OnRecord \subseteq used
      /\ \A x \in Evidence : artifact[x].status = "NONE" <=> artifact[x].seq = 0
      /\ folder \in [there : BOOLEAN, files : SUBSET Evidence]
      /\ ~folder.there => folder.files = {}
  BY DEF RecoveryInv, BundleTypeOK, StoreTypeOK, OnRecord
<1>6. \/ artifact' \in [Evidence -> Row] /\ OnRecord' = OnRecord \cup {e} /\ folder' = folder
         /\ \A x \in Evidence : artifact'[x].status = "NONE" <=> artifact'[x].seq = 0
      \/ UNCHANGED artifact /\ OnRecord' = OnRecord
         /\ folder' \in [there : BOOLEAN, files : SUBSET Evidence]
         /\ folder'.there = folder.there /\ OnDisk' = OnDisk \ {e}
  <2>1. CASE artifact' = [artifact EXCEPT ![e] = [status |-> "ACTIVE", seq |-> 1]] /\ UNCHANGED folder
    <3>. PICK row : row = [status |-> "ACTIVE", seq |-> 1]
      OBVIOUS
    <3>1. row \in Row /\ row.status # "NONE" /\ row.seq # 0
      BY EvidenceAssumption DEF Row
    <3>2. artifact' = [artifact EXCEPT ![e] = row]
      BY <2>1
    <3>3. artifact'[e] = row /\ \A x \in Evidence : x # e => artifact'[x] = artifact[x]
      BY <1>1, <1>5, <3>2
    <3>4. artifact' \in [Evidence -> Row]
      BY <1>1, <1>5, <3>1, <3>2
    <3>5. OnRecord' = OnRecord \cup {e}
      BY <1>1, <3>1, <3>3 DEF OnRecord, Registered
    <3>6. QED
      BY <1>5, <2>1, <3>1, <3>3, <3>4, <3>5
  <2>2. CASE folder' = [folder EXCEPT !.files = @ \ {e}] /\ UNCHANGED artifact
    BY <1>5, <2>2 DEF OnRecord, OnDisk
  <2>3. QED
    BY <2>1, <2>2 DEF CommitRow
<1>7. UNCHANGED <<Aside, Saved, Wanted>> /\ OnDisk' \subseteq OnDisk
      /\ \/ OnRecord' = OnRecord \cup {e} /\ OnDisk' = OnDisk
         \/ OnRecord' = OnRecord /\ OnDisk' = OnDisk \ {e}
  BY <1>2, <1>6 DEF OnDisk, Aside, Saved, Wanted
<1>8. BundleTypeOK'
  <2>1. OnRecord' \subseteq used
    BY <1>1, <1>5, <1>7
  <2>2. ~folder'.there => folder'.files = {}
    BY <1>5, <1>6 DEF OnDisk
  <2>3. /\ artifact' \in [Evidence -> Row] /\ folder' \in [there : BOOLEAN, files : SUBSET Evidence]
        /\ \A x \in Evidence : artifact'[x].status = "NONE" <=> artifact'[x].seq = 0
    BY <1>5, <1>6
  <2>4. \A r \in Procs : upload'[r] # NoEvidence => mode'[r] # "DOWN" /\ upload'[r] \in used'
    BY <1>2, <1>3 DEF RecoveryInv, BundleTypeOK, StoreTypeOK
  <2>5. StoreTypeOK'
    BY <1>2, <1>3, <2>1, <2>2, <2>3, <2>4 DEF RecoveryInv, BundleTypeOK, StoreTypeOK, OnRecord
  <2>6. QED
    BY <1>2, <2>5 DEF RecoveryInv, BundleTypeOK
<1>9. UploadsOK'
  BY <1>1, <1>2, <1>3, <1>7 DEF RecoveryInv, UploadsOK
<1>10. KnownIds'
  BY <1>2, <1>7 DEF RecoveryInv, KnownIds
<1>11. FilesAreFound'
  BY <1>1, <1>2, <1>7 DEF RecoveryInv, FilesAreFound
<1>12. ASSUME NEW r \in Procs PROVE (Sure(r) => NoOthers)'
  BY <1>1, <1>2, <1>4, <1>7 DEF RecoveryInv, Sure, Checking, NoOthers
<1>13. ASSUME NEW r \in Procs PROVE (Checking(r) /\ ~doubt[r] => CheckSees)'
  BY <1>1, <1>2, <1>4, <1>7 DEF RecoveryInv, Checking, CheckSees
<1>14. QED
  BY <1>2, <1>8, <1>9, <1>10, <1>11, <1>12, <1>13 DEF RecoveryInv

LEMMA ReadRowsKeeps ==
    ASSUME RecoveryInv, NEW p \in Procs, ReadRows(p), UNCHANGED bundleVars PROVE RecoveryInv'
<1>1. /\ check.at = "idle" /\ check.by = NoProc /\ NoProc \notin Procs
      /\ artifact \in [Evidence -> Row] /\ doubt \in [Procs -> BOOLEAN] /\ barrier \in BOOLEAN
      /\ barrier <=> restoring.at # "idle"
  BY EvidenceAssumption DEF RecoveryInv, BundleTypeOK, StoreTypeOK, ReadRows
<1>2. /\ check' = [at |-> "files", by |-> p, view |-> artifact, bad |-> FALSE]
      /\ doubt' = [doubt EXCEPT ![p] = barrier]
      /\ UNCHANGED <<artifact, folder, used, upload, mode, barrier, crashes,
                     bundle, making, restoring, strays, bundles, restores>>
  BY DEF ReadRows, bundleVars
<1>3. /\ doubt' \in [Procs -> BOOLEAN] /\ doubt'[p] = barrier
      /\ \A r \in Procs : r # p => doubt'[r] = doubt[r]
  BY <1>1, <1>2
<1>4. /\ check'.at = "files" /\ check'.by = p /\ check'.view = artifact
      /\ check' \in [at : {"idle", "files", "custody"}, by : Procs \cup {NoProc},
                     view : [Evidence -> Row], bad : BOOLEAN]
  BY <1>1, <1>2
<1>5. BundleTypeOK'
  BY <1>2, <1>3, <1>4 DEF RecoveryInv, BundleTypeOK, StoreTypeOK
<1>6. UNCHANGED <<OnRecord, OnDisk, Aside, Saved, Wanted, InFlight>>
  BY <1>2 DEF OnRecord, OnDisk, Aside, Saved, Wanted, InFlight
<1>7. UploadsOK' /\ KnownIds' /\ FilesAreFound'
  BY <1>2, <1>6 DEF RecoveryInv, UploadsOK, KnownIds, FilesAreFound
<1>8. ASSUME NEW r \in Procs PROVE (Sure(r) => NoOthers)'
  <2>1. Sure(r)' => Sure(r)
    BY <1>1, <1>2, <1>3, <1>4 DEF Sure, Checking
  <2>2. UNCHANGED NoOthers
    BY <1>2, <1>6 DEF NoOthers
  <2>3. QED
    BY <2>1, <2>2 DEF RecoveryInv
<1>9. ASSUME NEW r \in Procs PROVE (Checking(r) /\ ~doubt[r] => CheckSees)'
  <2>1. Checking(r)' => r = p
    BY <1>4 DEF Checking
  <2>2. CASE ~barrier
    <3>1. restoring'.at = "idle" /\ Registered(check'.view) = OnRecord'
      BY <1>1, <1>2, <1>4, <2>2 DEF OnRecord
    <3>2. QED
      BY <1>4, <3>1 DEF CheckSees
  <2>3. CASE barrier
    BY <1>3, <2>1, <2>3
  <2>4. QED
    BY <2>2, <2>3
<1>10. QED
  BY <1>2, <1>4, <1>5, <1>7, <1>8, <1>9 DEF RecoveryInv

LEMMA ListFilesKeeps ==
    ASSUME RecoveryInv, NEW p \in Procs, ListFiles(p), UNCHANGED bundleVars PROVE RecoveryInv'
<1>. PICK old, b : old = check /\ b = ~Consistent(check.view, folder)
  OBVIOUS
<1>1. /\ old \in [at : {"idle", "files", "custody"}, by : Procs \cup {NoProc},
                  view : [Evidence -> Row], bad : BOOLEAN]
      /\ old.at = "files" /\ old.by = p /\ b \in BOOLEAN
  BY DEF RecoveryInv, BundleTypeOK, StoreTypeOK, ListFiles, Checking
<1>2. /\ check' = [old EXCEPT !.at = "custody", !.bad = b]
      /\ UNCHANGED <<artifact, folder, used, upload, mode, barrier, crashes, doubt,
                     bundle, making, restoring, strays, bundles, restores>>
  BY DEF ListFiles, bundleVars
<1>3. /\ check'.at = "custody" /\ check'.by = p /\ check'.bad = b
      /\ check' \in [at : {"idle", "files", "custody"}, by : Procs \cup {NoProc},
                     view : [Evidence -> Row], bad : BOOLEAN]
  <2>1. check' = [at |-> "custody", by |-> p, view |-> old.view, bad |-> b]
    BY ONLY <1>1, <1>2
  <2>2. QED
    BY <1>1, <2>1
<1>4. BundleTypeOK'
  BY <1>2, <1>3 DEF RecoveryInv, BundleTypeOK, StoreTypeOK
<1>5. UNCHANGED <<OnRecord, OnDisk, Aside, Saved, Wanted, InFlight>>
  BY <1>2 DEF OnRecord, OnDisk, Aside, Saved, Wanted, InFlight
<1>6. UploadsOK' /\ KnownIds' /\ FilesAreFound'
  BY <1>2, <1>5 DEF RecoveryInv, UploadsOK, KnownIds, FilesAreFound
<1>7. ASSUME NEW r \in Procs PROVE (Sure(r) => NoOthers)'
  <2>1. Sure(r)' => Sure(r)
    BY <1>1, <1>2, <1>3 DEF Sure, Checking
  <2>2. UNCHANGED NoOthers
    BY <1>2, <1>5 DEF NoOthers
  <2>3. QED
    BY <2>1, <2>2 DEF RecoveryInv
<1>8. ASSUME NEW r \in Procs, Checking(r)', ~doubt'[r] PROVE CheckSees'
  <2>1. r = p
    BY <1>3, <1>8 DEF Checking
  <2>2. CheckSees
    BY <1>1, <1>2, <1>8, <2>1 DEF RecoveryInv, Checking
  <2>3. ASSUME ~b PROVE OnDisk = OnRecord \cup InFlight
    <3>1. OnDisk = Registered(old.view)
      BY <2>3 DEF Consistent, OnDisk
    <3>2. OnDisk = OnRecord
      BY <1>1, <2>2, <3>1 DEF CheckSees
    <3>3. InFlight = {}
      <4>1. \A q \in Procs : upload[q] = NoEvidence
        BY <3>2 DEF RecoveryInv, UploadsOK
      <4>2. QED
        BY <4>1, EvidenceAssumption DEF InFlight
    <3>4. QED
      BY <3>2, <3>3
  <2>4. QED
    BY <1>2, <1>3, <1>5, <2>2, <2>3 DEF CheckSees
<1>9. QED
  BY <1>2, <1>3, <1>4, <1>6, <1>7, <1>8 DEF RecoveryInv

LEMMA RecordModeKeeps ==
    ASSUME RecoveryInv, NEW p \in Procs, RecordMode(p), UNCHANGED bundleVars PROVE RecoveryInv'
<1>. PICK m : m = IF Faulty THEN "READ_ONLY" ELSE "HEALTHY"
  OBVIOUS
<1>1. /\ check.at = "custody" /\ Checking(p) /\ mode' = [mode EXCEPT ![p] = m]
      /\ check' = NoCheck /\ m \in {"READ_ONLY", "HEALTHY"} /\ (m = "HEALTHY" => ~check.bad)
      /\ UNCHANGED <<artifact, used, upload, barrier, crashes, doubt,
                     bundle, making, restoring, strays, bundles, restores>>
      /\ folder' = folder \/ folder' = [folder EXCEPT !.there = TRUE]
  BY DEF RecordMode, bundleVars, Faulty
<1>2. /\ mode \in [Procs -> {"DOWN", "HEALTHY", "READ_ONLY"}]
      /\ folder \in [there : BOOLEAN, files : SUBSET Evidence]
      /\ ~folder.there => folder.files = {}
  BY DEF RecoveryInv, BundleTypeOK, StoreTypeOK
<1>3. /\ mode' \in [Procs -> {"DOWN", "HEALTHY", "READ_ONLY"}] /\ mode'[p] = m /\ m # "DOWN"
      /\ \A r \in Procs : r # p => mode'[r] = mode[r]
      /\ \A r \in Procs : mode[r] # "DOWN" => mode'[r] # "DOWN"
  BY <1>1, <1>2
<1>4. /\ folder' \in [there : BOOLEAN, files : SUBSET Evidence]
      /\ ~folder'.there => folder'.files = {}
      /\ OnDisk' = OnDisk
  BY <1>1, <1>2 DEF OnDisk
<1>5. /\ check'.at = "idle" /\ check'.by = NoProc
      /\ check' \in [at : {"idle", "files", "custody"}, by : Procs \cup {NoProc},
                     view : [Evidence -> Row], bad : BOOLEAN]
  <2>1. NoRow \in Row
    BY EvidenceAssumption DEF NoRow, Row
  <2>2. QED
    BY <1>1, <2>1 DEF NoCheck
<1>6. BundleTypeOK'
  <2>1. StoreTypeOK'
    BY <1>1, <1>3, <1>4, <1>5 DEF RecoveryInv, BundleTypeOK, StoreTypeOK
  <2>2. QED
    BY <1>1, <1>3, <2>1 DEF RecoveryInv, BundleTypeOK
<1>7. UNCHANGED <<OnRecord, OnDisk, Aside, Saved, Wanted, InFlight>>
  BY <1>1, <1>4 DEF OnRecord, Aside, Saved, Wanted, InFlight
<1>8. UploadsOK' /\ KnownIds' /\ FilesAreFound'
  BY <1>1, <1>7 DEF RecoveryInv, UploadsOK, KnownIds, FilesAreFound
<1>9. ASSUME NEW r \in Procs, Sure(r)' PROVE NoOthers'
  <2>1. UNCHANGED NoOthers
    BY <1>1, <1>7 DEF NoOthers
  <2>2. CASE r = p
    <3>1. ~check.bad /\ ~doubt[p]
      BY <1>1, <1>3, <1>9, <2>2 DEF Sure
    <3>2. CheckSees
      BY <1>1, <3>1 DEF RecoveryInv
    <3>3. NoOthers
      BY <1>1, <3>1, <3>2 DEF CheckSees, NoOthers
    <3>4. QED
      BY <2>1, <3>3
  <2>3. CASE r # p
    <3>1. Sure(r)
      BY <1>1, <1>3, <1>9, <2>3 DEF Sure, Checking
    <3>2. QED
      BY <2>1, <3>1 DEF RecoveryInv
  <2>4. QED
    BY <2>2, <2>3
<1>10. ASSUME NEW r \in Procs PROVE ~Checking(r)'
  BY <1>5, EvidenceAssumption DEF Checking
<1>11. QED
  BY <1>1, <1>5, <1>6, <1>8, <1>9, <1>10 DEF RecoveryInv

\* Steps that change neither the store nor the restore.
LEMMA MakingKeeps ==
    ASSUME RecoveryInv, (\E p \in Procs : Snapshot(p)) \/ ReadManifest \/ Publish
    PROVE  RecoveryInv'
<1>. PICK old, rows : old = making /\ rows = artifact
  OBVIOUS
<1>1. /\ old \in [at : {"idle", "rows", "files"}, by : Procs \cup {NoProc}, draft : BundleRow]
      /\ rows \in [Evidence -> Row] /\ Registered(rows) \subseteq used
      /\ bundle \in BundleRow /\ bundles \in 0..MaxBundles
      /\ Registered(bundle.rows) \subseteq used /\ Registered(old.draft.rows) \subseteq used
      /\ RowsOK(rows) /\ RowsOK(bundle.rows) /\ RowsOK(old.draft.rows)
  BY DEF RowsOK, RecoveryInv, BundleTypeOK, StoreTypeOK, KnownIds
<1>2. UNCHANGED <<storeVars, restoring, strays, restores>>
  BY DEF Snapshot, ReadManifest, Publish
<1>3. /\ UNCHANGED <<artifact, folder, used, upload, check, mode, barrier, crashes, doubt>>
      /\ UNCHANGED <<restoring, strays, restores>>
  BY <1>2 DEF storeVars
<1>4. NoBundle \in BundleRow /\ Registered(NoBundle.rows) = {} /\ RowsOK(NoBundle.rows)
  <2>1. EmptyRows \in [Evidence -> Row] /\ Registered(EmptyRows) = {} /\ RowsOK(EmptyRows)
    BY EvidenceAssumption DEF EmptyRows, NoRow, Row, Registered, RowsOK
  <2>2. [e \in Evidence |-> 0] \in [Evidence -> 0..MaxSeq]
    BY EvidenceAssumption
  <2>3. QED
    BY <2>1, <2>2 DEF NoBundle, BundleRow
<1>5. NotMaking \in [at : {"idle", "rows", "files"}, by : Procs \cup {NoProc}, draft : BundleRow]
      /\ Registered(NotMaking.draft.rows) = {} /\ RowsOK(NotMaking.draft.rows)
  BY <1>4 DEF NotMaking
<1>6. /\ making' \in [at : {"idle", "rows", "files"}, by : Procs \cup {NoProc}, draft : BundleRow]
      /\ Registered(making'.draft.rows) \subseteq used
      /\ bundle' \in BundleRow /\ Registered(bundle'.rows) \subseteq used
      /\ bundles' \in 0..MaxBundles
      /\ RowsOK(making'.draft.rows) /\ RowsOK(bundle'.rows)
  <2>1. CASE \E p \in Procs : Snapshot(p)
    <3>1. PICK p \in Procs : Snapshot(p)
      BY <2>1
    <3>. PICK none, d : none = NoBundle /\ d = [none EXCEPT !.rows = rows]
      OBVIOUS
    <3>2. making' = [at |-> "rows", by |-> p, draft |-> d] /\ UNCHANGED bundle
      BY <3>1 DEF Snapshot
    <3>3. d \in BundleRow /\ d.rows = rows
      BY ONLY <1>1, <1>4, none = NoBundle, d = [none EXCEPT !.rows = rows] DEF BundleRow
    <3>4. bundles' \in 0..MaxBundles
      BY <1>1, <3>1, BundleAssumption DEF Snapshot
    <3>5. QED
      BY <1>1, <3>2, <3>3, <3>4
  <2>2. CASE ReadManifest
    <3>. PICK draft, d : draft = old.draft /\ d = [draft EXCEPT !.manifest = rows]
      OBVIOUS
    <3>1. draft \in BundleRow
      BY <1>1
    <3>2. d \in BundleRow /\ d.rows = draft.rows
      BY ONLY <1>1, <3>1, d = [draft EXCEPT !.manifest = rows] DEF BundleRow
    <3>3. making' = [old EXCEPT !.at = "files", !.draft.manifest = rows] /\ UNCHANGED <<bundle, bundles>>
      BY <2>2 DEF ReadManifest
    <3>4. making' = [at |-> "files", by |-> old.by, draft |-> d]
      BY ONLY <1>1, <3>3, draft = old.draft, d = [draft EXCEPT !.manifest = rows]
    <3>5. QED
      BY <1>1, <3>2, <3>3, <3>4
  <2>3. CASE Publish
    <3>. PICK draft, chain, d :
            /\ draft = old.draft
            /\ chain = [e \in Evidence |-> IF old.draft.manifest[e].status = "NONE" THEN 0
                                          ELSE rows[e].seq]
            /\ d = [draft EXCEPT !.ready = TRUE, !.chain = chain]
      OBVIOUS
    <3>1. draft \in BundleRow
      BY <1>1
    <3>2. chain \in [Evidence -> 0..MaxSeq]
      BY <1>1, EvidenceAssumption DEF Row
    <3>3. d \in BundleRow /\ d.rows = draft.rows
      BY ONLY <3>1, <3>2, d = [draft EXCEPT !.ready = TRUE, !.chain = chain] DEF BundleRow
    <3>4. making' = NotMaking /\ (bundle' = d \/ bundle' = bundle) /\ UNCHANGED bundles
      BY <2>3 DEF Publish
    <3>5. QED
      BY <1>1, <1>5, <3>3, <3>4
  <2>4. QED
    BY <2>1, <2>2, <2>3
<1>7. StoreTypeOK'
  BY <1>3 DEF RecoveryInv, BundleTypeOK, StoreTypeOK
<1>8. BundleTypeOK'
  BY <1>3, <1>6, <1>7 DEF RecoveryInv, BundleTypeOK
<1>9. UNCHANGED <<OnRecord, OnDisk, Aside, Saved, Wanted, InFlight>>
  BY <1>3 DEF OnRecord, OnDisk, Aside, Saved, Wanted, InFlight
<1>10. UploadsOK' /\ FilesAreFound'
  BY <1>3, <1>9 DEF RecoveryInv, UploadsOK, FilesAreFound
<1>11. KnownIds'
  BY <1>3, <1>6, <1>9 DEF RecoveryInv, KnownIds
<1>12. ASSUME NEW p \in Procs PROVE (Sure(p) => NoOthers)'
  BY <1>3, <1>9 DEF RecoveryInv, Sure, Checking, NoOthers
<1>13. ASSUME NEW p \in Procs PROVE (Checking(p) /\ ~doubt[p] => CheckSees)'
  BY <1>3, <1>9 DEF RecoveryInv, Checking, CheckSees
<1>14. QED
  BY <1>3, <1>8, <1>10, <1>11, <1>12, <1>13 DEF RecoveryInv

RestoreRow == [at : Stages, by : Procs \cup {NoProc}, from : BundleRow,
               previous : [there : BOOLEAN, files : SUBSET Evidence],
               safety : [Evidence -> Row]]

\* What is left to show of a step of a restore.
LEMMA RestoreKeeps ==
    ASSUME RecoveryInv, restoring.at # "idle",
           UNCHANGED <<used, upload, check, mode, crashes, bundle, making, bundles, restores>>,
           RowsOK(artifact'), FolderOK(folder'), restoring' \in RestoreRow,
           barrier' \in BOOLEAN, barrier' <=> restoring'.at # "idle",
           restoring'.at # "idle" => restoring'.by = restoring.by /\ restoring'.from = restoring.from,
           OnRecord' \subseteq used, strays' \subseteq used,
           OnDisk' \cup Aside' \cup Saved' \cup Wanted' \subseteq used,
           RowsOK(restoring'.from.rows), RowsOK(restoring'.safety), FolderOK(restoring'.previous),
           FilesAreFound',
           \/ doubt' = doubt /\ (NoOthers => NoOthers')
           \/ doubt' = [r \in Procs |-> TRUE]
    PROVE  RecoveryInv'
<1>1. \A p \in Procs : upload[p] = NoEvidence
  BY DEF RecoveryInv, UploadsOK
<1>2. UploadsOK'
  BY <1>1 DEF UploadsOK
<1>3. StoreTypeOK'
  <2>1. doubt' \in [Procs -> BOOLEAN]
    BY DEF RecoveryInv, BundleTypeOK, StoreTypeOK
  <2>2. QED
    BY <2>1 DEF RecoveryInv, BundleTypeOK, StoreTypeOK, RowsOK, FolderOK, OnRecord
<1>4. BundleTypeOK'
  BY <1>3 DEF RecoveryInv, BundleTypeOK, RestoreRow
<1>5. KnownIds'
  BY DEF RecoveryInv, KnownIds
<1>6. (restoring.at # "idle" => restoring.from.manifest = restoring.from.rows)'
  BY DEF RecoveryInv
<1>7. ASSUME NEW p \in Procs PROVE (Sure(p) => NoOthers)'
  BY DEF RecoveryInv, Sure, Checking
<1>8. ASSUME NEW p \in Procs, Checking(p)' PROVE doubt'[p]
  <2>1. Checking(p) /\ ~CheckSees
    BY <1>8 DEF Checking, CheckSees
  <2>2. doubt[p]
    BY <2>1 DEF RecoveryInv
  <2>3. QED
    BY <2>2
<1>9. QED
  BY <1>2, <1>4, <1>5, <1>6, <1>7, <1>8 DEF RecoveryInv

\* What is known when a step of a restore begins.
LEMMA RestoreKnows ==
    ASSUME RecoveryInv, restoring.at # "idle"
    PROVE  /\ restoring \in RestoreRow /\ barrier = TRUE
           /\ RowsOK(artifact) /\ FolderOK(folder) /\ InFlight = {}
           /\ RowsOK(restoring.from.rows) /\ RowsOK(restoring.safety) /\ FolderOK(restoring.previous)
           /\ restoring.from.manifest = restoring.from.rows
           /\ OnRecord \cup OnDisk \cup Aside \cup Saved \cup Wanted \cup strays \subseteq used
           /\ FilesAreFound
<1>1. InFlight = {}
  BY EvidenceAssumption DEF RecoveryInv, UploadsOK, InFlight
<1>2. /\ restoring \in RestoreRow /\ barrier = TRUE /\ RowsOK(artifact) /\ FolderOK(folder)
      /\ OnRecord \cup strays \subseteq used
  BY DEF RecoveryInv, BundleTypeOK, StoreTypeOK, RestoreRow, RowsOK, FolderOK, OnRecord
<1>3. QED
  BY <1>1, <1>2 DEF RecoveryInv, KnownIds

\* When nothing is being restored.
LEMMA RestsOK ==
    /\ NotRestoring \in RestoreRow /\ NotRestoring.at = "idle"
    /\ NotRestoring.previous.files = {} /\ FolderOK(NotRestoring.previous)
    /\ RowsOK(NotRestoring.safety) /\ RowsOK(NotRestoring.from.rows)
    /\ Registered(NotRestoring.safety) = {} /\ Registered(NotRestoring.from.rows) = {}
<1>1. EmptyRows \in [Evidence -> Row] /\ Registered(EmptyRows) = {} /\ RowsOK(EmptyRows)
  BY EvidenceAssumption DEF EmptyRows, NoRow, Row, Registered, RowsOK
<1>2. NoBundle \in BundleRow /\ NoBundle.rows = EmptyRows
  BY <1>1, EvidenceAssumption DEF NoBundle, BundleRow
<1>3. QED
  BY <1>1, <1>2 DEF NotRestoring, RestoreRow, Stages, FolderOK

LEMMA MoveAsideKeeps == ASSUME RecoveryInv, MoveAside PROVE RecoveryInv'
<1>. PICK old : old = restoring
  OBVIOUS
<1>1. restoring.at = "move"
  BY DEF MoveAside
<1>2. /\ old \in RestoreRow /\ barrier = TRUE /\ RowsOK(artifact) /\ FolderOK(folder) /\ InFlight = {}
      /\ RowsOK(old.from.rows) /\ RowsOK(old.safety)
      /\ OnRecord \cup OnDisk \cup Aside \cup Saved \cup Wanted \cup strays \subseteq used
      /\ FilesAreFound
  BY <1>1, RestoreKnows
<1>3. /\ restoring' = [old EXCEPT !.at = "place", !.previous = folder]
      /\ folder' = [there |-> FALSE, files |-> {}]
      /\ UNCHANGED <<artifact, used, upload, check, mode, barrier, crashes, doubt,
                     bundle, making, strays, bundles, restores>>
  BY DEF MoveAside
<1>4. /\ restoring'.at = "place" /\ restoring'.previous = folder /\ restoring'.by = old.by
      /\ restoring'.from = old.from /\ restoring'.safety = old.safety
  BY ONLY <1>2, <1>3 DEF RestoreRow
<1>5. restoring' \in RestoreRow
  BY <1>2, <1>3 DEF RestoreRow, FolderOK, Stages
<1>6. FolderOK(folder') /\ OnDisk' = {}
  BY <1>3 DEF FolderOK, OnDisk
<1>7. /\ OnRecord' = OnRecord /\ Aside' = OnDisk /\ Saved' = Saved /\ Wanted' = Wanted
  BY <1>3, <1>4 DEF OnRecord, OnDisk, Aside, Saved, Wanted
<1>8. FilesAreFound'
  BY <1>1, <1>2, <1>3, <1>4, <1>7 DEF FilesAreFound
<1>9. NoOthers => NoOthers'
  BY <1>1, <1>2, <1>4, <1>7 DEF NoOthers
<1>10. QED
  BY <1>1, <1>2, <1>3, <1>4, <1>5, <1>6, <1>7, <1>8, <1>9, RestoreKeeps

LEMMA PlaceKeeps == ASSUME RecoveryInv, Place PROVE RecoveryInv'
<1>. PICK old, stage : old = restoring /\ stage = "backup"
  OBVIOUS
<1>1. restoring.at = "place"
  BY DEF Place
<1>2. /\ old \in RestoreRow /\ barrier = TRUE /\ RowsOK(artifact) /\ InFlight = {}
      /\ RowsOK(old.from.rows) /\ RowsOK(old.safety) /\ FolderOK(old.previous)
      /\ old.from.manifest = old.from.rows
      /\ OnRecord \cup OnDisk \cup Aside \cup Saved \cup Wanted \cup strays \subseteq used
      /\ FilesAreFound
  BY <1>1, RestoreKnows
<1>3. /\ restoring' = [old EXCEPT !.at = stage]
      /\ folder' = [there |-> TRUE, files |-> Registered(old.from.manifest)]
      /\ UNCHANGED <<artifact, used, upload, check, mode, barrier, crashes, doubt,
                     bundle, making, strays, bundles, restores>>
  BY DEF Place, Advance
<1>4. /\ restoring'.at = stage /\ restoring'.previous = old.previous /\ restoring'.by = old.by
      /\ restoring'.from = old.from /\ restoring'.safety = old.safety
  BY ONLY <1>2, <1>3 DEF RestoreRow
<1>5. restoring' \in RestoreRow
  BY <1>2, <1>3 DEF RestoreRow, Stages
<1>6. FolderOK(folder') /\ OnDisk' = Wanted
  BY <1>2, <1>3 DEF FolderOK, OnDisk, Wanted, Registered
<1>7. /\ OnRecord' = OnRecord /\ Aside' = Aside /\ Saved' = Saved /\ Wanted' = Wanted
  BY <1>3, <1>4 DEF OnRecord, Aside, Saved, Wanted
<1>8. FilesAreFound'
  BY <1>1, <1>2, <1>3, <1>4, <1>6, <1>7 DEF FilesAreFound
<1>9. NoOthers => NoOthers'
  BY <1>1, <1>4, <1>7 DEF NoOthers
<1>10. QED
  BY <1>1, <1>2, <1>3, <1>4, <1>5, <1>6, <1>7, <1>8, <1>9, RestoreKeeps

LEMMA BackUpKeeps == ASSUME RecoveryInv, BackUp PROVE RecoveryInv'
<1>. PICK old, rows : old = restoring /\ rows = artifact
  OBVIOUS
<1>1. restoring.at = "backup"
  BY DEF BackUp
<1>2. /\ old \in RestoreRow /\ barrier = TRUE /\ RowsOK(rows) /\ FolderOK(folder) /\ InFlight = {}
      /\ RowsOK(old.from.rows) /\ FolderOK(old.previous)
      /\ OnRecord \cup OnDisk \cup Aside \cup Saved \cup Wanted \cup strays \subseteq used
      /\ FilesAreFound
  BY <1>1, RestoreKnows
<1>3. /\ restoring' = [old EXCEPT !.at = "swap", !.safety = rows]
      /\ UNCHANGED <<artifact, folder, used, upload, check, mode, barrier, crashes, doubt,
                     bundle, making, strays, bundles, restores>>
  BY DEF BackUp, storeVars
<1>4. /\ restoring'.at = "swap" /\ restoring'.previous = old.previous /\ restoring'.by = old.by
      /\ restoring'.from = old.from /\ restoring'.safety = rows
  BY ONLY <1>2, <1>3 DEF RestoreRow
<1>5. restoring' \in RestoreRow
  BY <1>2, <1>3 DEF RestoreRow, Stages, RowsOK
<1>6. FolderOK(folder') /\ OnDisk' = OnDisk
  BY <1>2, <1>3 DEF OnDisk
<1>7. /\ OnRecord' = OnRecord /\ Aside' = Aside /\ Saved' = OnRecord /\ Wanted' = Wanted
  BY <1>3, <1>4 DEF OnRecord, Aside, Saved, Wanted
<1>8. FilesAreFound'
  BY <1>1, <1>2, <1>3, <1>4, <1>6, <1>7 DEF FilesAreFound
<1>9. NoOthers => NoOthers'
  BY <1>1, <1>4, <1>7 DEF NoOthers
<1>10. QED
  BY <1>1, <1>2, <1>3, <1>4, <1>5, <1>6, <1>7, <1>8, <1>9, RestoreKeeps

LEMMA SwapKeeps == ASSUME RecoveryInv, Swap \/ Undo PROVE RecoveryInv'
<1>. PICK old, rows, stage :
        /\ old = restoring
        /\ rows = IF restoring.at = "swap" THEN restoring.from.rows ELSE restoring.safety
        /\ stage = IF restoring.at = "swap" THEN "verify" ELSE "clear"
  OBVIOUS
<1>1. restoring.at \in {"swap", "undo"}
  BY DEF Swap, Undo
<1>2. /\ old \in RestoreRow /\ barrier = TRUE /\ FolderOK(folder) /\ InFlight = {}
      /\ RowsOK(old.from.rows) /\ RowsOK(old.safety) /\ FolderOK(old.previous)
      /\ OnRecord \cup OnDisk \cup Aside \cup Saved \cup Wanted \cup strays \subseteq used
      /\ FilesAreFound
  BY <1>1, RestoreKnows
<1>3. /\ restoring' = [old EXCEPT !.at = stage] /\ artifact' = rows
      /\ UNCHANGED <<folder, used, upload, check, mode, barrier, crashes, doubt,
                     bundle, making, strays, bundles, restores>>
  BY DEF Swap, Undo
<1>4. stage \in {"verify", "clear"} /\ (stage = "verify" <=> restoring.at = "swap")
  OBVIOUS
<1>5. /\ restoring'.at = stage /\ restoring'.previous = old.previous /\ restoring'.by = old.by
      /\ restoring'.from = old.from /\ restoring'.safety = old.safety
  BY ONLY <1>2, <1>3 DEF RestoreRow
<1>6. restoring' \in RestoreRow
  BY <1>2, <1>3, <1>4 DEF RestoreRow, Stages
<1>7. FolderOK(folder') /\ OnDisk' = OnDisk /\ RowsOK(artifact')
  BY <1>2, <1>3 DEF OnDisk
<1>8. /\ OnRecord' = (IF restoring.at = "swap" THEN Wanted ELSE Saved)
      /\ Aside' = Aside /\ Saved' = Saved /\ Wanted' = Wanted
  BY <1>3, <1>5 DEF OnRecord, Aside, Saved, Wanted
<1>9. FilesAreFound'
  BY <1>1, <1>2, <1>3, <1>4, <1>5, <1>7, <1>8 DEF FilesAreFound
<1>10. NoOthers => NoOthers'
  BY <1>1, <1>4, <1>5, <1>8 DEF NoOthers
<1>11. restoring'.at # "idle" /\ barrier' = TRUE
  BY <1>2, <1>3, <1>4, <1>5
<1>12. OnRecord' \subseteq used /\ strays' \subseteq used
       /\ OnDisk' \cup Aside' \cup Saved' \cup Wanted' \subseteq used
  BY <1>2, <1>3, <1>7, <1>8
<1>13. QED
  BY <1>1, <1>2, <1>3, <1>5, <1>6, <1>7, <1>9, <1>10, <1>11, <1>12, RestoreKeeps

LEMMA FailKeeps == ASSUME RecoveryInv, Fail PROVE RecoveryInv'
<1>. PICK old, stage :
        old = restoring /\ stage = IF restoring.at = "backup" THEN "clear" ELSE "undo"
  OBVIOUS
<1>1. restoring.at \in {"backup", "swap", "verify"}
  BY DEF Fail
<1>2. /\ old \in RestoreRow /\ barrier = TRUE /\ RowsOK(artifact) /\ FolderOK(folder)
      /\ RowsOK(old.from.rows) /\ RowsOK(old.safety) /\ FolderOK(old.previous)
      /\ OnRecord \cup OnDisk \cup Aside \cup Saved \cup Wanted \cup strays \subseteq used
      /\ FilesAreFound
  BY <1>1, RestoreKnows
<1>3. /\ restoring' = [old EXCEPT !.at = stage]
      /\ UNCHANGED <<artifact, folder, used, upload, check, mode, barrier, crashes, doubt,
                     bundle, making, strays, bundles, restores>>
  BY DEF Fail, Advance
<1>4. stage \in {"undo", "clear"} /\ (stage = "clear" <=> restoring.at = "backup")
  OBVIOUS
<1>5. /\ restoring'.at = stage /\ restoring'.previous = old.previous /\ restoring'.by = old.by
      /\ restoring'.from = old.from /\ restoring'.safety = old.safety
  BY ONLY <1>2, <1>3 DEF RestoreRow
<1>6. restoring' \in RestoreRow
  BY <1>2, <1>3, <1>4 DEF RestoreRow, Stages
<1>7. FolderOK(folder') /\ RowsOK(artifact')
  BY <1>2, <1>3
<1>8. UNCHANGED <<OnRecord, OnDisk, Aside, Saved, Wanted>>
  BY <1>3, <1>5 DEF OnRecord, OnDisk, Aside, Saved, Wanted
<1>9. FilesAreFound'
  BY <1>1, <1>2, <1>3, <1>4, <1>5, <1>8 DEF FilesAreFound
<1>10. NoOthers => NoOthers'
  BY <1>1, <1>4, <1>5, <1>8 DEF NoOthers
<1>11. restoring'.at # "idle" /\ barrier' = TRUE
  BY <1>2, <1>3, <1>4, <1>5
<1>12. OnRecord' \subseteq used /\ strays' \subseteq used
       /\ OnDisk' \cup Aside' \cup Saved' \cup Wanted' \subseteq used
  BY <1>2, <1>3, <1>8
<1>13. QED
  BY <1>1, <1>2, <1>3, <1>5, <1>6, <1>7, <1>9, <1>10, <1>11, <1>12, RestoreKeeps

LEMMA ClearKeeps == ASSUME RecoveryInv, Clear PROVE RecoveryInv'
<1>. PICK old, stage : old = restoring /\ stage = "return"
  OBVIOUS
<1>1. restoring.at = "clear"
  BY DEF Clear
<1>2. /\ old \in RestoreRow /\ barrier = TRUE /\ RowsOK(artifact)
      /\ RowsOK(old.from.rows) /\ RowsOK(old.safety) /\ FolderOK(old.previous)
      /\ OnRecord \cup OnDisk \cup Aside \cup Saved \cup Wanted \cup strays \subseteq used
      /\ FilesAreFound
  BY <1>1, RestoreKnows
<1>3. /\ restoring' = [old EXCEPT !.at = stage] /\ folder' = [there |-> FALSE, files |-> {}]
      /\ UNCHANGED <<artifact, used, upload, check, mode, barrier, crashes, doubt,
                     bundle, making, strays, bundles, restores>>
  BY DEF Clear, Advance
<1>4. /\ restoring'.at = stage /\ restoring'.previous = old.previous /\ restoring'.by = old.by
      /\ restoring'.from = old.from /\ restoring'.safety = old.safety
  BY ONLY <1>2, <1>3 DEF RestoreRow
<1>5. restoring' \in RestoreRow
  BY <1>2, <1>3 DEF RestoreRow, Stages
<1>6. FolderOK(folder') /\ OnDisk' = {}
  BY <1>3 DEF FolderOK, OnDisk
<1>7. /\ OnRecord' = OnRecord /\ Aside' = Aside /\ Saved' = Saved /\ Wanted' = Wanted
  BY <1>3, <1>4 DEF OnRecord, Aside, Saved, Wanted
<1>8. FilesAreFound'
  BY <1>1, <1>2, <1>3, <1>4, <1>7 DEF FilesAreFound
<1>9. NoOthers => NoOthers'
  BY <1>1, <1>4, <1>7 DEF NoOthers
<1>10. QED
  BY <1>1, <1>2, <1>3, <1>4, <1>5, <1>6, <1>7, <1>8, <1>9, RestoreKeeps

\* The restore is over, one way or another.
LEMMA EndKeeps == ASSUME RecoveryInv, PlaceFails \/ Return \/ Finish PROVE RecoveryInv'
<1>1. restoring.at \in {"place", "return", "verify"}
  BY DEF PlaceFails, Return, Finish
<1>2. /\ restoring \in RestoreRow /\ RowsOK(artifact) /\ FolderOK(folder) /\ InFlight = {}
      /\ FolderOK(restoring.previous)
      /\ OnRecord \cup OnDisk \cup Aside \cup Saved \cup Wanted \cup strays \subseteq used
      /\ FilesAreFound
  BY <1>1, RestoreKnows
<1>3. /\ restoring' = NotRestoring /\ barrier' = FALSE
      /\ UNCHANGED <<artifact, used, upload, check, mode, crashes, bundle, making, bundles, restores>>
  BY DEF PlaceFails, Return, Finish
<1>4. /\ restoring' \in RestoreRow /\ restoring'.at = "idle"
      /\ Aside' = {} /\ Saved' = {} /\ Wanted' = {} /\ OnRecord' = OnRecord /\ InFlight' = {}
      /\ RowsOK(restoring'.safety) /\ RowsOK(restoring'.from.rows) /\ FolderOK(restoring'.previous)
  BY <1>2, <1>3, RestsOK DEF Aside, Saved, Wanted, OnRecord, InFlight
<1>5. /\ FolderOK(folder') /\ OnDisk' \subseteq used /\ strays' \subseteq used
      /\ OnRecord \subseteq OnDisk' \cup strays'
      /\ \/ doubt' = doubt /\ (NoOthers => OnDisk' = OnRecord)
         \/ doubt' = [r \in Procs |-> TRUE]
  <2>1. CASE PlaceFails
    <3>1. /\ folder' = folder /\ strays' = strays \cup Aside /\ doubt' = [r \in Procs |-> TRUE]
          /\ restoring.at = "place"
      BY <2>1 DEF PlaceFails, Aside
    <3>2. QED
      BY <1>2, <3>1 DEF OnDisk, FilesAreFound
  <2>2. CASE Return
    <3>1. /\ folder' = restoring.previous /\ restoring.at = "return" /\ UNCHANGED <<strays, doubt>>
      BY <2>2 DEF Return
    <3>2. OnDisk' = Aside
      BY <3>1 DEF OnDisk, Aside
    <3>3. QED
      BY <1>2, <3>1, <3>2 DEF FilesAreFound, NoOthers
  <2>3. CASE Finish
    <3>1. restoring.at = "verify" /\ UNCHANGED <<folder, strays, doubt>>
      BY <2>3 DEF Finish
    <3>2. OnDisk' = OnDisk
      BY <3>1 DEF OnDisk
    <3>3. QED
      BY <1>2, <3>1, <3>2 DEF FilesAreFound, NoOthers
  <2>4. QED
    BY <2>1, <2>2, <2>3
<1>6. FilesAreFound'
  BY <1>4, <1>5 DEF FilesAreFound
<1>7. \/ doubt' = doubt /\ (NoOthers => NoOthers')
      \/ doubt' = [r \in Procs |-> TRUE]
  BY <1>4, <1>5 DEF NoOthers
<1>8. restoring.at # "idle" /\ RowsOK(artifact') /\ OnRecord' \subseteq used
  BY <1>1, <1>2, <1>3, <1>4
<1>9. QED
  BY <1>3, <1>4, <1>5, <1>6, <1>7, <1>8, RestoreKeeps

LEMMA RestoreBeginKeeps ==
    ASSUME RecoveryInv, NEW p \in Procs, Begin(p) PROVE RecoveryInv'
<1>. PICK rest, b : rest = NotRestoring /\ b = bundle
  OBVIOUS
<1>1. /\ restoring.at = "idle" /\ mode[p] # "DOWN" /\ b \in BundleRow /\ Valid(b)
      /\ restores \in 0..MaxRestores /\ restores < MaxRestores
      /\ \A r \in Procs : upload[r] = NoEvidence
      /\ Registered(b.rows) \subseteq used /\ RowsOK(b.rows) /\ FilesAreFound
      /\ doubt \in [Procs -> BOOLEAN]
  BY DEF RecoveryInv, BundleTypeOK, StoreTypeOK, KnownIds, Begin
<1>2. /\ restoring' = [rest EXCEPT !.at = "move", !.by = p, !.from = b] /\ barrier' = TRUE
      /\ restores' = restores + 1 /\ doubt' = [r \in Procs |-> doubt[r] \/ Checking(r)]
      /\ UNCHANGED <<artifact, folder, used, upload, check, mode, crashes,
                     bundle, making, strays, bundles>>
  BY DEF Begin
<1>3. /\ restoring'.at = "move" /\ restoring'.by = p /\ restoring'.from = b
      /\ restoring'.previous = rest.previous /\ restoring'.safety = rest.safety
  BY ONLY <1>2, RestsOK, rest = NotRestoring DEF RestoreRow
<1>4. restoring' \in RestoreRow
  BY <1>1, <1>2, RestsOK DEF RestoreRow, Stages
<1>5. /\ UNCHANGED <<OnRecord, OnDisk, InFlight>> /\ Aside' = {} /\ Saved' = {}
      /\ Wanted' = Registered(b.rows) /\ InFlight = {}
      /\ RowsOK(restoring'.from.rows) /\ RowsOK(restoring'.safety) /\ FolderOK(restoring'.previous)
  BY <1>1, <1>2, <1>3, RestsOK, EvidenceAssumption
     DEF OnRecord, OnDisk, InFlight, Aside, Saved, Wanted
<1>6. restores' \in 0..MaxRestores
  BY <1>1, <1>2, BundleAssumption
<1>7. /\ doubt' \in [Procs -> BOOLEAN]
      /\ \A r \in Procs : ~doubt'[r] => ~doubt[r] /\ ~Checking(r)
  <2>1. \A r \in Procs : (doubt[r] \/ Checking(r)) \in BOOLEAN
    BY DEF Checking
  <2>2. \A r \in Procs : doubt'[r] = (doubt[r] \/ Checking(r))
    BY <1>2
  <2>3. QED
    BY <1>2, <2>1, <2>2
<1>8. BundleTypeOK'
  <2>1. StoreTypeOK'
    BY <1>2, <1>7 DEF RecoveryInv, BundleTypeOK, StoreTypeOK
  <2>2. (barrier <=> restoring.at # "idle")'
    BY <1>2, <1>3
  <2>3. QED
    BY <1>1, <1>2, <1>3, <1>4, <1>6, <2>1, <2>2 DEF RecoveryInv, BundleTypeOK, RestoreRow
<1>9. UploadsOK'
  BY <1>1, <1>2 DEF UploadsOK
<1>10. KnownIds'
  BY <1>1, <1>2, <1>5 DEF RecoveryInv, KnownIds
<1>11. (restoring.at # "idle" => restoring.from.manifest = restoring.from.rows)'
  BY <1>1, <1>3 DEF Valid
<1>12. FilesAreFound'
  BY <1>1, <1>2, <1>3, <1>5 DEF FilesAreFound
<1>13. ASSUME NEW r \in Procs, Sure(r)' PROVE NoOthers'
  <2>1. Sure(r)
    BY <1>2, <1>7, <1>13 DEF Sure, Checking
  <2>2. NoOthers
    BY <2>1 DEF RecoveryInv
  <2>3. QED
    BY <1>1, <1>3, <1>5, <2>2 DEF NoOthers
<1>14. ASSUME NEW r \in Procs, Checking(r)' PROVE doubt'[r]
  BY <1>2, <1>7, <1>14 DEF Checking
<1>15. QED
  BY <1>2, <1>8, <1>9, <1>10, <1>11, <1>12, <1>13, <1>14 DEF RecoveryInv

\* At any stage.
LEMMA FoundSomewhere ==
    RecoveryInv => OnRecord \subseteq OnDisk \cup Aside \cup strays
<1> SUFFICES ASSUME RecoveryInv PROVE OnRecord \subseteq OnDisk \cup Aside \cup strays
  OBVIOUS
<1>1. restoring.at \in Stages /\ FilesAreFound
  BY DEF RecoveryInv, BundleTypeOK
<1>2. QED
  BY <1>1 DEF FilesAreFound, Stages

LEMMA CrashKeeps ==
    ASSUME RecoveryInv, NEW p \in Procs, Crash(p) PROVE RecoveryInv'
<1>. PICK own, left : own = (restoring.by = p) /\ left = (upload[p] # NoEvidence)
  OBVIOUS
<1>1. /\ StoreTypeOK /\ BundleTypeOK /\ KnownIds /\ FilesAreFound /\ UploadsOK
      /\ restoring.at # "idle" => restoring.from.manifest = restoring.from.rows
      /\ check.at = "idle" => check.by = NoProc
  BY DEF RecoveryInv, BundleTypeOK
<1>2. /\ crashes' = crashes + 1 /\ crashes < MaxCrashes
      /\ mode' = [mode EXCEPT ![p] = "DOWN"]
      /\ upload' = [upload EXCEPT ![p] = NoEvidence]
      /\ check' = IF Checking(p) THEN NoCheck ELSE check
      /\ doubt' = IF own \/ left THEN [r \in Procs |-> TRUE] ELSE doubt
      /\ making' = IF making.by = p THEN NotMaking ELSE making
      /\ restoring' = IF own THEN NotRestoring ELSE restoring
      /\ barrier' = (barrier /\ ~own)
      /\ strays' = IF own THEN strays \cup Aside ELSE strays
      /\ UNCHANGED <<artifact, used, folder, bundle, bundles, restores>>
  BY DEF Crash, Die, Aside
<1>3. /\ mode' \in [Procs -> {"DOWN", "HEALTHY", "READ_ONLY"}] /\ mode'[p] = "DOWN"
      /\ \A r \in Procs : r # p => mode'[r] = mode[r]
  BY <1>1, <1>2 DEF StoreTypeOK
<1>4. /\ upload' \in [Procs -> Evidence \cup {NoEvidence}] /\ upload'[p] = NoEvidence
      /\ \A r \in Procs : r # p => upload'[r] = upload[r]
  BY <1>1, <1>2 DEF StoreTypeOK
<1>5. /\ check' \in [at : {"idle", "files", "custody"}, by : Procs \cup {NoProc},
                     view : [Evidence -> Row], bad : BOOLEAN]
      /\ check'.at = "idle" => check'.by = NoProc
      /\ \A r \in Procs : r # p => (check'.by = r <=> check.by = r)
      /\ \A r \in Procs : check'.by = r => check' = check
  <2>1. CASE Checking(p)
    <3>1. NoRow \in Row
      BY EvidenceAssumption DEF NoRow, Row
    <3>2. check' = NoCheck /\ check.by = p
      BY <1>2, <2>1 DEF Checking
    <3>3. /\ NoCheck \in [at : {"idle", "files", "custody"}, by : Procs \cup {NoProc},
                          view : [Evidence -> Row], bad : BOOLEAN]
          /\ NoCheck.by = NoProc
      BY <3>1 DEF NoCheck
    <3>4. QED
      BY <3>2, <3>3, EvidenceAssumption
  <2>2. CASE ~Checking(p)
    BY <1>1, <1>2, <2>2 DEF StoreTypeOK
  <2>3. QED
    BY <2>1, <2>2
<1>6. doubt' \in [Procs -> BOOLEAN]
  BY <1>1, <1>2 DEF StoreTypeOK
<1>7. crashes' \in 0..MaxCrashes
  BY <1>1, <1>2, EvidenceAssumption DEF StoreTypeOK
<1>8. /\ making' \in [at : {"idle", "rows", "files"}, by : Procs \cup {NoProc}, draft : BundleRow]
      /\ Registered(making'.draft.rows) \subseteq used /\ RowsOK(making'.draft.rows)
  <2>1. /\ NotMaking \in [at : {"idle", "rows", "files"}, by : Procs \cup {NoProc}, draft : BundleRow]
        /\ Registered(NotMaking.draft.rows) = {} /\ RowsOK(NotMaking.draft.rows)
    <3>1. EmptyRows \in [Evidence -> Row] /\ Registered(EmptyRows) = {} /\ RowsOK(EmptyRows)
      BY EvidenceAssumption DEF EmptyRows, NoRow, Row, Registered, RowsOK
    <3>2. NoBundle \in BundleRow /\ NoBundle.rows = EmptyRows
      BY <3>1, EvidenceAssumption DEF NoBundle, BundleRow
    <3>3. QED
      BY <3>1, <3>2 DEF NotMaking
  <2>2. CASE making.by = p
    BY <1>2, <2>1, <2>2
  <2>3. CASE making.by # p
    BY <1>1, <1>2, <2>3 DEF BundleTypeOK, KnownIds
  <2>4. QED
    BY <2>2, <2>3
<1>9. /\ restoring' \in RestoreRow /\ barrier' \in BOOLEAN /\ (barrier' <=> restoring'.at # "idle")
      /\ restoring'.at # "idle" => restoring'.by \in Procs /\ mode'[restoring'.by] # "DOWN"
      /\ restoring'.at # "idle" => restoring'.from.manifest = restoring'.from.rows
      /\ RowsOK(restoring'.from.rows) /\ RowsOK(restoring'.safety) /\ FolderOK(restoring'.previous)
      /\ strays' \subseteq used /\ Aside' \cup Saved' \cup Wanted' \subseteq used
      /\ restoring'.at # "idle" => restoring' = restoring
  <2>1. CASE own
    <3>1. restoring' = NotRestoring /\ barrier' = FALSE /\ strays' = strays \cup Aside
      BY <1>2, <2>1
    <3>2. Aside \subseteq used /\ strays \subseteq used
      BY <1>1 DEF KnownIds, BundleTypeOK
    <3>3. QED
      BY <3>1, <3>2, RestsOK DEF Aside, Saved, Wanted
  <2>2. CASE ~own
    <3>1. UNCHANGED <<restoring, strays>> /\ barrier' = barrier /\ restoring.by # p
      BY <1>1, <1>2, <2>2 DEF StoreTypeOK
    <3>2. UNCHANGED <<Aside, Saved, Wanted>>
      BY <3>1 DEF Aside, Saved, Wanted
    <3>3. QED
      BY <1>1, <1>3, <3>1, <3>2 DEF BundleTypeOK, StoreTypeOK, KnownIds, RestoreRow
  <2>3. QED
    BY <2>1, <2>2
<1>10. StoreTypeOK'
  <2>1. \A r \in Procs : upload'[r] # NoEvidence => mode'[r] # "DOWN" /\ upload'[r] \in used'
    BY <1>1, <1>2, <1>3, <1>4 DEF StoreTypeOK
  <2>2. QED
    BY <1>1, <1>2, <1>3, <1>4, <1>5, <1>6, <1>7, <1>9, <2>1 DEF StoreTypeOK
<1>11. BundleTypeOK'
  BY <1>1, <1>2, <1>8, <1>9, <1>10 DEF BundleTypeOK, RestoreRow
<1>12. OnRecord' = OnRecord /\ OnDisk' = OnDisk
  BY <1>2 DEF OnRecord, OnDisk
<1>13. UploadsOK'
  BY <1>1, <1>4, <1>9, <1>12 DEF UploadsOK
<1>14. KnownIds'
  BY <1>1, <1>2, <1>8, <1>9, <1>12 DEF KnownIds
<1>15. FilesAreFound'
  <2>1. CASE own
    <3>1. restoring'.at = "idle" /\ Aside' = {} /\ strays' = strays \cup Aside
      BY <1>2, <2>1, RestsOK DEF Aside
    <3>2. QED
      BY <1>12, <3>1, FoundSomewhere DEF FilesAreFound
  <2>2. CASE ~own
    <3>1. UNCHANGED <<restoring, strays>>
      BY <1>2, <2>2
    <3>2. UNCHANGED <<Aside, Saved, Wanted>>
      BY <3>1 DEF Aside, Saved, Wanted
    <3>3. QED
      BY <1>1, <1>12, <3>1, <3>2 DEF FilesAreFound
  <2>3. QED
    BY <2>1, <2>2
<1>16. CASE own \/ left
  <2>1. \A r \in Procs : doubt'[r]
    BY <1>2, <1>16
  <2>2. QED
    BY <1>5, <1>9, <1>11, <1>13, <1>14, <1>15, <2>1 DEF RecoveryInv, Sure
<1>17. CASE ~own /\ ~left
  <2>1. UNCHANGED <<restoring, strays, doubt>> /\ upload[p] = NoEvidence
    BY <1>2, <1>17
  <2>2. \A r \in Procs : upload'[r] = upload[r]
    BY <1>4, <2>1
  <2>3. UNCHANGED <<InFlight, Aside, Saved, Wanted>>
    BY <2>1, <2>2 DEF InFlight, Aside, Saved, Wanted
  <2>4. ASSUME NEW r \in Procs, Sure(r)' PROVE NoOthers'
    <3>1. Sure(r)
      BY <1>3, <1>5, <2>1, <2>4 DEF Sure, Checking
    <3>2. NoOthers
      BY <3>1 DEF RecoveryInv
    <3>3. QED
      BY <1>12, <2>1, <2>3, <3>2 DEF NoOthers
  <2>5. ASSUME NEW r \in Procs, Checking(r)', ~doubt'[r] PROVE CheckSees'
    <3>1. Checking(r) /\ check' = check /\ ~doubt[r]
      BY <1>5, <2>1, <2>5 DEF Checking
    <3>2. CheckSees
      BY <3>1 DEF RecoveryInv
    <3>3. QED
      BY <1>12, <2>1, <2>3, <3>1, <3>2 DEF CheckSees
  <2>6. QED
    BY <1>5, <1>9, <1>11, <1>13, <1>14, <1>15, <2>4, <2>5 DEF RecoveryInv
<1>18. QED
  BY <1>16, <1>17

LEMMA RecoveryNextKeeps == RecoveryInv /\ [RecoveryNext]_recoveryVars => RecoveryInv'
<1> SUFFICES ASSUME RecoveryInv, [RecoveryNext]_recoveryVars PROVE RecoveryInv'
  OBVIOUS
<1>1. CASE UNCHANGED recoveryVars
  <2>1. /\ UNCHANGED <<artifact, folder, used, upload, check, mode, barrier, crashes, doubt>>
        /\ UNCHANGED <<bundle, making, restoring, strays, bundles, restores>>
    BY <1>1 DEF recoveryVars, storeVars, bundleVars
  <2>2. UNCHANGED <<OnRecord, OnDisk, Aside, Saved, Wanted, InFlight, StoreTypeOK>>
    BY <2>1 DEF OnRecord, OnDisk, Aside, Saved, Wanted, InFlight, StoreTypeOK
  <2>3. BundleTypeOK' /\ UploadsOK' /\ KnownIds' /\ FilesAreFound'
    BY <2>1, <2>2 DEF RecoveryInv, BundleTypeOK, UploadsOK, KnownIds, FilesAreFound
  <2>4. ASSUME NEW p \in Procs PROVE (Sure(p) => NoOthers)'
    BY <2>1, <2>2 DEF RecoveryInv, Sure, Checking, NoOthers
  <2>5. ASSUME NEW p \in Procs PROVE (Checking(p) /\ ~doubt[p] => CheckSees)'
    BY <2>1, <2>2 DEF RecoveryInv, Checking, CheckSees
  <2>6. QED
    BY <2>1, <2>3, <2>4, <2>5 DEF RecoveryInv
<1>2. ASSUME NEW p \in Procs, StoreStep(p), UNCHANGED bundleVars PROVE RecoveryInv'
  <2>1. CASE CommitRow(p) \/ ReadRows(p) \/ ListFiles(p) \/ RecordMode(p)
    BY <1>2, <2>1, CommitRowKeeps, ReadRowsKeeps, ListFilesKeeps, RecordModeKeeps
  <2>2. ASSUME NEW e \in Evidence, WriteFile(p, e) PROVE RecoveryInv'
    BY <1>2, <2>2, WriteFileKeeps
  <2>3. ASSUME NEW e \in Evidence,
               HandOver(p, e) \/ Scanned(p, e) \/ Download(p, e) \/ Retire(p, e)
        PROVE  RecoveryInv'
    <3>1. artifact[e] \in Row
      BY DEF RecoveryInv, BundleTypeOK, StoreTypeOK
    <3>2. PICK st \in {"ACTIVE", "RETIRED"} : artifact[e].status # "NONE" /\ Appended(e, st)
      BY <2>3, <3>1 DEF HandOver, Scanned, Download, Retire, Row
    <3>3. QED
      BY <1>2, <3>2, CustodyKeeps
  <2>4. QED
    BY <1>2, <2>1, <2>2, <2>3 DEF StoreStep
<1>3. ASSUME RestoreStep PROVE RecoveryInv'
  BY <1>3, MoveAsideKeeps, PlaceKeeps, BackUpKeeps, SwapKeeps, FailKeeps, ClearKeeps, EndKeeps
     DEF RestoreStep
<1>4. QED
  BY <1>1, <1>2, <1>3, MakingKeeps, RestoreBeginKeeps, CrashKeeps DEF RecoveryNext

\* For any evidence and processes, however a restore fails and whoever dies: the
\* file of every row is on disk, in place or in a directory that was moved aside.
THEOREM FilesAreKept == RecoverySpec => []EvidenceKept
<1>1. RecoveryInv => EvidenceKept
  BY FoundSomewhere DEF EvidenceKept, OnRecord, OnDisk, Aside
<1>2. QED
  BY RecoveryStarts, RecoveryNextKeeps, <1>1, PTL DEF RecoverySpec

\* A project found healthy has exactly the files of its rows, as long as nobody
\* died at work since, whatever uploads, checks and restores ran beside.
THEOREM HealthyStaysConsistent == RecoverySpec => []HealthyIsConsistent
<1>1. RecoveryInv => HealthyIsConsistent
  <2> SUFFICES ASSUME RecoveryInv, NEW p \in Procs, mode[p] = "HEALTHY", ~doubt[p], ~Checking(p),
                      ~barrier, \A r \in Procs : upload[r] = NoEvidence
               PROVE  Consistent(artifact, folder)
    BY DEF HealthyIsConsistent
  <2>1. restoring.at = "idle" /\ NoOthers
    BY DEF RecoveryInv, BundleTypeOK, Sure
  <2>2. InFlight = {}
    BY EvidenceAssumption DEF InFlight
  <2>3. QED
    BY <2>1, <2>2 DEF NoOthers, Consistent, OnRecord, OnDisk
<1>2. QED
  BY RecoveryStarts, RecoveryNextKeeps, <1>1, PTL DEF RecoverySpec

\* A restore that succeeds leaves exactly the evidence of its bundle.
THEOREM RestoresRepair == RecoverySpec => RestoreRepairs
<1>1. ASSUME RecoveryInv, Finish
      PROVE  Consistent(artifact', folder') /\ Registered(artifact') = Registered(restoring.from.rows)
  BY <1>1 DEF RecoveryInv, Finish, FilesAreFound, Consistent, OnRecord, OnDisk, Wanted
<1>2. RecoveryInv => [Finish => /\ Consistent(artifact', folder')
                               /\ Registered(artifact') = Registered(restoring.from.rows)]_recoveryVars
  BY <1>1
<1>3. QED
  BY RecoveryStarts, RecoveryNextKeeps, <1>2, PTL DEF RecoverySpec, RestoreRepairs

-----------------------------------------------------------------------------
(* Copies of bundles in the external directory.  A copy without a sidecar   *)
(* is one whose job is about to write it, or whose worker died.  A pruning  *)
(* is a job's too, so that there are fewer of them than it leaves: the      *)
(* newest verified copy is among those.                                     *)

Unplaced == {"new", "writing", "written", "pruned", "copying"}
Ends == {"new", "failed", "lost", "done"}
Died == {j \in Attempts : backup[j] = "lost"}

RetentionTypeOK ==
    /\ backup \in [Attempts -> Working \cup Ends]
    /\ vault \subseteq Attempts /\ losses \in Nat
    /\ vaultOrder \in Seq(Attempts)

\* Each copy was placed once.
OrderOK ==
    /\ \A i \in DOMAIN vaultOrder :
          backup[vaultOrder[i]] \notin Unplaced
    /\ \A i, m \in DOMAIN vaultOrder : vaultOrder[i] = vaultOrder[m] => i = m
    /\ \A k \in vault : \E i \in DOMAIN vaultOrder : vaultOrder[i] = k

UnlistedOK == \A k \in vault \ sidecars : backup[k] \in {"copied", "lost"}

CountsOK ==
    /\ Cardinality(Running) <= Workers
    /\ Cardinality(Died) <= losses /\ losses <= MaxLosses

RetentionInv ==
    RetentionTypeOK /\ OrderOK /\ UnlistedOK /\ CountsOK /\ ProtectedStays

LEMMA AttemptsFinite ==
    IsFiniteSet(Attempts) /\ \A S \in SUBSET Attempts : IsFiniteSet(S) /\ Cardinality(S) \in Nat
<1>1. IsFiniteSet(Attempts)
  BY FS_Interval, RetentionAssumption DEF Attempts
<1>2. QED
  BY <1>1, FS_Subset, FS_CardinalityType

LEMMA OneMore ==
    ASSUME NEW S, IsFiniteSet(S), NEW x
    PROVE  /\ IsFiniteSet(S \cup {x}) /\ Cardinality(S \cup {x}) \in Nat
           /\ Cardinality(S \cup {x}) <= Cardinality(S) + 1
<1>1. IsFiniteSet(S \cup {x})
  BY FS_AddElement
<1>2. Cardinality(S \cup {x}) = IF x \in S THEN Cardinality(S) ELSE Cardinality(S) + 1
  BY FS_AddElement
<1>3. Cardinality(S) \in Nat /\ Cardinality(S \cup {x}) \in Nat
  BY <1>1, FS_CardinalityType
<1>. DEFINE a == Cardinality(S \cup {x})
            b == Cardinality(S)
<1>. HIDE DEF a, b
<1>4. a = (IF x \in S THEN b ELSE b + 1) /\ b \in Nat
  BY <1>2, <1>3 DEF a, b
<1>5. a <= b + 1
  BY <1>4
<1>6. QED
  BY <1>1, <1>3, <1>5 DEF a, b

LEMMA RetentionStarts == RetentionInit => RetentionInv
<1>. SUFFICES ASSUME RetentionInit PROVE RetentionInv
  OBVIOUS
<1>. USE DEF RetentionInit
<1>1. RetentionTypeOK
  BY DEF RetentionTypeOK, Ends
<1>2. OrderOK /\ UnlistedOK /\ ProtectedStays
  BY DEF OrderOK, UnlistedOK, ProtectedStays, Unplaced
<1>3. Running = {} /\ Died = {}
  BY DEF Running, Died, Working
<1>4. CountsOK
  BY <1>3, FS_EmptySet, RetentionAssumption DEF CountsOK
<1>5. QED
  BY <1>1, <1>2, <1>4 DEF RetentionInv

\* A step of a job that neither places nor prunes a copy.
Works(j, next) ==
    /\ backup' = [backup EXCEPT ![j] = next]
    /\ next \in Working \cup {"failed", "done"}
    /\ j \in Running \/ (next \in Working /\ Cardinality(Running) < Workers /\ backup[j] = "new")
    /\ next \in Unplaced => backup[j] \in Unplaced
    /\ backup[j] = "copied" => j \in sidecars'
    /\ next = "done" => j \in Verified
    /\ UNCHANGED <<vault, vaultOrder, losses>> /\ sidecars \subseteq sidecars'

LEMMA WorkKeeps ==
    ASSUME RetentionInv, NEW j \in Attempts, NEW next, Works(j, next)
    PROVE  RetentionInv'
<1>. next \in Working \cup Ends
  BY DEF Works, Ends
<1>. USE DEF Works
<1>. USE DEF RetentionInv
<1>1. RetentionTypeOK'
  BY DEF RetentionTypeOK
<1>2. OrderOK'
  BY DEF OrderOK, RetentionTypeOK
<1>3. UnlistedOK'
  BY DEF UnlistedOK, RetentionTypeOK, Running, Working
<1>4. CountsOK'
  <2>1. IsFiniteSet(Running) /\ Cardinality(Running) \in Nat /\ Running \subseteq Attempts
    BY AttemptsFinite DEF Running
  <2>2. Cardinality(Running \cup {j}) <= Workers /\ IsFiniteSet(Running \cup {j})
    <3>1. CASE j \in Running
      <4>1. Running \cup {j} = Running
        BY <3>1
      <4>2. QED
        BY <2>1, <4>1 DEF CountsOK
    <3>2. CASE Cardinality(Running) < Workers
      <4>1. /\ IsFiniteSet(Running \cup {j}) /\ Cardinality(Running \cup {j}) \in Nat
            /\ Cardinality(Running \cup {j}) <= Cardinality(Running) + 1
        BY <2>1, OneMore
      <4>2. QED
        BY <2>1, <3>2, <4>1, RetentionAssumption
    <3>3. QED
      BY <3>1, <3>2
  <2>3. Running' \subseteq Running \cup {j}
    BY DEF Running, RetentionTypeOK
  <2>4. Cardinality(Running') <= Workers
    <3>1. Cardinality(Running') <= Cardinality(Running \cup {j})
      BY <2>2, <2>3, FS_Subset
    <3>2. Cardinality(Running') \in Nat /\ Cardinality(Running \cup {j}) \in Nat
      BY <2>2, <2>3, FS_Subset, FS_CardinalityType
    <3>3. QED
      BY <2>2, <3>1, <3>2, RetentionAssumption
  <2>5. Died' = Died
    BY DEF Died, Running, RetentionTypeOK, Working, Ends
  <2>6. QED
    BY <2>4, <2>5 DEF CountsOK
<1>5. ProtectedStays'
  <2>. SUFFICES ASSUME RemoteKeep >= Workers + MaxLosses, NEW i \in Attempts, backup'[i] = "done"
                PROVE  \E k \in Verified' : k = i \/ Later(vaultOrder, i, k)'
    BY DEF ProtectedStays
  <2>1. Verified \subseteq Verified'
    BY DEF Verified
  <2>2. \E k \in Verified : k = i \/ Later(vaultOrder, i, k)
    BY DEF ProtectedStays, RetentionTypeOK
  <2>3. QED
    BY <2>1, <2>2 DEF Later
<1>6. QED
  BY <1>1, <1>2, <1>3, <1>4, <1>5

LEMMA PlaceCopyKeeps ==
    ASSUME RetentionInv, NEW j \in Attempts, PlaceCopy(j)
    PROVE  RetentionInv'
<1>. USE DEF RetentionInv, PlaceCopy, Unplaced
<1>1. RetentionTypeOK'
  BY DEF RetentionTypeOK, Working
<1>2. /\ DOMAIN vaultOrder = 1..Len(vaultOrder) /\ Len(vaultOrder) \in Nat
      /\ DOMAIN vaultOrder' = 1..Len(vaultOrder) + 1 /\ vaultOrder'[Len(vaultOrder) + 1] = j
      /\ \A i \in DOMAIN vaultOrder : vaultOrder'[i] = vaultOrder[i]
  BY AppendProperties DEF RetentionTypeOK
<1>3. OrderOK'
  <2>1. \A i \in DOMAIN vaultOrder : vaultOrder[i] # j
    BY DEF OrderOK
  <2>2. \A i \in DOMAIN vaultOrder :
           backup'[vaultOrder[i]] \notin Unplaced
    BY <2>1 DEF OrderOK, RetentionTypeOK
  <2>3. backup'[j] = "copied"
    BY DEF RetentionTypeOK
  <2>4. \A k \in vault : \E i \in DOMAIN vaultOrder' : vaultOrder'[i] = k
    <3>1. ASSUME NEW k \in vault PROVE \E i \in DOMAIN vaultOrder' : vaultOrder'[i] = k
      <4>1. PICK i \in DOMAIN vaultOrder : vaultOrder[i] = k
        BY DEF OrderOK
      <4>2. QED
        BY <1>2, <4>1
    <3>2. QED
      BY <3>1
  <2>5. \E i \in DOMAIN vaultOrder' : vaultOrder'[i] = j
    BY <1>2
  <2>6. \A i \in DOMAIN vaultOrder' :
           backup'[vaultOrder'[i]] \notin Unplaced
    BY <1>2, <2>2, <2>3
  <2>7. \A i, m \in DOMAIN vaultOrder' : vaultOrder'[i] = vaultOrder'[m] => i = m
    BY <1>2, <2>1 DEF OrderOK
  <2>8. QED
    BY <2>4, <2>5, <2>6, <2>7 DEF OrderOK
<1>4. UnlistedOK'
  BY DEF UnlistedOK, RetentionTypeOK
<1>5. CountsOK'
  <2>1. Running' = Running /\ Died' = Died
    BY DEF Running, Died, Working, RetentionTypeOK
  <2>2. QED
    BY <2>1 DEF CountsOK
<1>6. ProtectedStays'
  <2>. SUFFICES ASSUME RemoteKeep >= Workers + MaxLosses, NEW i \in Attempts, backup'[i] = "done"
                PROVE  \E k \in Verified' : k = i \/ Later(vaultOrder, i, k)'
    BY DEF ProtectedStays
  <2>1. Verified \subseteq Verified'
    BY DEF Verified
  <2>2. PICK k \in Verified : k = i \/ Later(vaultOrder, i, k)
    BY DEF ProtectedStays, RetentionTypeOK
  <2>3. Later(vaultOrder, i, k) => Later(vaultOrder, i, k)'
    BY <1>2 DEF Later
  <2>4. QED
    BY <2>1, <2>2, <2>3
<1>7. QED
  BY <1>1, <1>3, <1>4, <1>5, <1>6

\* From each verified copy on there is a newest one.
LEMMA NewestVerified ==
    ASSUME RetentionInv, NEW k \in Verified
    PROVE  \E v \in Verified : /\ v = k \/ Later(vaultOrder, k, v)
                               /\ \A u \in Verified : ~Later(vaultOrder, v, u)
<1>. USE DEF RetentionInv
<1>1. DOMAIN vaultOrder = 1..Len(vaultOrder) /\ Len(vaultOrder) \in Nat
  BY DEF RetentionTypeOK
<1>2. PICK p \in DOMAIN vaultOrder : vaultOrder[p] = k
  BY DEF OrderOK, Verified
<1>. DEFINE T == {i \in DOMAIN vaultOrder : vaultOrder[i] \in Verified /\ p <= i}
<1>3. T \in SUBSET Nat /\ p \in T /\ \A i \in T : i <= Len(vaultOrder)
  BY <1>1, <1>2
<1>4. PICK q \in T : \A i \in T : i <= q
  BY <1>1, <1>3, GreatestNumber
<1>5. vaultOrder[q] \in Verified /\ p <= q /\ q \in DOMAIN vaultOrder
  BY <1>4
<1>6. vaultOrder[q] = k \/ Later(vaultOrder, k, vaultOrder[q])
  BY <1>1, <1>2, <1>5 DEF Later
<1>7. ASSUME NEW u \in Verified, Later(vaultOrder, vaultOrder[q], u) PROVE FALSE
  <2>1. PICK i \in DOMAIN vaultOrder, m \in DOMAIN vaultOrder :
           i < m /\ vaultOrder[i] = vaultOrder[q] /\ vaultOrder[m] = u
    BY <1>7 DEF Later
  <2>2. i = q
    BY <1>5, <2>1 DEF OrderOK
  <2>3. m \in T
    BY <1>1, <1>5, <2>1, <2>2, <1>7
  <2>4. QED
    BY <1>1, <1>3, <1>4, <2>1, <2>2, <2>3
<1>8. QED
  BY <1>5, <1>6, <1>7

\* Those in front of it have no sidecar: they are of other jobs, or of dead ones.
LEMMA FewUnlisted ==
    ASSUME RetentionInv, RemoteKeep >= Workers + MaxLosses, NEW j \in Attempts, backup[j] = "listed",
           NEW v \in Verified, \A u \in Verified : ~Later(vaultOrder, v, u)
    PROVE  v \in Newest(vault, vaultOrder, RemoteKeep)
<1>. DEFINE Ahead == {k \in vault : Later(vaultOrder, v, k)}
            Others == Running \ {j}
<1>. USE DEF RetentionInv
<1>1. j \in Running /\ Running \subseteq Attempts /\ Died \subseteq Attempts
  BY DEF Running, Died, Working
<1>2. Ahead \subseteq Others \cup Died
  <2>1. ASSUME NEW k \in Ahead PROVE k \in Others \cup Died
    <3>1. k \in vault \ sidecars /\ k \in Attempts
      BY <2>1 DEF Verified, RetentionTypeOK
    <3>2. backup[k] \in {"copied", "lost"}
      BY <3>1 DEF UnlistedOK
    <3>3. QED
      BY <3>1, <3>2 DEF Running, Working, Died
  <2>2. QED
    BY <2>1
<1>3. /\ IsFiniteSet(Running) /\ Cardinality(Running) \in Nat
      /\ IsFiniteSet(Died) /\ Cardinality(Died) \in Nat
  BY <1>1, AttemptsFinite
<1>4. IsFiniteSet(Others) /\ Cardinality(Others) = Cardinality(Running) - 1
  BY <1>1, <1>3, FS_RemoveElement
<1>5. /\ IsFiniteSet(Others \cup Died)
      /\ Cardinality(Others \cup Died) = Cardinality(Others) + Cardinality(Died) - Cardinality(Others \cap Died)
  BY <1>3, <1>4, FS_Union
<1>6. Cardinality(Others \cap Died) \in Nat
  BY <1>1, AttemptsFinite
<1>7. Cardinality(Ahead) <= Cardinality(Others \cup Died) /\ Cardinality(Ahead) \in Nat
  BY <1>2, <1>5, FS_Subset, FS_CardinalityType
<1>8. Cardinality(Others \cup Died) \in Nat
  BY <1>5, FS_CardinalityType
<1>9. Cardinality(Running) <= Workers /\ Cardinality(Died) <= MaxLosses
  BY <1>3, RetentionAssumption DEF CountsOK, RetentionTypeOK
<1>. HIDE DEF Others, Ahead
<1>10. Cardinality(Ahead) < RemoteKeep
  BY <1>3, <1>4, <1>5, <1>6, <1>7, <1>8, <1>9, RetentionAssumption
<1>11. v \in vault
  BY DEF Verified
<1>12. QED
  BY <1>10, <1>11 DEF Newest, Ahead

LEMMA LaterStill ==
    ASSUME RetentionInv, NEW i, NEW k, NEW v, Later(vaultOrder, i, k), Later(vaultOrder, k, v)
    PROVE  Later(vaultOrder, i, v)
<1>. USE DEF RetentionInv
<1>1. DOMAIN vaultOrder = 1..Len(vaultOrder) /\ Len(vaultOrder) \in Nat
  BY DEF RetentionTypeOK
<1>2. PICK a \in DOMAIN vaultOrder, b \in DOMAIN vaultOrder :
         a < b /\ vaultOrder[a] = i /\ vaultOrder[b] = k
  BY DEF Later
<1>3. PICK c \in DOMAIN vaultOrder, d \in DOMAIN vaultOrder :
         c < d /\ vaultOrder[c] = k /\ vaultOrder[d] = v
  BY DEF Later
<1>4. b = c
  BY <1>2, <1>3 DEF OrderOK
<1>5. QED
  BY <1>1, <1>2, <1>3, <1>4 DEF Later

LEMMA PruneVaultKeeps ==
    ASSUME RetentionInv, NEW j \in Attempts, PruneVault(j)
    PROVE  RetentionInv'
<1>. USE DEF RetentionInv, PruneVault, Unplaced
<1>1. vault' \subseteq vault
  BY DEF Newest
<1>2. RetentionTypeOK'
  BY <1>1 DEF RetentionTypeOK, Working
<1>3. OrderOK'
  BY <1>1 DEF OrderOK, RetentionTypeOK
<1>4. UnlistedOK'
  BY <1>1 DEF UnlistedOK, RetentionTypeOK
<1>5. CountsOK'
  <2>1. Running' = Running /\ Died' = Died
    BY DEF Running, Died, Working, RetentionTypeOK
  <2>2. QED
    BY <2>1 DEF CountsOK
<1>6. ProtectedStays'
  <2>. SUFFICES ASSUME RemoteKeep >= Workers + MaxLosses, NEW i \in Attempts, backup'[i] = "done"
                PROVE  \E k \in Verified' : k = i \/ Later(vaultOrder, i, k)'
    BY DEF ProtectedStays
  <2>1. PICK k \in Verified : k = i \/ Later(vaultOrder, i, k)
    BY DEF ProtectedStays, RetentionTypeOK
  <2>2. PICK v \in Verified : /\ v = k \/ Later(vaultOrder, k, v)
                              /\ \A u \in Verified : ~Later(vaultOrder, v, u)
    BY NewestVerified
  <2>3. v \in vault'
    BY <2>2, FewUnlisted
  <2>4. v \in Verified'
    BY <2>3 DEF Verified
  <2>5. v = i \/ Later(vaultOrder, i, v)
    BY <2>1, <2>2, LaterStill
  <2>6. QED
    BY <2>4, <2>5 DEF Later
<1>7. QED
  BY <1>2, <1>3, <1>4, <1>5, <1>6

LEMMA LoseKeeps ==
    ASSUME RetentionInv, NEW j \in Attempts, Lose(j)
    PROVE  RetentionInv'
<1>. USE DEF RetentionInv, Lose, Unplaced
<1>1. RetentionTypeOK'
  BY DEF RetentionTypeOK, Ends
<1>2. OrderOK'
  <2>1. backup'[j] = "lost"
    BY DEF RetentionTypeOK
  <2>2. QED
    BY <2>1 DEF OrderOK, RetentionTypeOK
<1>3. UnlistedOK'
  BY DEF UnlistedOK, RetentionTypeOK
<1>4. CountsOK'
  <2>1. Running' \subseteq Running /\ Running \subseteq Attempts /\ Died \subseteq Attempts
    BY DEF Running, Died, RetentionTypeOK, Working
  <2>2. Died' = Died \cup {j}
    BY DEF Died, RetentionTypeOK
  <2>3. IsFiniteSet(Died) /\ Cardinality(Died) \in Nat /\ IsFiniteSet(Running) /\ Cardinality(Running) \in Nat
    BY <2>1, AttemptsFinite
  <2>4. Cardinality(Died') <= Cardinality(Died) + 1 /\ Cardinality(Died') \in Nat
    BY <2>2, <2>3, OneMore
  <2>5. Cardinality(Running') <= Cardinality(Running) /\ Cardinality(Running') \in Nat
    BY <2>1, <2>3, FS_Subset, FS_CardinalityType
  <2>6. losses' = losses + 1 /\ losses < MaxLosses /\ losses \in Nat
    BY DEF RetentionTypeOK
  <2>7. Cardinality(Running') <= Workers
    BY <2>3, <2>5, RetentionAssumption DEF CountsOK
  <2>8. Cardinality(Died') <= losses' /\ losses' <= MaxLosses
    BY <2>3, <2>4, <2>6, RetentionAssumption DEF CountsOK
  <2>9. QED
    BY <2>7, <2>8 DEF CountsOK
<1>5. ProtectedStays'
  BY DEF ProtectedStays, RetentionTypeOK, Verified, Later
<1>6. QED
  BY <1>1, <1>2, <1>3, <1>4, <1>5

LEMMA RetentionStep == RetentionInv /\ [RetentionNext]_retentionVars => RetentionInv'
<1>. SUFFICES ASSUME RetentionInv, [RetentionNext]_retentionVars PROVE RetentionInv'
  OBVIOUS
<1>1. ASSUME NEW j \in Attempts, OpenArchive(j) PROVE RetentionInv'
  <2>1. Works(j, "writing")
    BY <1>1 DEF Works, OpenArchive, Running, Working, Unplaced
  <2>2. QED
    BY <2>1, WorkKeeps
<1>2. ASSUME NEW j \in Attempts, CloseArchive(j) PROVE RetentionInv'
  <2>1. Works(j, IF j \in shelf THEN "written" ELSE "failed")
    BY <1>2 DEF Works, CloseArchive, Running, Working, Unplaced
  <2>2. QED
    BY <2>1, WorkKeeps
<1>3. ASSUME NEW j \in Attempts, PruneShelf(j) PROVE RetentionInv'
  <2>1. Works(j, "pruned")
    BY <1>3 DEF Works, PruneShelf, Running, Working, Unplaced
  <2>2. QED
    BY <2>1, WorkKeeps
<1>4. ASSUME NEW j \in Attempts, OpenSource(j) PROVE RetentionInv'
  <2>1. Works(j, IF j \in shelf THEN "copying" ELSE "failed")
    BY <1>4 DEF Works, OpenSource, Running, Working, Unplaced
  <2>2. QED
    BY <2>1, WorkKeeps
<1>5. ASSUME NEW j \in Attempts, PlaceSidecar(j) PROVE RetentionInv'
  <2>1. Works(j, "listed")
    BY <1>5 DEF Works, PlaceSidecar, Running, Working, Unplaced
  <2>2. QED
    BY <2>1, WorkKeeps
<1>6. ASSUME NEW j \in Attempts, Report(j) PROVE RetentionInv'
  <2>0. j \in vault => j \in Verified
    BY <1>6 DEF Report, Verified, RetentionInv, UnlistedOK
  <2>1. Works(j, IF j \in vault THEN "done" ELSE "failed")
    BY <1>6, <2>0 DEF Works, Report, Running, Working, Unplaced
  <2>2. QED
    BY <2>1, WorkKeeps
<1>7. CASE UNCHANGED retentionVars
  BY <1>7 DEF retentionVars, RetentionInv, RetentionTypeOK, OrderOK, UnlistedOK, CountsOK, Running, Died,
              ProtectedStays, Verified, Later
<1>8. QED
  BY <1>1, <1>2, <1>3, <1>4, <1>5, <1>6, <1>7, PlaceCopyKeeps, PruneVaultKeeps, LoseKeeps
  DEF RetentionNext, BackupStep

\* A job that reported a protected backup leaves a verified external copy at
\* least as recent, whatever is pruned and whoever dies, given enough retention.
THEOREM ProtectedBackupStays == RetentionSpec => []ProtectedStays
<1>1. RetentionInv => ProtectedStays
  BY DEF RetentionInv
<1>2. QED
  BY <1>1, RetentionStarts, RetentionStep, PTL DEF RetentionSpec

-----------------------------------------------------------------------------
(* The history of an installation.  The keyring authenticates the log       *)
(* between two commands because each one that changes them leaves a pair    *)
(* that does, keeps one to put back, or lets its journal pend.  A sound     *)
(* tree stays because a deployment returns to the tree it replaced, which   *)
(* a pruning removes only beside a newer sealed one.                        *)

LineRow == [n : Nat, key : Nat]
RingRow == [keys : SUBSET Nat, current : Nat, mark : Seq(LineRow)]
UndoRow == [ring : RingRow, log : Seq(LineRow), seals : {<<>>} \cup [Trees -> Nat]]
PairRow == [ring : RingRow, log : Seq(LineRow), witness : Seq(LineRow)]
JournalRow == [at : {"none", "made", "prepared", "committed", "bare"}, ring : RingRow, log : Seq(LineRow)]

Commands == {"nothing", "rotate", "backupKey", "restoreKey", "adopt", "deploy", "rollback",
             "prune", "note", "bundle", "recover", "restore"}
Recovering == {"recover", "key", "clear", "cleared", "validate", "mkdir", "manifest",
               "putLog", "putKey", "commit"}
Following == {"idle", "seal", "out", "prune", "remove", "final", "commit"}
Steps == Recovering \cup Following \cup
         {"line", "mark", "raised", "reseal", "installed", "in", "check"}

OpRow == [do : Commands, at : Steps, then : Following, tree : Nat, was : Nat,
          todo : SUBSET Nat, undo : UndoRow]

RingOK(r) == r = NoRing \/ (0 \notin r.keys /\ r.current \in r.keys)

FilesOK ==
    /\ ring \in RingRow /\ RingOK(ring)
    /\ minted \in Nat /\ lines \in Nat
    /\ log \in Seq(LineRow) /\ witness \in Seq(LineRow)
    /\ keyCopy \in RingRow /\ RingOK(keyCopy)
    /\ pairCopy \in PairRow /\ RingOK(pairCopy.ring)
    /\ journal \in JournalRow /\ RingOK(journal.ring)
    /\ op \in OpRow /\ RingOK(op.undo.ring)
    /\ damaged \in BOOLEAN /\ cut \in BOOLEAN

TreesOK ==
    /\ installed \in Nat /\ installed <= MaxTrees
    /\ target \in 0..installed /\ retained \subseteq 1..installed /\ proven \subseteq 1..installed
    /\ seals \in [Trees -> Nat]
    /\ op.was <= installed
    /\ op.tree <= installed

Auth(r, l) == (\A i \in DOMAIN l : l[i].key \in r.keys) /\ IsPrefix(r.mark, l)

Trying == op.do = "restoreKey" /\ op.at \in {"installed", "raised"}

LogOK ==
    /\ ~damaged /\ ~cut /\ ~Pending /\ ~Trying => Auth(ring, Whole(log))
    /\ op.do \in {"rotate", "restoreKey"} /\ ~damaged /\ ~cut /\ ~Pending
       => Auth(op.undo.ring, Whole(op.undo.log))
    /\ op.do = "restore" /\ ~damaged /\ ~cut
       /\ op.at \in {"mkdir", "manifest", "putLog", "putKey", "line", "mark", "commit", "raised"}
       => Auth(op.undo.ring, Whole(op.undo.log))
    /\ op.at \in {"commit", "clear", "cleared"} \/ (op.at \in {"line", "mark"} /\ op.then = "commit")
       => Auth(ring, log)
    /\ op.at \in {"key", "clear", "cleared", "manifest", "putLog", "putKey"} => Pending
    /\ op.at = "validate" => ~Pending
    /\ op.at \in Recovering \/ op.then = "commit" => op.do \in {"restore", "recover"}

Sound(t) == t \in proven \/ seals[t] # 0

Removing == op.at = "remove" \/ (op.at \in {"line", "mark"} /\ op.then = "remove")
MovingOut == op.at = "out" \/ (op.at \in {"line", "mark"} /\ op.then = "out")

\* Which command takes which steps.
PhaseOK ==
    /\ op.at \in {"out", "in", "check"} => op.do \in {"deploy", "rollback"}
    /\ op.at = "seal" => op.do \in {"deploy", "rollback", "adopt"}
    /\ op.at \in {"prune", "remove"} \/ op.then \in {"prune", "remove"} => op.do \in {"deploy", "rollback", "prune"}
    /\ op.at = "final" \/ op.then = "final" => op.do = "deploy"
    /\ op.then = "out" => op.do = "rollback"
    /\ op.then = "seal" => op.do = "adopt"
    /\ op.at = "reseal" => op.do = "rotate"
    /\ op.at = "installed" => op.do = "restoreKey"

\* The trees while they are exchanged: deploying, op.tree is new.
SwapOK ==
    /\ op.do \in {"deploy", "rollback"} => op.tree \in Trees
    /\ MovingOut => target = op.was
    /\ op.at = "in" => target = NoTree
    /\ op.do \in {"deploy", "rollback"} /\ op.at \in {"check", "seal"} => target = op.tree
    /\ op.do = "deploy" =>
          /\ op.tree \in Trees \ retained /\ op.was # op.tree
          /\ op.at \in {"out", "in", "check"} => op.tree \notin proven
          /\ op.at \notin {"out", "in"} => target = op.tree
          /\ op.at # "out" /\ proven \ {op.tree} # {} => \E t \in retained : t # op.tree /\ Sound(t)

\* Some managed tree stays.
RemovalOK ==
    Removing => /\ op.todo \subseteq 1..installed
                /\ op.todo # {} => \E t \in retained \ op.todo : seals[t] # 0

RotationOK ==
    /\ op.at = "reseal" => ring.current # 0
    /\ op.do = "rotate" =>
          /\ op.at \in {"reseal", "line", "mark", "raised"} /\ op.then = "idle"
          /\ op.undo.seals \in [Trees -> Nat] /\ op.todo \subseteq Trees
          /\ \A t \in Trees : seals[t] # 0 \/ t \in op.todo => op.undo.seals[t] # 0

KeptInv == TreeKept /\ PhaseOK /\ SwapOK /\ RemovalOK /\ RotationOK
HistoryInv == FilesOK /\ TreesOK /\ LogOK /\ KeptInv

-----------------------------------------------------------------------------
LEMMA EmptyLog ==
    /\ <<>> \in Seq(LineRow) /\ Auth(NoRing, <<>>) /\ NoRing \in RingRow /\ RingOK(NoRing)
    /\ \A l \in Seq(LineRow) : Auth(NoRing, l) => l = <<>>
<1>1. <<>> \in Seq(LineRow) /\ NoRing \in RingRow /\ RingOK(NoRing)
  BY DEF NoRing, RingRow, RingOK
<1>2. Auth(NoRing, <<>>)
  BY DEF Auth, NoRing, IsPrefix
<1>3. ASSUME NEW l \in Seq(LineRow), Auth(NoRing, l), l # <<>> PROVE FALSE
  <2>1. 1 \in DOMAIN l
    BY <1>3
  <2>2. l[1].key \in NoRing.keys
    BY <1>3, <2>1 DEF Auth
  <2>3. QED
    BY <2>2 DEF NoRing
<1>4. QED
  BY <1>1, <1>2, <1>3

LEMMA AuthAppends ==
    ASSUME NEW r \in RingRow, NEW l \in Seq(LineRow), NEW x \in LineRow, x.key \in r.keys, Auth(r, l)
    PROVE  Append(l, x) \in Seq(LineRow) /\ Auth(r, Append(l, x))
<1>1. /\ Append(l, x) \in Seq(LineRow) /\ Len(Append(l, x)) = Len(l) + 1 /\ Append(l, x)[Len(l) + 1] = x
      /\ \A i \in 1..Len(l) : Append(l, x)[i] = l[i]
  BY AppendProperties
<1>2. \A i \in DOMAIN Append(l, x) : Append(l, x)[i].key \in r.keys
  BY <1>1 DEF Auth
<1>. PICK mark \in Seq(LineRow) : mark = r.mark
  BY DEF RingRow
<1>3. Len(mark) <= Len(l) /\ SubSeq(mark, 1, Len(mark)) = SubSeq(l, 1, Len(mark))
  BY DEF Auth, IsPrefix
<1>4. SubSeq(Append(l, x), 1, Len(mark)) = SubSeq(l, 1, Len(mark))
  <2>. DEFINE n == Len(mark)
              a == SubSeq(Append(l, x), 1, n)
              b == SubSeq(l, 1, n)
  <2>1. n \in 0..Len(l)
    BY <1>3
  <2>2. a \in Seq(LineRow) /\ Len(a) = n /\ \A i \in 1..n : a[i] = Append(l, x)[i]
    BY <1>1, <2>1, SubSeqProperties
  <2>3. b \in Seq(LineRow) /\ Len(b) = n /\ \A i \in 1..n : b[i] = l[i]
    BY <2>1, SubSeqProperties
  <2>. HIDE DEF n, a, b
  <2>4. \A i \in 1..n : a[i] = b[i]
    <3>1. 1..n \subseteq 1..Len(l)
      BY <2>1
    <3>2. QED
      BY ONLY <3>1, <1>1, <2>2, <2>3
  <2>5. a = b
    BY ONLY <2>2, <2>3, <2>4, SeqEqual
  <2>6. QED
    BY <2>5 DEF a, b, n
<1>5. IsPrefix(mark, Append(l, x))
  BY <1>1, <1>3, <1>4 DEF IsPrefix
<1>6. QED
  BY <1>1, <1>2, <1>5 DEF Auth

LEMMA VerifiesIs ==
    ASSUME NEW r, NEW l PROVE Verifies(r, l) <=> Len(l) <= MaxLines /\ Auth(r, l)
BY DEF Verifies, Auth

\* The checkpoint is the log.
LEMMA AuthMarked ==
    ASSUME NEW r \in RingRow, RingOK(r), NEW l \in Seq(LineRow), Auth(r, l)
    PROVE  LET marked == [r EXCEPT !.mark = l]
           IN marked \in RingRow /\ RingOK(marked) /\ Auth(marked, l)
<1>. PICK marked : marked = [r EXCEPT !.mark = l]
  OBVIOUS
<1>1. marked \in RingRow /\ marked.keys = r.keys /\ marked.current = r.current /\ marked.mark = l
  BY DEF RingRow
<1>2. RingOK(marked)
  <2>1. CASE r = NoRing
    <3>1. l = <<>>
      BY <2>1, EmptyLog
    <3>2. marked = NoRing
      BY <2>1, <3>1 DEF NoRing
    <3>3. QED
      BY <3>2 DEF RingOK
  <2>2. QED
    BY <1>1, <2>1 DEF RingOK
<1>3. IsPrefix(l, l)
  BY DEF IsPrefix
<1>4. Auth(marked, l)
  BY <1>1, <1>3 DEF Auth
<1>5. QED
  BY <1>1, <1>2, <1>4

\* A line that was written in part has no key of any ring.
LEMMA WholeIs ==
    ASSUME NEW l \in Seq(LineRow)
    PROVE  /\ Whole(l) \in Seq(LineRow)
           /\ \A r \in RingRow : RingOK(r) /\ Auth(r, l) => Whole(l) = l
           /\ Append(l, Torn) \in Seq(LineRow) /\ Whole(Append(l, Torn)) = l
<1>1. ASSUME l # <<>> PROVE Front(l) \in Seq(LineRow) /\ Last(l) = l[Len(l)] /\ Len(l) \in DOMAIN l
  <2>1. Len(l) \in Nat /\ Len(l) # 0
    BY <1>1
  <2>2. \A i \in 1 .. Len(l) - 1 : l[i] \in LineRow
    BY <2>1
  <2>3. QED
    BY <2>1, <2>2, SubSeqProperties DEF Front, Last
<1>2. Whole(l) \in Seq(LineRow)
  BY <1>1 DEF Whole
<1>3. ASSUME NEW r \in RingRow, RingOK(r), Auth(r, l), l # <<>>, Last(l) = Torn PROVE FALSE
  <2>1. 0 \in r.keys
    BY <1>1, <1>3 DEF Auth, Torn
  <2>2. QED
    BY <1>3, <2>1 DEF RingOK, NoRing
<1>. DEFINE t == Append(l, Torn)
<1>4. /\ t \in Seq(LineRow) /\ Len(t) = Len(l) + 1 /\ t[Len(l) + 1] = Torn /\ Len(l) \in Nat
      /\ \A i \in 1..Len(l) : t[i] = l[i]
  BY AppendProperties DEF Torn, LineRow
<1>5. t # <<>> /\ Last(t) = Torn /\ Front(t) = SubSeq(t, 1, Len(l))
  BY <1>4 DEF Last, Front
<1>6. Front(t) = l
  <2>1. /\ Front(t) \in Seq(LineRow) /\ Len(Front(t)) = Len(l)
        /\ \A i \in 1..Len(l) : Front(t)[i] = t[i]
    BY <1>4, <1>5, SubSeqProperties
  <2>2. QED
    BY <1>4, <2>1, SeqEqual
<1>7. Whole(t) = l
  BY <1>5, <1>6 DEF Whole
<1>8. QED
  BY <1>2, <1>3, <1>4, <1>7 DEF Whole

LEMMA LoadedIs ==
    ASSUME FilesOK
    PROVE  /\ Loaded \in RingRow /\ RingOK(Loaded) /\ Loaded.current \in Loaded.keys /\ Loaded.current # 0
           /\ Loaded # NoRing
           /\ \A l \in Seq(LineRow) : Auth(ring, l) => Auth(Loaded, l)
<1>1. CASE ring # NoRing
  <2>1. Loaded = ring
    BY <1>1 DEF Loaded
  <2>2. QED
    BY <1>1, <2>1 DEF FilesOK, RingOK, RingRow
<1>2. CASE ring = NoRing
  <2>1. Loaded = [keys |-> {minted + 1}, current |-> minted + 1, mark |-> <<>>]
    BY <1>2 DEF Loaded
  <2>2. Loaded \in RingRow /\ minted + 1 # 0
    BY <2>1 DEF FilesOK, RingRow
  <2>3. /\ Loaded.keys = {minted + 1} /\ Loaded.current = minted + 1 /\ Loaded.mark = <<>>
    BY <2>1
  <2>4. RingOK(Loaded) /\ Loaded # NoRing
    BY <2>2, <2>3 DEF RingOK, NoRing
  <2>5. Auth(Loaded, <<>>)
    BY <2>3 DEF Auth, IsPrefix
  <2>6. QED
    BY <1>2, <2>2, <2>3, <2>4, <2>5, EmptyLog
<1>3. QED
  BY <1>1, <1>2

-----------------------------------------------------------------------------
(* The command that runs. *)

SameCommand == op'.do = op.do /\ op'.tree = op.tree /\ op'.was = op.was /\ op'.undo = op.undo

LEMMA RestIs ==
    /\ Rest \in OpRow /\ Rest.do = "nothing" /\ Rest.at = "idle" /\ Rest.then = "idle"
    /\ Rest.tree = 0 /\ Rest.was = 0 /\ Rest.todo = {} /\ RingOK(Rest.undo.ring)
<1>1. NoUndo \in UndoRow /\ RingOK(NoUndo.ring)
  BY EmptyLog DEF UndoRow, NoUndo
<1>2. QED
  BY <1>1 DEF Rest, OpRow, Commands, Steps, Following, NoTree

LEMMA GotoIs ==
    ASSUME FilesOK, NEW s \in Steps, Goto(s)
    PROVE  /\ op' \in OpRow /\ RingOK(op'.undo.ring)
           /\ s = "idle" => op' = Rest
           /\ s # "idle" => SameCommand /\ op'.at = s /\ op'.then = op.then /\ op'.todo = op.todo
<1>1. CASE s = "idle"
  BY <1>1, RestIs DEF Goto
<1>2. CASE s # "idle"
  <2>1. op \in OpRow /\ op' = [op EXCEPT !.at = s]
    BY <1>2 DEF Goto, FilesOK
  <2>2. /\ op' \in OpRow /\ op'.at = s /\ op'.do = op.do /\ op'.tree = op.tree /\ op'.was = op.was
        /\ op'.undo = op.undo /\ op'.then = op.then /\ op'.todo = op.todo
    BY ONLY <2>1, s \in Steps DEF OpRow
  <2>3. QED
    BY <1>2, <2>2 DEF SameCommand, FilesOK
<1>3. QED
  BY <1>1, <1>2

LEMMA RecordIs ==
    ASSUME FilesOK, NEW next \in Following, Record(next)
    PROVE  /\ op' \in OpRow /\ RingOK(op'.undo.ring)
           /\ SameCommand /\ op'.at = "line" /\ op'.then = next /\ op'.todo = op.todo
<1>1. op \in OpRow /\ op' = [op EXCEPT !.at = "line", !.then = next] /\ "line" \in Steps
  BY DEF Record, FilesOK, Steps
<1>2. /\ op' \in OpRow /\ op'.at = "line" /\ op'.do = op.do /\ op'.tree = op.tree /\ op'.was = op.was
      /\ op'.undo = op.undo /\ op'.then = next /\ op'.todo = op.todo
  BY ONLY <1>1, next \in Following DEF OpRow
<1>3. QED
  BY <1>2 DEF SameCommand, FilesOK

-----------------------------------------------------------------------------
(* Steps that leave the trees. *)

TreesStay == UNCHANGED <<target, retained, proven, seals, installed>>

LEMMA TreesAre ==
    ASSUME TreesOK
    PROVE  /\ 1..installed \subseteq Trees /\ 1..installed \subseteq Nat
           /\ (retained \cup {target}) \ {NoTree} \subseteq 1..installed
BY HistoryAssumption DEF TreesOK, Trees, NoTree

LEMMA SameTrees ==
    ASSUME TreesOK, TreesStay, op' = Rest \/ SameCommand \/ (op'.tree <= installed /\ op'.was <= installed)
    PROVE  TreesOK'
BY RestIs DEF TreesOK, TreesStay, SameCommand

LEMMA SameTreeKept ==
    ASSUME TreeKept, TreesStay PROVE TreeKept'
BY DEF TreeKept, TreesStay

\* Another command begins, or goes on, or ends.
LEMMA OtherCommand ==
    ASSUME KeptInv, TreesStay, PhaseOK', op'.do \notin {"deploy", "rollback", "rotate"},
           op'.at # "remove", op'.at \in {"line", "mark"} => op'.then # "remove"
    PROVE  KeptInv'
<1>1. SwapOK'
  BY DEF SwapOK, PhaseOK, MovingOut
<1>2. RemovalOK' /\ RotationOK'
  BY DEF RemovalOK, Removing, RotationOK, PhaseOK
<1>3. QED
  BY <1>1, <1>2, SameTreeKept DEF KeptInv

LEMMA CommandEnds ==
    ASSUME KeptInv, TreesStay, op' = Rest PROVE KeptInv'
<1>1. PhaseOK'
  BY RestIs DEF PhaseOK
<1>2. QED
  BY <1>1, RestIs, OtherCommand

\* A line is written, or not.
LEMMA LineGoesOn ==
    ASSUME KeptInv, op \in OpRow, TreesStay, SameCommand, op.at \in {"line", "mark"},
           op'.at \in {"mark", "raised", op.then}, op'.then = op.then, op'.todo = op.todo,
           op.then # "idle" \/ op'.at # "idle"
    PROVE  KeptInv'
<1>1. op.then \in Following
  BY DEF OpRow
<1>2. PhaseOK'
  BY <1>1 DEF KeptInv, PhaseOK, SameCommand, Following
<1>3. SwapOK'
  <2>1. op'.at \notin {"in", "check"}
    BY <1>1 DEF Following
  <2>2. op'.at = "out" => op.then = "out"
    OBVIOUS
  <2>3. op'.at = "seal" => op.then = "seal"
    OBVIOUS
  <2>4. MovingOut' => MovingOut
    BY DEF MovingOut
  <2>5. \A t : Sound(t)' <=> Sound(t)
    BY DEF Sound, TreesStay
  <2>6. op.do = "deploy" => op'.at # "out"
    BY <2>2 DEF KeptInv, PhaseOK
  <2>7. op'.do = "deploy" =>
          /\ op'.tree \in Trees \ retained' /\ op'.was # op'.tree
          /\ op'.at \in {"out", "in", "check"} => op'.tree \notin proven'
          /\ op'.at \notin {"out", "in"} => target' = op'.tree
          /\ op'.at # "out" /\ proven' \ {op'.tree} # {} => \E t \in retained' : t # op'.tree /\ Sound(t)'
    <3>1. SUFFICES ASSUME op.do = "deploy"
                   PROVE  /\ op.tree \in Trees \ retained /\ op.was # op.tree
                          /\ target = op.tree
                          /\ proven \ {op.tree} # {} => \E t \in retained : t # op.tree /\ Sound(t)
      BY <2>1, <2>5, <2>6 DEF SameCommand, TreesStay
    <3>2. QED
      BY <3>1 DEF KeptInv, SwapOK
  <2>8. op'.do \in {"deploy", "rollback"} /\ op'.at \in {"check", "seal"} => target' = op'.tree
    BY <2>1, <2>3 DEF KeptInv, PhaseOK, SameCommand
  <2>9. MovingOut' => target' = op'.was
    BY <2>4 DEF KeptInv, SwapOK, SameCommand, TreesStay
  <2>10. op'.do \in {"deploy", "rollback"} => op'.tree \in Trees
    BY DEF KeptInv, SwapOK, SameCommand
  <2>11. QED
    BY <2>1, <2>7, <2>8, <2>9, <2>10 DEF SwapOK
<1>4. RemovalOK'
  <2>1. Removing' => Removing
    BY DEF Removing
  <2>2. QED
    BY <2>1 DEF KeptInv, RemovalOK, TreesStay
<1>5. RotationOK'
  <2>1. op'.at # "reseal"
    BY <1>1 DEF Following
  <2>2. op.do = "rotate" => op'.at \in {"mark", "raised"}
    BY DEF KeptInv, RotationOK
  <2>3. QED
    BY <2>1, <2>2 DEF KeptInv, RotationOK, SameCommand, TreesStay
<1>6. QED
  BY <1>2, <1>3, <1>4, <1>5, SameTreeKept DEF KeptInv

-----------------------------------------------------------------------------
(* Lines. *)

OthersStay == UNCHANGED <<offline, journal, damaged, cut>>

LEMMA WriteLineKeeps ==
    ASSUME HistoryInv, WriteLine, OthersStay PROVE HistoryInv'
<1>. USE DEF HistoryInv, OthersStay
<1>1. /\ op.at = "line" /\ Verifies(Loaded, log) /\ ring' = Loaded /\ log' = Append(log, Line) /\ Goto("mark")
      /\ TreesStay /\ UNCHANGED keyCopy /\ lines' = lines + 1 /\ minted' \in Nat /\ UNCHANGED witness
  BY DEF WriteLine, Load, TreesStay, trees, FilesOK, offline
<1>2. /\ op' \in OpRow /\ RingOK(op'.undo.ring) /\ SameCommand /\ op'.at = "mark" /\ op'.then = op.then
      /\ op'.todo = op.todo
  <2>1. "mark" \in Steps
    BY DEF Steps
  <2>2. QED
    BY <1>1, <2>1, GotoIs
<1>3. /\ Loaded \in RingRow /\ RingOK(Loaded) /\ Loaded.current \in Loaded.keys
      /\ log \in Seq(LineRow)
  BY LoadedIs DEF FilesOK
<1>4. Line \in LineRow /\ Line.key = Loaded.current
  BY <1>3 DEF Line, LineRow, FilesOK, RingRow
<1>5. Append(log, Line) \in Seq(LineRow) /\ Auth(ring', log') /\ Whole(log') = log'
  BY <1>1, <1>3, <1>4, AuthAppends, VerifiesIs, WholeIs
<1>6. FilesOK'
  BY <1>1, <1>2, <1>3, <1>5 DEF FilesOK, offline
<1>7. LogOK'
  BY <1>1, <1>2, <1>5 DEF LogOK, Pending, SameCommand, Recovering
<1>8. TreesOK' /\ KeptInv'
  BY <1>1, <1>2, SameTrees, LineGoesOn DEF FilesOK
<1>9. QED
  BY <1>6, <1>7, <1>8

LEMMA LineRefusedKeeps ==
    ASSUME HistoryInv, LineRefused, OthersStay PROVE HistoryInv'
<1>. USE DEF HistoryInv, OthersStay
<1>1. /\ op.at = "line" /\ ring' = Loaded /\ Goto("raised")
      /\ TreesStay /\ UNCHANGED <<log, lines, keyCopy>> /\ minted' \in Nat
  BY DEF LineRefused, Load, TreesStay, trees, auditLog, FilesOK
<1>2. /\ op' \in OpRow /\ RingOK(op'.undo.ring) /\ SameCommand /\ op'.at = "raised" /\ op'.then = op.then
      /\ op'.todo = op.todo
  <2>1. "raised" \in Steps
    BY DEF Steps
  <2>2. QED
    BY <1>1, <2>1, GotoIs
<1>3. /\ Loaded \in RingRow /\ RingOK(Loaded) /\ log \in Seq(LineRow)
      /\ Auth(ring, Whole(log)) => Auth(Loaded, Whole(log))
  BY LoadedIs, WholeIs DEF FilesOK
<1>6. FilesOK'
  BY <1>1, <1>2, <1>3 DEF FilesOK, offline
<1>7. LogOK'
  BY <1>1, <1>2, <1>3 DEF LogOK, Pending, SameCommand, Recovering, Trying
<1>8. TreesOK' /\ KeptInv'
  BY <1>1, <1>2, SameTrees, LineGoesOn DEF FilesOK
<1>9. QED
  BY <1>6, <1>7, <1>8

\* The checkpoint of the last line ends the exceptions.
LEMMA WriteMarkKeeps ==
    ASSUME HistoryInv, WriteMark, UNCHANGED <<offline, journal>>, Mends PROVE HistoryInv'
<1>. USE DEF HistoryInv
<1>1. /\ op.at = "mark" /\ TreesStay /\ UNCHANGED <<log, lines, keyCopy, minted>>
      /\ UNCHANGED <<witness, pairCopy, journal>>
      /\ op' = Rest \/ UNCHANGED <<damaged, cut>>
      /\ damaged' \in BOOLEAN /\ cut' \in BOOLEAN
  BY DEF WriteMark, TreesStay, trees, auditLog, offline, Mends, FilesOK
<1>2. op.then \in Following /\ op.then \in Steps /\ "raised" \in Steps
  BY DEF FilesOK, OpRow, Steps, Following
<1>3. CASE Verifies(ring, log)
  <2>1. ring' = [ring EXCEPT !.mark = log] /\ Goto(op.then)
    BY <1>3 DEF WriteMark
  <2>2. ring' \in RingRow /\ RingOK(ring') /\ Auth(ring', log) /\ Whole(log) = log
    BY <1>3, <2>1, AuthMarked, VerifiesIs, WholeIs DEF FilesOK
  <2>3. /\ op' \in OpRow /\ RingOK(op'.undo.ring)
        /\ op.then = "idle" => op' = Rest
        /\ op.then # "idle" => SameCommand /\ op'.at = op.then /\ op'.then = op.then /\ op'.todo = op.todo
    BY <1>2, <2>1, GotoIs
  <2>4. FilesOK'
    BY <1>1, <2>2, <2>3 DEF FilesOK
  <2>5. LogOK'
    <3>1. CASE op.then = "idle"
      BY <1>1, <2>2, <2>3, <3>1, RestIs DEF LogOK, Pending, Recovering
    <3>2. CASE op.then # "idle"
      <4>1. op' # Rest
        BY <2>3, <3>2, RestIs
      <4>2. QED
        BY <1>1, <1>2, <2>2, <2>3, <3>2, <4>1 DEF LogOK, Pending, SameCommand, Recovering, Following
    <3>3. QED
      BY <3>1, <3>2
  <2>6. TreesOK' /\ KeptInv'
    BY <1>1, <2>3, SameTrees, LineGoesOn, CommandEnds DEF FilesOK
  <2>7. QED
    BY <2>4, <2>5, <2>6
<1>4. CASE ~Verifies(ring, log)
  <2>1. ring' = ring /\ Goto("raised")
    BY <1>4 DEF WriteMark
  <2>2. /\ op' \in OpRow /\ RingOK(op'.undo.ring) /\ SameCommand /\ op'.at = "raised" /\ op'.then = op.then
        /\ op'.todo = op.todo /\ op' # Rest
    BY <1>2, <2>1, GotoIs, RestIs
  <2>3. FilesOK'
    BY <1>1, <2>1, <2>2 DEF FilesOK
  <2>4. LogOK'
    BY <1>1, <2>1, <2>2 DEF LogOK, Pending, SameCommand, Recovering, Trying
  <2>5. TreesOK' /\ KeptInv'
    BY <1>1, <2>2, SameTrees, LineGoesOn DEF FilesOK
  <2>6. QED
    BY <2>3, <2>4, <2>5
<1>5. QED
  BY <1>3, <1>4

-----------------------------------------------------------------------------
(* Keys. *)

LEMMA NowIs ==
    ASSUME FilesOK, TreesOK
    PROVE  Now \in UndoRow /\ Now.ring = ring /\ Now.log = log /\ Now.seals = seals /\ RingOK(Now.ring)
BY DEF Now, UndoRow, FilesOK, TreesOK

\* The command that a guard of each command describes.
LEMMA CommandIs ==
    ASSUME NEW c \in OpRow, RingOK(c.undo.ring), Command(c)
    PROVE  op = Rest /\ op' = c /\ op' \in OpRow /\ RingOK(op'.undo.ring)
BY DEF Command, Idle

LEMMA ManagedIs ==
    ASSUME FilesOK, TreesOK
    PROVE  \A t \in Managed : t \in Trees /\ t \in retained /\ t \in Nat /\ seals[t] # 0
BY TreesAre DEF Managed, Sealed, TreesOK

LEMMA RotateKeeps ==
    ASSUME HistoryInv, Rotate, OthersStay PROVE HistoryInv'
<1>. USE DEF HistoryInv, OthersStay
<1>. PICK c : c = [Rest EXCEPT !.do = "rotate", !.at = "reseal", !.todo = Managed, !.undo = Now]
  OBVIOUS
<1>1. /\ c.do = "rotate" /\ c.at = "reseal" /\ c.then = "idle" /\ c.tree = 0 /\ c.was = 0 /\ c.todo = Managed
      /\ c.undo = Now
  BY DEF Rest, NoTree
<1>2. c \in OpRow /\ RingOK(c.undo.ring)
  <2>1. Managed \in SUBSET Nat /\ Now \in UndoRow /\ RingOK(Now.ring)
    BY NowIs, ManagedIs
  <2>2. QED
    BY <1>1, <2>1 DEF Rest, OpRow, Commands, Steps, Following, NoTree
<1>3. op = Rest /\ op' = c /\ op' \in OpRow /\ RingOK(op'.undo.ring)
  BY <1>2, CommandIs DEF Rotate
<1>4. /\ ring' = [Loaded EXCEPT !.keys = @ \cup {minted + 2}, !.current = minted + 2]
      /\ minted' = minted + 2 /\ TreesStay /\ UNCHANGED <<log, lines, keyCopy>>
  BY DEF Rotate, TreesStay, trees, auditLog
<1>5. Loaded \in RingRow /\ RingOK(Loaded) /\ Loaded # NoRing
  BY LoadedIs
<1>6. minted + 2 \in Nat /\ minted + 2 # 0
  BY DEF FilesOK
<1>7. /\ ring' \in RingRow /\ ring'.keys = Loaded.keys \cup {minted + 2} /\ ring'.current = minted + 2
      /\ ring'.mark = Loaded.mark
  BY ONLY <1>4, <1>5, <1>6 DEF RingRow
<1>8. RingOK(ring')
  BY <1>5, <1>6, <1>7 DEF RingOK
<1>9. Auth(ring, Whole(log)) => Auth(ring', Whole(log))
  <2>1. Auth(ring, Whole(log)) => Auth(Loaded, Whole(log))
    BY LoadedIs, WholeIs DEF FilesOK
  <2>2. QED
    BY <1>7, <2>1 DEF Auth
<1>10. FilesOK'
  BY <1>3, <1>4, <1>6, <1>7, <1>8 DEF FilesOK, offline
<1>11. LogOK'
  BY <1>1, <1>3, <1>4, <1>9, RestIs, NowIs DEF LogOK, Pending, Recovering, Trying
<1>12. TreesOK'
  BY <1>1, <1>3, <1>4, SameTrees DEF TreesOK
<1>13. PhaseOK' /\ SwapOK' /\ RemovalOK'
  BY <1>1, <1>3 DEF PhaseOK, SwapOK, RemovalOK, Removing, MovingOut
<1>14. RotationOK'
  BY <1>1, <1>3, <1>4, <1>6, <1>7, NowIs, ManagedIs DEF RotationOK, TreesStay, TreesOK
<1>15. QED
  BY <1>4, <1>10, <1>11, <1>12, <1>13, <1>14, SameTreeKept DEF KeptInv

LEMMA ResealKeeps ==
    ASSUME HistoryInv, Reseal, OthersStay PROVE HistoryInv'
<1>. USE DEF HistoryInv, OthersStay
<1>1. /\ op.at = "reseal" /\ UNCHANGED <<ring, minted, log, lines, target, retained, proven, installed, keyCopy>>
      /\ op.do = "rotate" /\ ring.current # 0 /\ op.then = "idle" /\ op \in OpRow /\ ring.current \in Nat
  BY DEF Reseal, keyFiles, auditLog, KeptInv, PhaseOK, RotationOK, FilesOK, RingRow
<1>2. CASE op.todo = {}
  <2>1. Record("idle") /\ TreesStay /\ "idle" \in Following
    BY <1>1, <1>2 DEF Reseal, TreesStay, Following
  <2>2. /\ op' \in OpRow /\ RingOK(op'.undo.ring)
        /\ SameCommand /\ op'.at = "line" /\ op'.then = "idle" /\ op'.todo = op.todo
    BY <2>1, RecordIs
  <2>3. FilesOK' /\ TreesOK'
    BY <1>1, <2>1, <2>2, SameTrees DEF FilesOK, offline
  <2>4. LogOK'
    BY <1>1, <2>2 DEF LogOK, Pending, SameCommand, Recovering, Trying
  <2>5. PhaseOK' /\ SwapOK' /\ RemovalOK'
    BY <1>1, <2>2 DEF PhaseOK, SwapOK, RemovalOK, Removing, MovingOut, SameCommand
  <2>6. RotationOK'
    BY <1>1, <2>1, <2>2 DEF KeptInv, RotationOK, SameCommand, TreesStay
  <2>7. QED
    BY <2>1, <2>3, <2>4, <2>5, <2>6, SameTreeKept DEF KeptInv
<1>3. CASE op.todo # {}
  <2>1. PICK t \in op.todo : /\ seals' = [seals EXCEPT ![t] = ring.current]
                             /\ op' = [op EXCEPT !.todo = @ \ {t}]
    BY <1>3 DEF Reseal
  <2>2. /\ op' \in OpRow /\ op'.do = op.do /\ op'.at = op.at /\ op'.then = op.then /\ op'.tree = op.tree
        /\ op'.was = op.was /\ op'.undo = op.undo /\ op'.todo = op.todo \ {t}
    BY ONLY <1>1, <2>1 DEF OpRow
  <2>3. FilesOK'
    BY <1>1, <2>2 DEF FilesOK, offline
  <2>4. LogOK'
    BY <1>1, <2>2 DEF LogOK, Pending, Recovering, Trying
  <2>5. t \in Trees /\ op.todo \subseteq Trees
    BY <1>1, <2>1 DEF KeptInv, RotationOK
  <2>6. seals' \in [Trees -> Nat] /\ seals'[t] = ring.current /\ \A u \in Trees \ {t} : seals'[u] = seals[u]
    BY <1>1, <2>1, <2>5 DEF TreesOK
  <2>7. TreesOK'
    BY <1>1, <2>2, <2>6 DEF TreesOK
  <2>8. PhaseOK' /\ SwapOK' /\ RemovalOK'
    BY <1>1, <2>2 DEF PhaseOK, SwapOK, RemovalOK, Removing, MovingOut
  <2>9. RotationOK'
    BY <1>1, <2>1, <2>2, <2>5, <2>6 DEF KeptInv, RotationOK
  <2>10. TreeKept'
    <3>1. \A u \in (retained \cup {target}) \ {NoTree} : u \in Trees
      BY TreesAre
    <3>2. \A u \in Trees : seals[u] # 0 => seals'[u] # 0
      BY <1>1, <2>6
    <3>3. QED
      BY <1>1, <3>1, <3>2 DEF KeptInv, TreeKept
  <2>11. QED
    BY <2>3, <2>4, <2>7, <2>8, <2>9, <2>10 DEF KeptInv
<1>4. QED
  BY <1>2, <1>3

\* A command that has nothing to put back, and does not change the log at once.
Plain(c) ==
    /\ c \in OpRow /\ c.undo = NoUndo /\ c.tree <= installed /\ c.was <= installed
    /\ c.do \in {"backupKey", "adopt", "prune", "bundle", "recover", "restore"}
    /\ c.at \in {"line", "prune", "recover"} /\ (c.at = "recover" => c.do \in {"recover", "restore"})
    /\ c.at = "line" => c.do # "restore"
    /\ c.at = "prune" => c.do = "prune"
    /\ c.then \in {"idle", "seal"} /\ (c.then = "seal" => c.do = "adopt")

LEMMA PlainCommandKeeps ==
    ASSUME HistoryInv, NEW c, Command(c), Plain(c), TreesStay,
           UNCHANGED <<ring, minted, log, lines, journal, damaged, cut, witness>>,
           keyCopy' \in RingRow /\ RingOK(keyCopy'), pairCopy' \in PairRow /\ RingOK(pairCopy'.ring)
    PROVE  HistoryInv'
<1>. USE DEF HistoryInv, Plain
<1>1. RingOK(c.undo.ring)
  BY RestIs DEF Rest
<1>2. op = Rest /\ op' = c /\ op' \in OpRow /\ RingOK(op'.undo.ring)
  BY <1>1, CommandIs
<1>3. FilesOK'
  BY <1>2 DEF FilesOK
<1>4. LogOK'
  BY <1>2, RestIs DEF LogOK, Pending, Recovering, Trying
<1>5. PhaseOK'
  BY <1>2 DEF PhaseOK
<1>6. TreesOK' /\ KeptInv'
  BY <1>2, <1>5, SameTrees, OtherCommand DEF TreesOK
<1>7. QED
  BY <1>3, <1>4, <1>6

LEMMA PlainCommandsKeep ==
    ASSUME HistoryInv, \/ BackupKey /\ OthersStay
                       \/ Prune /\ OthersStay
                       \/ \E t \in Trees : Adopt(t) /\ OthersStay
                       \/ CreateBundle
                       \/ Preflight
                       \/ Restore
    PROVE  HistoryInv'
<1>. USE DEF HistoryInv, OthersStay
<1>. /\ keyCopy \in RingRow /\ RingOK(keyCopy) /\ pairCopy \in PairRow /\ RingOK(pairCopy.ring)
     /\ ring \in RingRow /\ RingOK(ring) /\ log \in Seq(LineRow) /\ installed \in Nat
  BY DEF FilesOK, TreesOK
<1>1. CASE BackupKey /\ OthersStay
  <2>. PICK c : c = [Rest EXCEPT !.do = "backupKey", !.at = "line"]
    OBVIOUS
  <2>1. /\ c \in OpRow /\ c.do = "backupKey" /\ c.at = "line" /\ c.then = "idle" /\ c.tree = 0 /\ c.was = 0
        /\ c.undo = NoUndo
    BY RestIs DEF OpRow, Commands, Steps, Rest, NoTree
  <2>2. TreesStay /\ UNCHANGED <<ring, minted, log, lines, pairCopy, witness>>
    BY <1>1 DEF BackupKey, TreesStay, trees, keyFiles, auditLog, offline
  <2>3. Plain(c) /\ Command(c)
    BY <1>1, <2>1 DEF Plain, BackupKey
  <2>4. QED
    BY <1>1, <2>1, <2>2, <2>3, PlainCommandKeeps DEF BackupKey
<1>2. CASE Prune /\ OthersStay
  <2>. PICK c : c = [Rest EXCEPT !.do = "prune", !.at = "prune"]
    OBVIOUS
  <2>1. /\ c \in OpRow /\ c.do = "prune" /\ c.at = "prune" /\ c.then = "idle" /\ c.tree = 0 /\ c.was = 0
        /\ c.undo = NoUndo
    BY RestIs DEF OpRow, Commands, Steps, Following, Rest, NoTree
  <2>2. TreesStay /\ UNCHANGED <<ring, minted, log, lines, pairCopy, keyCopy, witness>>
    BY <1>2 DEF Prune, TreesStay, trees, keyFiles, auditLog, offline
  <2>3. Plain(c) /\ Command(c)
    BY <1>2, <2>1 DEF Plain, Prune
  <2>4. QED
    BY <1>2, <2>1, <2>2, <2>3, PlainCommandKeeps DEF Prune
<1>3. ASSUME NEW t \in Trees, Adopt(t), OthersStay PROVE HistoryInv'
  <2>. PICK c : c = [Rest EXCEPT !.do = "adopt", !.at = "line", !.then = "seal", !.tree = t]
    OBVIOUS
  <2>1. t \in Nat /\ t <= installed
    <3>1. t \in retained /\ retained \subseteq 1..installed
      BY <1>3 DEF Adopt, TreesOK
    <3>2. QED
      BY <3>1
  <2>2. /\ c \in OpRow /\ c.do = "adopt" /\ c.at = "line" /\ c.then = "seal" /\ c.tree = t /\ c.was = 0
        /\ c.undo = NoUndo
    BY <2>1, RestIs DEF OpRow, Commands, Steps, Following, Rest, NoTree
  <2>3. TreesStay /\ UNCHANGED <<ring, minted, log, lines, pairCopy, keyCopy, witness>>
    BY <1>3 DEF Adopt, TreesStay, trees, keyFiles, auditLog, offline
  <2>4. Plain(c) /\ Command(c)
    <3>1. c.was <= installed
      BY <2>2
    <3>2. Command(c)
      BY <1>3 DEF Adopt
    <3>3. QED
      BY <2>1, <2>2, <3>1, <3>2 DEF Plain
  <2>5. QED
    BY <1>3, <2>1, <2>2, <2>3, <2>4, PlainCommandKeeps DEF Adopt
<1>4. CASE CreateBundle
  <2>. PICK c : c = [Rest EXCEPT !.do = "bundle", !.at = "line"]
    OBVIOUS
  <2>1. /\ c \in OpRow /\ c.do = "bundle" /\ c.at = "line" /\ c.then = "idle" /\ c.tree = 0 /\ c.was = 0
        /\ c.undo = NoUndo
    BY RestIs DEF OpRow, Commands, Steps, Rest, NoTree
  <2>2. /\ TreesStay /\ UNCHANGED <<ring, minted, log, lines, keyCopy, witness, journal, damaged, cut>>
        /\ pairCopy' = [ring |-> ring, log |-> log, witness |-> witness]
    BY <1>4 DEF CreateBundle, TreesStay, trees, keyFiles, auditLog, faults
  <2>3. pairCopy' \in PairRow /\ RingOK(pairCopy'.ring)
    BY <2>2 DEF PairRow, FilesOK
  <2>4. Plain(c) /\ Command(c)
    BY <1>4, <2>1 DEF Plain, CreateBundle
  <2>5. QED
    BY <1>4, <2>1, <2>2, <2>3, <2>4, PlainCommandKeeps DEF CreateBundle
<1>5. CASE Preflight
  <2>. PICK c : c = [Rest EXCEPT !.do = "recover", !.at = "recover"]
    OBVIOUS
  <2>1. /\ c \in OpRow /\ c.do = "recover" /\ c.at = "recover" /\ c.then = "idle" /\ c.tree = 0 /\ c.was = 0
        /\ c.undo = NoUndo
    BY RestIs DEF OpRow, Commands, Steps, Recovering, Rest, NoTree
  <2>2. TreesStay /\ UNCHANGED <<ring, minted, log, lines, keyCopy, pairCopy, witness, journal, damaged, cut>>
    BY <1>5 DEF Preflight, TreesStay, trees, keyFiles, auditLog, faults, offline
  <2>3. Plain(c) /\ Command(c)
    BY <1>5, <2>1 DEF Plain, Preflight
  <2>4. QED
    BY <1>5, <2>1, <2>2, <2>3, PlainCommandKeeps DEF Preflight
<1>6. CASE Restore
  <2>. PICK c : c = [Rest EXCEPT !.do = "restore", !.at = "recover"]
    OBVIOUS
  <2>1. /\ c \in OpRow /\ c.do = "restore" /\ c.at = "recover" /\ c.then = "idle" /\ c.tree = 0 /\ c.was = 0
        /\ c.undo = NoUndo
    BY RestIs DEF OpRow, Commands, Steps, Recovering, Rest, NoTree
  <2>2. TreesStay /\ UNCHANGED <<ring, minted, log, lines, keyCopy, pairCopy, witness, journal, damaged, cut>>
    BY <1>6 DEF Restore, TreesStay, trees, keyFiles, auditLog, faults, offline
  <2>3. Plain(c) /\ Command(c)
    BY <1>6, <2>1 DEF Plain, Restore
  <2>4. QED
    BY <1>6, <2>1, <2>2, <2>3, PlainCommandKeeps DEF Restore
<1>7. QED
  BY <1>1, <1>2, <1>3, <1>4, <1>5, <1>6

LEMMA RestoreKeyKeeps ==
    ASSUME HistoryInv, RestoreKey, OthersStay PROVE HistoryInv'
<1>. USE DEF HistoryInv, OthersStay
<1>. PICK c : c = [Rest EXCEPT !.do = "restoreKey", !.at = "installed", !.undo = Now]
  OBVIOUS
<1>1. /\ c.do = "restoreKey" /\ c.at = "installed" /\ c.then = "idle" /\ c.tree = 0 /\ c.was = 0 /\ c.undo = Now
  BY DEF Rest, NoTree
<1>2. c \in OpRow /\ RingOK(c.undo.ring)
  BY <1>1, NowIs DEF Rest, OpRow, Commands, Steps, Following, NoTree
<1>3. op = Rest /\ op' = c /\ op' \in OpRow /\ RingOK(op'.undo.ring)
  BY <1>2, CommandIs DEF RestoreKey
<1>4. ring' = keyCopy /\ TreesStay /\ UNCHANGED <<log, lines, keyCopy, minted>>
  BY DEF RestoreKey, TreesStay, trees, auditLog
<1>5. FilesOK'
  BY <1>3, <1>4 DEF FilesOK, offline
<1>6. LogOK'
  BY <1>1, <1>3, <1>4, RestIs, NowIs DEF LogOK, Pending, Recovering, Trying
<1>7. PhaseOK'
  BY <1>1, <1>3 DEF PhaseOK
<1>8. TreesOK' /\ KeptInv'
  BY <1>1, <1>3, <1>4, <1>7, SameTrees, OtherCommand DEF TreesOK
<1>9. QED
  BY <1>5, <1>6, <1>8

LEMMA CheckRestoredKeyKeeps ==
    ASSUME HistoryInv, CheckRestoredKey, OthersStay PROVE HistoryInv'
<1>. USE DEF HistoryInv, OthersStay
<1>1. /\ op.at = "installed" /\ TreesStay /\ UNCHANGED <<ring, minted, log, lines, keyCopy>>
      /\ "idle" \in Following /\ "raised" \in Steps
  BY DEF CheckRestoredKey, TreesStay, trees, keyFiles, auditLog, Following, Steps
<1>2. op.do = "restoreKey" /\ PhaseOK
  BY <1>1 DEF KeptInv, PhaseOK
<1>3. CASE Verifies(ring, log) /\ Record("idle")
  <2>1. /\ op' \in OpRow /\ RingOK(op'.undo.ring)
        /\ SameCommand /\ op'.at = "line" /\ op'.then = "idle"
    BY <1>1, <1>3, RecordIs
  <2>2. FilesOK'
    BY <1>1, <2>1 DEF FilesOK, offline
  <2>3. LogOK'
    <3>1. Auth(ring, Whole(log))
      BY <1>3, VerifiesIs, WholeIs DEF FilesOK
    <3>2. QED
      BY <1>1, <1>2, <2>1, <3>1 DEF LogOK, Pending, Recovering, Trying, SameCommand
  <2>4. PhaseOK'
    BY <1>2, <2>1 DEF PhaseOK, SameCommand
  <2>5. TreesOK' /\ KeptInv'
    BY <1>1, <1>2, <2>1, <2>4, SameTrees, OtherCommand DEF SameCommand
  <2>6. QED
    BY <2>2, <2>3, <2>5
<1>4. CASE Goto("raised")
  <2>1. /\ op' \in OpRow /\ RingOK(op'.undo.ring)
        /\ SameCommand /\ op'.at = "raised" /\ op'.then = op.then
    BY <1>1, <1>4, GotoIs
  <2>2. FilesOK'
    BY <1>1, <2>1 DEF FilesOK, offline
  <2>3. LogOK'
    BY <1>1, <1>2, <2>1 DEF LogOK, Pending, Recovering, Trying, SameCommand
  <2>4. PhaseOK'
    BY <1>2, <2>1 DEF PhaseOK, SameCommand
  <2>5. TreesOK' /\ KeptInv'
    BY <1>1, <1>2, <2>1, <2>4, SameTrees, OtherCommand DEF SameCommand
  <2>6. QED
    BY <2>2, <2>3, <2>5
<1>5. QED
  BY <1>3, <1>4 DEF CheckRestoredKey

LEMMA UndoKeysKeeps ==
    ASSUME HistoryInv, UndoKeys, OthersStay PROVE HistoryInv'
<1>. USE DEF HistoryInv, OthersStay
<1>1. /\ op.do \in {"rotate", "restoreKey"} /\ ring' = op.undo.ring /\ log' = op.undo.log
      /\ UNCHANGED <<minted, lines, target, retained, proven, installed, keyCopy>>
      /\ op' = Rest /\ RingOK(Rest.undo.ring)
  BY RestIs DEF UndoKeys, RaisedIn, Goto
<1>2. op.undo \in UndoRow /\ RingOK(op.undo.ring)
  BY DEF FilesOK, OpRow
<1>3. FilesOK'
  BY <1>1, <1>2, RestIs DEF FilesOK, offline, UndoRow
<1>4. LogOK'
  BY <1>1, RestIs DEF LogOK, Pending, Recovering, Trying
<1>5. CASE op.do = "restoreKey"
  <2>1. TreesStay
    BY <1>1, <1>5 DEF UndoKeys, TreesStay
  <2>2. QED
    BY <1>1, <1>3, <1>4, <2>1, SameTrees, CommandEnds
<1>6. CASE op.do = "rotate"
  <2>1. seals' = op.undo.seals
    BY <1>6 DEF UndoKeys
  <2>2. seals' \in [Trees -> Nat] /\ \A t \in Trees : seals[t] # 0 => seals'[t] # 0
    BY <1>6, <2>1 DEF KeptInv, RotationOK
  <2>3. TreesOK'
    BY <1>1, <2>2, RestIs DEF TreesOK
  <2>4. \A t \in (retained \cup {target}) \ {NoTree} : t \in Trees
    BY TreesAre
  <2>5. TreeKept'
    BY <1>1, <2>2, <2>4 DEF KeptInv, TreeKept
  <2>6. PhaseOK' /\ SwapOK' /\ RemovalOK' /\ RotationOK'
    BY <1>1, RestIs DEF PhaseOK, SwapOK, RemovalOK, RotationOK, Removing, MovingOut
  <2>7. QED
    BY <1>3, <1>4, <2>3, <2>5, <2>6 DEF KeptInv
<1>7. QED
  BY <1>1, <1>5, <1>6

-----------------------------------------------------------------------------
(* Recovery and restores. *)

Recovers(s) ==
    \/ op' = Rest
    \/ /\ SameCommand /\ op'.at = s /\ s \in Recovering \cup {"raised", "line"}
       /\ op'.then \in {op.then, "commit"} /\ (s = "line" => op'.then = "commit")

\* What a step of a recovery or a restore does beside the two files and the journal.
LEMMA RecoveryRests ==
    ASSUME HistoryInv, RecoveryStep, op.do \in {"restore", "recover"}, op' \in OpRow, RingOK(op'.undo.ring),
           NEW s, Recovers(s), ring' \in RingRow, RingOK(ring'), log' \in Seq(LineRow),
           journal' \in JournalRow, RingOK(journal'.ring)
    PROVE  FilesOK' /\ TreesOK' /\ KeptInv'
<1>. USE DEF HistoryInv
<1>1. TreesStay /\ UNCHANGED <<minted, lines, keyCopy, witness, pairCopy, damaged, cut>>
  BY DEF RecoveryStep, TreesStay, trees, offline, faults
<1>2. FilesOK'
  BY <1>1 DEF FilesOK
<1>3. TreesOK'
  BY <1>1, SameTrees DEF Recovers
<1>4. KeptInv'
  <2>1. CASE op' = Rest
    BY <1>1, <2>1, CommandEnds
  <2>2. CASE op' # Rest
    <3>1. SameCommand /\ op'.at = s /\ s \in Recovering \cup {"raised", "line"}
          /\ op'.then \in {op.then, "commit"} /\ (s = "line" => op'.then = "commit")
      BY <2>2 DEF Recovers
    <3>2. PhaseOK'
      BY <3>1 DEF KeptInv, PhaseOK, SameCommand, Recovering
    <3>3. op'.at # "remove" /\ (op'.at \in {"line", "mark"} => op'.then # "remove")
      BY <3>1 DEF Recovering
    <3>4. QED
      BY <1>1, <3>1, <3>2, <3>3, OtherCommand DEF SameCommand
  <2>3. QED
    BY <2>1, <2>2
<1>5. QED
  BY <1>2, <1>3, <1>4

\* A step of it to s that does not touch the files.
LEMMA RecoveryGoes ==
    ASSUME HistoryInv, RecoveryStep, UNCHANGED <<ring, log>>, op.at \in Recovering,
           NEW s \in Recovering \cup {"idle"}, Goto(s),
           journal' \in JournalRow, RingOK(journal'.ring),
           s \in {"clear", "cleared"} => Auth(ring, log),
           s \in {"key", "clear", "cleared", "manifest", "putLog", "putKey"} => Pending',
           s = "validate" => ~Pending', s \notin {"mkdir", "commit"},
           s \in {"manifest", "putLog", "putKey"} => op.at \in {"mkdir", "manifest", "putLog", "putKey"},
           Pending' \/ op.at = "cleared" \/ UNCHANGED journal,
           op.at \in {"mkdir", "manifest"} => s \in {"manifest", "putLog"}
    PROVE  HistoryInv'
<1>. USE DEF HistoryInv
<1>1. s \in Steps
  BY DEF Steps, Following
<1>2. /\ op' \in OpRow /\ RingOK(op'.undo.ring)
      /\ s = "idle" => op' = Rest
      /\ s # "idle" => SameCommand /\ op'.at = s /\ op'.then = op.then /\ op'.todo = op.todo
  BY <1>1, GotoIs
<1>3. op.do \in {"restore", "recover"}
  BY DEF LogOK
<1>4. Recovers(s)
  BY <1>2 DEF Recovers, Recovering
<1>5. FilesOK' /\ TreesOK' /\ KeptInv'
  BY <1>2, <1>3, <1>4, RecoveryRests DEF FilesOK
<1>6. UNCHANGED <<damaged, cut>>
  BY DEF RecoveryStep, faults
<1>7. op.at = "cleared" => Auth(ring, log) /\ Auth(ring, Whole(log))
  BY WholeIs DEF LogOK, FilesOK
<1>8. LogOK'
  <2>1. CASE s = "idle"
    BY <1>2, <1>3, <1>6, <1>7, <2>1, RestIs DEF LogOK, Pending, Trying, Recovering
  <2>2. CASE s # "idle"
    BY <1>2, <1>3, <1>6, <1>7, <2>2 DEF LogOK, Pending, Trying, Recovering, SameCommand
  <2>3. QED
    BY <2>1, <2>2
<1>9. QED
  BY <1>5, <1>8

LEMMA RecoveryGoesKeeps ==
    ASSUME HistoryInv, \/ RecoverCommitted \/ RecoveryRefused \/ NothingToRecover
                       \/ ClearManifest \/ ClearJournal \/ MakeJournal \/ WriteManifest
    PROVE  HistoryInv'
<1>. USE DEF HistoryInv
<1>. /\ journal \in JournalRow /\ RingOK(journal.ring) /\ ring \in RingRow /\ RingOK(ring) /\ log \in Seq(LineRow)
  BY DEF FilesOK
<1>1. CASE RecoverCommitted
  <2>. DEFINE s == IF Verifies(ring, log) /\ SealsVerify(ring) THEN "clear" ELSE "idle"
  <2>1. RecoveryStep /\ Goto(s) /\ UNCHANGED <<ring, log, journal>> /\ Pending /\ op.at = "recover"
    BY <1>1 DEF RecoverCommitted, Pending
  <2>2. s = "clear" => Auth(ring, log)
    BY VerifiesIs
  <2>3. s \in {"clear", "idle"}
    OBVIOUS
  <2>. HIDE DEF s
  <2>4. QED
    BY <2>1, <2>2, <2>3, RecoveryGoes DEF Recovering, Pending
<1>2. CASE RecoveryRefused
  <2>1. RecoveryStep /\ Goto("idle") /\ UNCHANGED <<ring, log, journal>> /\ op.at = "recover"
    BY <1>2 DEF RecoveryRefused
  <2>2. QED
    BY <2>1, RecoveryGoes DEF Recovering
<1>3. CASE NothingToRecover
  <2>1. RecoveryStep /\ Goto(AfterRecovery) /\ UNCHANGED <<ring, log, journal>> /\ op.at = "recover" /\ ~Pending
    BY <1>3 DEF NothingToRecover
  <2>2. AfterRecovery \in {"validate", "idle"}
    BY DEF AfterRecovery
  <2>3. QED
    BY <2>1, <2>2, RecoveryGoes DEF Recovering, Pending
<1>4. CASE ClearManifest
  <2>1. RecoveryStep /\ Goto("cleared") /\ UNCHANGED <<ring, log>> /\ op.at = "clear"
        /\ journal' = [journal EXCEPT !.at = "bare"]
    BY <1>4 DEF ClearManifest
  <2>2. journal' \in JournalRow /\ journal'.at = "bare" /\ journal'.ring = journal.ring
    BY ONLY <2>1, journal \in JournalRow DEF JournalRow
  <2>3. Auth(ring, log)
    BY <2>1 DEF LogOK
  <2>4. QED
    BY <2>1, <2>2, <2>3, RecoveryGoes DEF Recovering, Pending
<1>5. CASE ClearJournal
  <2>. DEFINE s == IF op.then = "commit" THEN "idle" ELSE AfterRecovery
  <2>1. RecoveryStep /\ Goto(s) /\ UNCHANGED <<ring, log>> /\ op.at = "cleared" /\ journal' = NoJournal
    BY <1>5 DEF ClearJournal
  <2>2. s \in {"validate", "idle"}
    BY DEF AfterRecovery
  <2>3. journal' \in JournalRow /\ RingOK(journal'.ring) /\ ~Pending'
    BY <2>1, EmptyLog DEF JournalRow, NoJournal, Pending
  <2>. HIDE DEF s
  <2>4. QED
    BY <2>1, <2>2, <2>3, RecoveryGoes DEF Recovering
<1>6. CASE MakeJournal
  <2>1. RecoveryStep /\ Goto("manifest") /\ UNCHANGED <<ring, log>> /\ op.at = "mkdir"
        /\ journal' = [at |-> "made", ring |-> ring, log |-> log]
    BY <1>6 DEF MakeJournal
  <2>2. journal' \in JournalRow /\ RingOK(journal'.ring) /\ Pending'
    BY <2>1 DEF JournalRow, Pending
  <2>3. QED
    BY <2>1, <2>2, RecoveryGoes DEF Recovering
<1>7. CASE WriteManifest
  <2>1. RecoveryStep /\ Goto("putLog") /\ UNCHANGED <<ring, log>> /\ op.at = "manifest"
        /\ journal' = [journal EXCEPT !.at = "prepared"]
    BY <1>7 DEF WriteManifest
  <2>2. journal' \in JournalRow /\ journal'.at = "prepared" /\ journal'.ring = journal.ring
    BY ONLY <2>1, journal \in JournalRow DEF JournalRow
  <2>3. QED
    BY <2>1, <2>2, RecoveryGoes DEF Recovering, Pending
<1>8. QED
  BY <1>1, <1>2, <1>3, <1>4, <1>5, <1>6, <1>7

\* Validation remembers the pair there is.
LEMMA ValidateKeeps ==
    ASSUME HistoryInv, Validate PROVE HistoryInv'
<1>. USE DEF HistoryInv
<1>1. op.at = "validate" /\ UNCHANGED <<ring, log, journal>> /\ RecoveryStep /\ op.do \in {"restore", "recover"}
      /\ ~Pending
  BY DEF Validate, LogOK, Recovering
<1>2. CASE ~Restorable
  <2>1. Goto("idle")
    BY <1>2 DEF Validate
  <2>2. QED
    BY <1>1, <2>1, RecoveryGoes DEF Recovering, FilesOK
<1>3. CASE Restorable
  <2>1. op \in OpRow /\ op' = [op EXCEPT !.at = "mkdir", !.undo = Now] /\ "mkdir" \in Steps
    BY <1>3 DEF Validate, FilesOK, Steps, Recovering
  <2>2. Now \in UndoRow /\ Now.ring = ring /\ Now.log = log /\ RingOK(Now.ring)
    BY NowIs
  <2>3. /\ op' \in OpRow /\ op'.at = "mkdir" /\ op'.undo = Now /\ op'.do = op.do /\ op'.then = op.then
        /\ op'.tree = op.tree /\ op'.was = op.was
    BY ONLY <2>1, <2>2 DEF OpRow
  <2>4. TreesStay /\ UNCHANGED <<minted, lines, keyCopy, witness, pairCopy, damaged, cut>>
    BY <1>1 DEF RecoveryStep, TreesStay, trees, offline, faults
  <2>5. FilesOK'
    BY <1>1, <2>2, <2>3, <2>4 DEF FilesOK
  <2>6. TreesOK'
    BY <2>3, <2>4, SameTrees DEF TreesOK, TreesStay
  <2>7. PhaseOK'
    BY <1>1, <2>3 DEF KeptInv, PhaseOK
  <2>8. KeptInv'
    BY <1>1, <2>3, <2>4, <2>7, OtherCommand
  <2>9. LogOK'
    BY <1>1, <2>2, <2>3, <2>4 DEF LogOK, Pending, Trying, Recovering
  <2>10. QED
    BY <2>5, <2>6, <2>8, <2>9
<1>4. QED
  BY <1>2, <1>3

LEMMA RecoverFilesKeeps ==
    ASSUME HistoryInv, RecoverLog \/ RecoverKey \/ PutLog PROVE HistoryInv'
<1>. USE DEF HistoryInv
<1>. /\ journal \in JournalRow /\ RingOK(journal.ring) /\ journal.ring \in RingRow /\ journal.log \in Seq(LineRow)
     /\ ring \in RingRow /\ RingOK(ring) /\ log \in Seq(LineRow) /\ pairCopy.log \in Seq(LineRow)
     /\ RecoveryStep /\ UNCHANGED <<journal, damaged, cut>>
     /\ op.do \in {"restore", "recover"}
  BY DEF FilesOK, JournalRow, PairRow, RecoverLog, RecoverKey, PutLog, RecoveryStep, faults, LogOK, Recovering
<1>1. ASSUME NEW s \in {"key", "clear", "idle", "putKey"}, Goto(s), Pending,
             IF s = "putKey" THEN op.at = "putLog" ELSE op.at \in {"recover", "key"},
             ring' \in RingRow, RingOK(ring'), log' \in Seq(LineRow),
             s = "clear" => Auth(ring', log')
      PROVE  HistoryInv'
  <2>1. s \in Steps
    BY DEF Steps, Recovering, Following
  <2>2. /\ op' \in OpRow /\ RingOK(op'.undo.ring)
        /\ s = "idle" => op' = Rest
        /\ s # "idle" => SameCommand /\ op'.at = s /\ op'.then = op.then /\ op'.todo = op.todo
    BY <1>1, <2>1, GotoIs
  <2>3. Recovers(s)
    BY <2>2 DEF Recovers, Recovering
  <2>4. FilesOK' /\ TreesOK' /\ KeptInv'
    BY <1>1, <2>2, <2>3, RecoveryRests
  <2>5. LogOK'
    <3>1. CASE s = "idle"
      BY <1>1, <2>2, <3>1, RestIs DEF LogOK, Pending, Trying, Recovering
    <3>2. CASE s # "idle"
      BY <1>1, <2>2, <3>2 DEF LogOK, Pending, Trying, Recovering, SameCommand
    <3>3. QED
      BY <3>1, <3>2
  <2>6. QED
    BY <2>4, <2>5
<1>2. CASE RecoverLog
  <2>1. /\ op.at = "recover" /\ journal.at = "prepared" /\ log' = journal.log /\ Goto("key") /\ UNCHANGED ring
    BY <1>2 DEF RecoverLog
  <2>2. QED
    BY <1>1, <2>1 DEF Pending
<1>3. CASE RecoverKey
  <2>. DEFINE s == IF PairStands(journal.ring, log) THEN "clear" ELSE "idle"
  <2>1. /\ op.at = "key" /\ ring' = journal.ring /\ UNCHANGED log /\ Goto(s) /\ s \in {"clear", "idle"}
    BY <1>3 DEF RecoverKey
  <2>2. Pending
    BY <2>1 DEF LogOK
  <2>3. s = "clear" => Auth(ring', log')
    BY <2>1, EmptyLog, VerifiesIs DEF PairStands
  <2>. HIDE DEF s
  <2>4. QED
    BY <1>1, <2>1, <2>2, <2>3
<1>4. CASE PutLog
  <2>1. op.at = "putLog" /\ log' = pairCopy.log /\ Goto("putKey") /\ UNCHANGED ring
    BY <1>4 DEF PutLog
  <2>2. Pending
    BY <2>1 DEF LogOK
  <2>3. log' \in Seq(LineRow) /\ ring' \in RingRow /\ RingOK(ring')
    BY <2>1
  <2>4. "putKey" \in {"key", "clear", "idle", "putKey"} /\ "putKey" # "clear"
    OBVIOUS
  <2>5. QED
    BY <1>1, <2>1, <2>2, <2>3, <2>4
<1>5. QED
  BY <1>2, <1>3, <1>4

LEMMA PutKeyKeeps ==
    ASSUME HistoryInv, PutKey PROVE HistoryInv'
<1>. USE DEF HistoryInv
<1>1. /\ op.at = "putKey" /\ ring' = pairCopy.ring /\ UNCHANGED <<log, journal>> /\ RecoveryStep
      /\ op.do \in {"restore", "recover"} /\ Pending /\ UNCHANGED <<damaged, cut>>
      /\ "raised" \in Steps /\ "commit" \in Following
  BY DEF PutKey, LogOK, Recovering, RecoveryStep, faults, Steps, Following
<1>2. ring' \in RingRow /\ RingOK(ring') /\ log' \in Seq(LineRow) /\ journal' \in JournalRow /\ RingOK(journal'.ring)
  BY <1>1 DEF FilesOK, PairRow
<1>3. CASE Record("commit") /\ Verifies(ring', log)
  <2>1. /\ op' \in OpRow /\ RingOK(op'.undo.ring)
        /\ SameCommand /\ op'.at = "line" /\ op'.then = "commit"
    BY <1>1, <1>3, RecordIs
  <2>2. Recovers("line")
    BY <2>1 DEF Recovers
  <2>3. FilesOK' /\ TreesOK' /\ KeptInv'
    BY <1>1, <1>2, <2>1, <2>2, RecoveryRests
  <2>4. LogOK'
    BY <1>1, <1>3, <2>1, VerifiesIs DEF LogOK, Pending, Trying, Recovering, SameCommand
  <2>5. QED
    BY <2>3, <2>4
<1>4. CASE Goto("raised")
  <2>1. /\ op' \in OpRow /\ RingOK(op'.undo.ring)
        /\ SameCommand /\ op'.at = "raised" /\ op'.then = op.then
    BY <1>1, <1>4, GotoIs
  <2>2. Recovers("raised")
    BY <2>1 DEF Recovers
  <2>3. FilesOK' /\ TreesOK' /\ KeptInv'
    BY <1>1, <1>2, <2>1, <2>2, RecoveryRests
  <2>4. LogOK'
    BY <1>1, <2>1 DEF LogOK, Pending, Trying, Recovering, SameCommand
  <2>5. QED
    BY <2>3, <2>4
<1>5. QED
  BY <1>1, <1>3, <1>4 DEF PutKey

LEMMA CommitKeeps ==
    ASSUME HistoryInv, Commit PROVE HistoryInv'
<1>. USE DEF HistoryInv
<1>1. /\ op.at = "commit" /\ journal' = [journal EXCEPT !.at = "committed"] /\ damaged' = FALSE /\ cut' = FALSE /\ Goto("clear")
      /\ TreesStay /\ UNCHANGED <<ring, minted, log, lines, keyCopy, witness, pairCopy>> /\ "clear" \in Steps
  BY DEF Commit, TreesStay, trees, keyFiles, auditLog, offline, Steps, Recovering
<1>2. op.do \in {"restore", "recover"} /\ Auth(ring, log)
  BY <1>1 DEF LogOK, Recovering
<1>3. journal \in JournalRow /\ RingOK(journal.ring)
  BY DEF FilesOK
<1>4. journal' \in JournalRow /\ journal'.at = "committed" /\ journal'.ring = journal.ring
  BY ONLY <1>1, <1>3 DEF JournalRow
<1>5. /\ op' \in OpRow /\ RingOK(op'.undo.ring)
      /\ SameCommand /\ op'.at = "clear" /\ op'.then = op.then
  BY <1>1, GotoIs
<1>6. FilesOK'
  BY <1>1, <1>3, <1>4, <1>5 DEF FilesOK
<1>7. LogOK'
  BY <1>1, <1>2, <1>4, <1>5 DEF LogOK, Pending, Trying, Recovering, SameCommand
<1>8. PhaseOK'
  BY <1>2, <1>5 DEF KeptInv, PhaseOK, SameCommand
<1>9. TreesOK' /\ KeptInv'
  BY <1>1, <1>2, <1>5, <1>8, SameTrees, OtherCommand DEF SameCommand
<1>10. QED
  BY <1>6, <1>7, <1>9

LEMMA UndoRestoreKeeps ==
    ASSUME HistoryInv, UndoRestore PROVE HistoryInv'
<1>. USE DEF HistoryInv
<1>1. /\ op.at = "raised" /\ op.do = "restore" /\ log' = op.undo.log /\ ring' = op.undo.ring
      /\ journal' \in {journal, NoJournal} /\ RecoveryStep /\ op' = Rest /\ UNCHANGED <<damaged, cut>>
  BY DEF UndoRestore, RaisedIn, Goto, RecoveryStep, faults
<1>2. ring' \in RingRow /\ RingOK(ring') /\ log' \in Seq(LineRow)
  BY <1>1 DEF FilesOK, OpRow, UndoRow
<1>3. journal' \in JournalRow /\ RingOK(journal'.ring)
  <2>1. NoJournal \in JournalRow /\ RingOK(NoJournal.ring)
    BY EmptyLog DEF JournalRow, NoJournal
  <2>2. QED
    BY <1>1, <2>1 DEF FilesOK
<1>4. FilesOK' /\ TreesOK' /\ KeptInv'
  BY <1>1, <1>2, <1>3, RestIs, RecoveryRests DEF Recovers
<1>5. LogOK'
  BY <1>1, RestIs DEF LogOK, Pending, Trying, Recovering
<1>6. QED
  BY <1>4, <1>5

LEMMA BundlesKeep ==
    ASSUME HistoryInv, IssueWitness \/ UndoBundle PROVE HistoryInv'
<1>. USE DEF HistoryInv
<1>1. CASE IssueWitness
  <2>1. /\ witness' = log /\ TreesStay /\ UNCHANGED <<ring, minted, log, lines, keyCopy, op, pairCopy, journal, damaged, cut>>
    BY <1>1 DEF IssueWitness, deploymentVars, TreesStay, trees, keyFiles, auditLog, faults
  <2>2. FilesOK'
    BY <2>1 DEF FilesOK
  <2>3. LogOK'
    BY <2>1 DEF LogOK, Pending, Trying
  <2>4. TreesOK'
    BY <2>1 DEF TreesOK, TreesStay
  <2>5. KeptInv'
    BY <2>1 DEF KeptInv, TreesStay, TreeKept, PhaseOK, SwapOK, MovingOut, RemovalOK, Removing, RotationOK, Sound
  <2>6. QED
    BY <2>2, <2>3, <2>4, <2>5
<1>2. CASE UndoBundle
  <2>1. /\ op.do = "bundle" /\ op.at = "raised" /\ pairCopy' = NotBundled /\ op' = Rest
        /\ TreesStay /\ UNCHANGED <<ring, minted, log, lines, keyCopy, witness, journal, damaged, cut>>
    BY <1>2 DEF UndoBundle, RaisedIn, Goto, TreesStay, trees, keyFiles, auditLog, faults
  <2>2. pairCopy' \in PairRow /\ RingOK(pairCopy'.ring)
    BY <2>1, EmptyLog DEF PairRow, NotBundled
  <2>3. FilesOK'
    BY <2>1, <2>2, RestIs DEF FilesOK
  <2>4. LogOK'
    BY <2>1, RestIs DEF LogOK, Pending, Trying, Recovering
  <2>5. TreesOK' /\ KeptInv'
    BY <2>1, SameTrees, CommandEnds
  <2>6. QED
    BY <2>3, <2>4, <2>5
<1>3. QED
  BY <1>1, <1>2

-----------------------------------------------------------------------------
(* Trees. *)

FilesStay ==
    UNCHANGED <<ring, minted, log, lines, keyCopy, witness, pairCopy, journal, damaged, cut>>

TreeCommands == {"nothing", "backupKey", "adopt", "deploy", "rollback", "prune", "note"}

\* A step that leaves the two files.
LEMMA SameFiles ==
    ASSUME FilesOK, LogOK, FilesStay, op' \in OpRow, RingOK(op'.undo.ring),
           op.do \in TreeCommands, op'.do \in TreeCommands, op'.at \notin Recovering, op'.then # "commit"
    PROVE  FilesOK' /\ LogOK'
<1>1. FilesOK'
  BY DEF FilesOK, FilesStay
<1>2. LogOK'
  BY DEF LogOK, FilesStay, Pending, Trying, Recovering, TreeCommands
<1>3. QED
  BY <1>1, <1>2

LEMMA NoCommit ==
    ASSUME LogOK, op.do \in TreeCommands PROVE op.at \notin Recovering /\ op.then # "commit"
BY DEF LogOK, TreeCommands

LEMMA DeployKeeps ==
    ASSUME HistoryInv, Deploy, OthersStay PROVE HistoryInv'
<1>. USE DEF HistoryInv
<1>. PICK c : c = [Rest EXCEPT !.do = "deploy", !.at = "out", !.tree = installed + 1, !.was = target]
  OBVIOUS
<1>1. installed \in Nat /\ installed + 1 \in Nat /\ target \in Nat /\ target <= installed /\ installed + 1 # target
      /\ retained \subseteq 1..installed /\ proven \subseteq 1..installed /\ seals \in [Trees -> Nat]
  BY DEF TreesOK
<1>2. /\ c.do = "deploy" /\ c.at = "out" /\ c.then = "idle" /\ c.tree = installed + 1 /\ c.was = target
      /\ c.todo = {} /\ c.undo = NoUndo
  BY DEF Rest
<1>3. c \in OpRow /\ RingOK(c.undo.ring)
  BY <1>1, <1>2, RestIs DEF OpRow, Rest, Commands, Steps, Following
<1>4. op = Rest /\ op' = c
  BY <1>3, CommandIs DEF Deploy
<1>5. FilesStay /\ installed' = installed + 1 /\ installed < MaxTrees
      /\ UNCHANGED <<target, retained, proven, seals>>
  BY DEF Deploy, OthersStay, FilesStay, keyFiles, auditLog, offline
<1>6. FilesOK' /\ LogOK'
  BY <1>2, <1>3, <1>4, <1>5, RestIs, SameFiles DEF TreeCommands, Recovering
<1>7. TreesOK'
  <2>1. installed + 1 <= MaxTrees
    BY <1>1, <1>5, HistoryAssumption
  <2>2. QED
    BY <1>1, <1>2, <1>4, <1>5, <2>1 DEF TreesOK
<1>8. installed + 1 \in Trees \ retained /\ installed + 1 \notin proven
  BY <1>1, <1>5, HistoryAssumption DEF Trees
<1>9. PhaseOK' /\ SwapOK'
  BY <1>1, <1>2, <1>4, <1>5, <1>8 DEF PhaseOK, SwapOK, MovingOut
<1>10. RemovalOK' /\ RotationOK'
  BY <1>2, <1>4 DEF RemovalOK, Removing, RotationOK
<1>11. TreeKept'
  BY <1>5 DEF KeptInv, TreeKept
<1>12. QED
  BY <1>6, <1>7, <1>9, <1>10, <1>11 DEF KeptInv

LEMMA RollbackKeeps ==
    ASSUME HistoryInv, NEW t \in Trees, Rollback(t), OthersStay PROVE HistoryInv'
<1>. USE DEF HistoryInv
<1>. PICK c : c = [Rest EXCEPT !.do = "rollback", !.at = "line", !.then = "out", !.tree = t, !.was = target]
  OBVIOUS
<1>1. t \in Nat /\ t \in retained /\ target \in Nat
  BY ManagedIs DEF Rollback, TreesOK
<1>2. t <= installed /\ target <= installed
  <2>1. retained \subseteq 1..installed /\ target \in 0..installed
    BY DEF TreesOK
  <2>2. QED
    BY <1>1, <2>1
<1>3. /\ c.do = "rollback" /\ c.at = "line" /\ c.then = "out" /\ c.tree = t /\ c.was = target
      /\ c.todo = {} /\ c.undo = NoUndo
  BY DEF Rest
<1>4. c \in OpRow /\ RingOK(c.undo.ring)
  BY <1>1, <1>3, RestIs DEF OpRow, Rest, Commands, Steps, Following
<1>5. op = Rest /\ op' = c
  BY <1>4, CommandIs DEF Rollback
<1>6. FilesStay /\ TreesStay
  BY DEF Rollback, OthersStay, FilesStay, TreesStay, trees, keyFiles, auditLog, offline
<1>7. FilesOK' /\ LogOK'
  BY <1>3, <1>4, <1>5, <1>6, RestIs, SameFiles DEF TreeCommands, Recovering
<1>8. TreesOK'
  BY <1>2, <1>3, <1>5, <1>6, SameTrees
<1>9. PhaseOK' /\ SwapOK'
  BY <1>3, <1>5, <1>6 DEF PhaseOK, SwapOK, MovingOut, TreesStay
<1>10. RemovalOK' /\ RotationOK'
  BY <1>3, <1>5 DEF RemovalOK, Removing, RotationOK
<1>11. QED
  BY <1>6, <1>7, <1>8, <1>9, <1>10, SameTreeKept DEF KeptInv

LEMMA MoveOutKeeps ==
    ASSUME HistoryInv, MoveOut, OthersStay PROVE HistoryInv'
<1>. USE DEF HistoryInv
<1>1. /\ op.at = "out" /\ target' = NoTree /\ retained' = retained \cup ({op.was} \ {NoTree}) /\ Goto("in")
      /\ FilesStay /\ UNCHANGED <<proven, seals, installed>> /\ "in" \in Steps
  BY DEF MoveOut, OthersStay, FilesStay, keyFiles, auditLog, offline, Steps
<1>2. op.do \in {"deploy", "rollback"} /\ op.was = target
  BY <1>1 DEF KeptInv, PhaseOK, SwapOK, MovingOut
<1>3. /\ op' \in OpRow /\ RingOK(op'.undo.ring)
      /\ SameCommand /\ op'.at = "in" /\ op'.then = op.then
  BY <1>1, GotoIs
<1>4. FilesOK' /\ LogOK'
  BY <1>1, <1>2, <1>3, SameFiles, NoCommit DEF TreeCommands, Recovering, SameCommand
<1>5. (retained' \cup {target'}) \ {NoTree} = (retained \cup {target}) \ {NoTree}
  BY <1>1, <1>2
<1>6. TreesOK'
  <2>1. target \in 0..installed /\ retained \subseteq 1..installed /\ installed \in Nat
    BY DEF TreesOK
  <2>2. retained' \subseteq 1..installed
    BY <1>1, <1>2, <2>1 DEF NoTree
  <2>3. target' \in 0..installed
    BY <1>1, <2>1 DEF NoTree
  <2>4. QED
    BY <1>1, <1>3, <2>2, <2>3 DEF TreesOK, SameCommand
<1>7. TreeKept'
  BY <1>1, <1>5 DEF KeptInv, TreeKept
<1>8. PhaseOK'
  BY <1>2, <1>3 DEF KeptInv, PhaseOK, SameCommand
<1>9. SwapOK'
  <2>1. CASE op.do = "rollback"
    BY <1>1, <1>3, <2>1 DEF KeptInv, SwapOK, MovingOut, SameCommand
  <2>2. CASE op.do = "deploy"
    <3>1. op.tree \in Trees \ retained /\ op.was # op.tree /\ op.tree \notin proven
      BY <1>1, <2>2 DEF KeptInv, SwapOK
    <3>2. ASSUME proven # {} PROVE \E t \in retained' : t # op.tree /\ (t \in proven \/ seals[t] # 0)
      <4>1. PICK t \in (retained \cup {target}) \ {NoTree} : t \in proven \/ seals[t] # 0
        BY <3>2 DEF KeptInv, TreeKept
      <4>2. t \in retained' /\ t # op.tree
        BY <1>1, <1>2, <3>1, <4>1
      <4>3. QED
        BY <4>1, <4>2
    <3>3. proven' \ {op'.tree} # {} => \E t \in retained' : t # op'.tree /\ Sound(t)'
      BY <1>1, <1>3, <3>2 DEF Sound, SameCommand
    <3>4. op'.tree \in Trees \ retained'
      BY <1>1, <1>3, <3>1 DEF SameCommand
    <3>5. QED
      BY <1>1, <1>3, <2>2, <3>1, <3>3, <3>4 DEF SwapOK, MovingOut, SameCommand
  <2>3. QED
    BY <1>2, <2>1, <2>2
<1>10. RemovalOK' /\ RotationOK'
  BY <1>2, <1>3 DEF RemovalOK, Removing, RotationOK, SameCommand
<1>11. QED
  BY <1>4, <1>6, <1>7, <1>8, <1>9, <1>10 DEF KeptInv

LEMMA MoveInKeeps ==
    ASSUME HistoryInv, MoveIn, OthersStay PROVE HistoryInv'
<1>. USE DEF HistoryInv
<1>1. /\ op.at = "in" /\ target' = op.tree /\ retained' = retained \ {op.tree} /\ Goto("check")
      /\ FilesStay /\ UNCHANGED <<proven, seals, installed>> /\ "check" \in Steps
  BY DEF MoveIn, OthersStay, FilesStay, keyFiles, auditLog, offline, Steps
<1>2. op.do \in {"deploy", "rollback"} /\ target = NoTree
  BY <1>1 DEF KeptInv, PhaseOK, SwapOK
<1>3. /\ op' \in OpRow /\ RingOK(op'.undo.ring)
      /\ SameCommand /\ op'.at = "check" /\ op'.then = op.then
  BY <1>1, GotoIs
<1>4. FilesOK' /\ LogOK'
  BY <1>1, <1>2, <1>3, SameFiles, NoCommit DEF TreeCommands, Recovering, SameCommand
<1>5. TreesOK'
  <2>1. op.tree \in Nat /\ op.tree <= installed /\ installed \in Nat
    BY DEF TreesOK, FilesOK, OpRow
  <2>2. op.tree \in 0..installed
    BY <2>1
  <2>3. QED
    BY <1>1, <1>3, <2>2 DEF TreesOK, SameCommand
<1>6. TreeKept'
  <2>1. (retained \cup {target}) \ {NoTree} \subseteq (retained' \cup {target'}) \ {NoTree}
    BY <1>1, <1>2
  <2>2. QED
    BY <1>1, <2>1 DEF KeptInv, TreeKept
<1>7. PhaseOK'
  BY <1>2, <1>3 DEF KeptInv, PhaseOK, SameCommand
<1>8. SwapOK'
  <2>1. CASE op.do = "rollback"
    BY <1>1, <1>3, <2>1 DEF KeptInv, SwapOK, MovingOut, SameCommand
  <2>2. CASE op.do = "deploy"
    <3>1. op.tree \in Trees \ retained /\ op.was # op.tree /\ op.tree \notin proven
      BY <1>1, <2>2 DEF KeptInv, SwapOK
    <3>2. proven \ {op.tree} # {} => \E t \in retained : t # op.tree /\ Sound(t)
      BY <1>1, <2>2 DEF KeptInv, SwapOK
    <3>3. proven' \ {op'.tree} # {} => \E t \in retained' : t # op'.tree /\ Sound(t)'
      BY <1>1, <1>3, <3>1, <3>2 DEF Sound, SameCommand
    <3>4. QED
      BY <1>1, <1>3, <2>2, <3>1, <3>3 DEF SwapOK, MovingOut, SameCommand
  <2>3. QED
    BY <1>2, <2>1, <2>2
<1>9. RemovalOK' /\ RotationOK'
  BY <1>2, <1>3 DEF RemovalOK, Removing, RotationOK, SameCommand
<1>10. QED
  BY <1>4, <1>5, <1>6, <1>7, <1>8, <1>9 DEF KeptInv

LEMMA ActivationVerifiedKeeps ==
    ASSUME HistoryInv, ActivationVerified, OthersStay PROVE HistoryInv'
<1>. USE DEF HistoryInv
<1>1. /\ op.at = "check" /\ proven' = proven \cup {op.tree} /\ Goto("seal")
      /\ FilesStay /\ UNCHANGED <<target, retained, seals, installed>> /\ "seal" \in Steps
  BY DEF ActivationVerified, OthersStay, FilesStay, keyFiles, auditLog, offline, Steps, Following
<1>2. op.do \in {"deploy", "rollback"} /\ target = op.tree /\ op.tree \in Trees
  BY <1>1 DEF KeptInv, PhaseOK, SwapOK
<1>3. /\ op' \in OpRow /\ RingOK(op'.undo.ring)
      /\ SameCommand /\ op'.at = "seal" /\ op'.then = op.then
  BY <1>1, GotoIs
<1>4. FilesOK' /\ LogOK'
  BY <1>1, <1>2, <1>3, SameFiles, NoCommit DEF TreeCommands, Recovering, SameCommand
<1>5. op.tree \in 1..installed /\ op.tree # NoTree
  BY <1>2 DEF TreesOK, Trees, NoTree
<1>6. TreesOK'
  BY <1>1, <1>3, <1>5 DEF TreesOK, SameCommand
<1>7. TreeKept'
  BY <1>1, <1>2, <1>5 DEF TreeKept
<1>8. PhaseOK'
  BY <1>2, <1>3 DEF KeptInv, PhaseOK, SameCommand
<1>9. SwapOK'
  <2>1. CASE op.do = "rollback"
    BY <1>1, <1>2, <1>3, <2>1 DEF KeptInv, SwapOK, MovingOut, SameCommand
  <2>2. CASE op.do = "deploy"
    <3>1. op.tree \in Trees \ retained /\ op.was # op.tree
      BY <1>1, <2>2 DEF KeptInv, SwapOK
    <3>2. proven \ {op.tree} # {} => \E t \in retained : t # op.tree /\ Sound(t)
      BY <1>1, <2>2 DEF KeptInv, SwapOK
    <3>3. proven' \ {op'.tree} # {} => \E t \in retained' : t # op'.tree /\ Sound(t)'
      BY <1>1, <1>3, <3>1, <3>2 DEF Sound, SameCommand
    <3>4. QED
      BY <1>1, <1>2, <1>3, <2>2, <3>1, <3>3 DEF SwapOK, MovingOut, SameCommand
  <2>3. QED
    BY <1>2, <2>1, <2>2
<1>10. RemovalOK' /\ RotationOK'
  BY <1>2, <1>3 DEF RemovalOK, Removing, RotationOK, SameCommand
<1>11. QED
  BY <1>4, <1>6, <1>7, <1>8, <1>9, <1>10 DEF KeptInv

\* A command that ends in a step that exchanged trees, or goes on to note that.
LEMMA SwapEnds ==
    ASSUME HistoryInv, FilesStay, TreesOK', TreeKept', op.do \in TreeCommands,
           op' = Rest \/ op' = [Rest EXCEPT !.do = "note", !.at = "line"]
    PROVE  HistoryInv'
<1>. USE DEF HistoryInv
<1>1. /\ op' \in OpRow /\ RingOK(op'.undo.ring) /\ op'.do \in {"nothing", "note"} /\ op'.at \in {"idle", "line"}
      /\ op'.then = "idle"
  <2>1. PICK c : c = [Rest EXCEPT !.do = "note", !.at = "line"]
    OBVIOUS
  <2>2. c \in OpRow /\ c.undo = Rest.undo /\ c.do = "note" /\ c.at = "line" /\ c.then = "idle"
    BY <2>1, RestIs DEF Rest, OpRow, Commands, Steps
  <2>3. QED
    BY <2>1, <2>2, RestIs
<1>2. FilesOK' /\ LogOK'
  BY <1>1, SameFiles DEF TreeCommands, Recovering
<1>3. PhaseOK' /\ SwapOK' /\ RemovalOK' /\ RotationOK'
  BY <1>1 DEF PhaseOK, SwapOK, MovingOut, RemovalOK, Removing, RotationOK
<1>4. QED
  BY <1>2, <1>3 DEF KeptInv

LEMMA ActivationFailsKeeps ==
    ASSUME HistoryInv, ActivationFails, OthersStay PROVE HistoryInv'
<1>. USE DEF HistoryInv
<1>1. /\ op.do \in {"deploy", "rollback"} /\ op.at \in {"check", "seal"} /\ target' = op.was
      /\ retained' = (retained \ {op.was}) \cup (IF op.do = "rollback" THEN {op.tree} ELSE {})
      /\ proven' = IF op.do = "rollback" THEN proven ELSE proven \ {op.tree}
      /\ op' = IF op.do = "rollback" THEN [Rest EXCEPT !.do = "note", !.at = "line"] ELSE Rest
      /\ UNCHANGED <<seals, installed>>
  BY DEF ActivationFails
<1>2. FilesStay
  BY DEF ActivationFails, OthersStay, FilesStay, keyFiles, auditLog, offline
<1>3. target = op.tree /\ op.tree \in Trees
  BY <1>1 DEF KeptInv, SwapOK
<1>4. op.was \in Nat /\ op.was <= installed /\ op.tree \in 1..installed /\ op.was \in 0..installed
  <2>1. op.was \in Nat /\ op.was <= installed /\ op.tree \in Nat /\ op.tree <= installed /\ installed \in Nat
    BY DEF FilesOK, OpRow, TreesOK
  <2>2. op.tree # 0
    BY <1>3 DEF Trees
  <2>3. QED
    BY <2>1, <2>2
<1>5. TreesOK'
  <2>1. op'.was = 0 /\ op'.tree = 0
    BY <1>1 DEF Rest, NoTree
  <2>2. QED
    BY <1>1, <1>4, <2>1 DEF TreesOK
<1>6. TreeKept'
  <2>1. CASE op.do = "rollback"
    <3>1. (retained \cup {target}) \ {NoTree} \subseteq (retained' \cup {target'}) \ {NoTree}
      BY <1>1, <1>3, <2>1
    <3>2. QED
      BY <1>1, <2>1, <3>1 DEF KeptInv, TreeKept
  <2>2. CASE op.do = "deploy"
    <3>1. ASSUME proven \ {op.tree} # {}
          PROVE  \E t \in (retained' \cup {target'}) \ {NoTree} : t \in proven' \/ seals'[t] # 0
      <4>1. PICK t \in retained : t # op.tree /\ Sound(t)
        BY <1>1, <2>2, <3>1 DEF KeptInv, SwapOK
      <4>2. t # NoTree
        BY <4>1 DEF TreesOK, NoTree
      <4>3. QED
        BY <1>1, <2>2, <4>1, <4>2 DEF Sound
    <3>2. QED
      BY <1>1, <2>2, <3>1 DEF TreeKept
  <2>3. QED
    BY <1>1, <2>1, <2>2
<1>7. QED
  BY <1>1, <1>2, <1>5, <1>6, SwapEnds DEF TreeCommands

LEMMA SealKeeps ==
    ASSUME HistoryInv, Seal, OthersStay PROVE HistoryInv'
<1>. USE DEF HistoryInv
<1>. PICK t : t = IF op.do = "adopt" THEN op.tree ELSE op.was
  OBVIOUS
<1>1. /\ op.at = "seal" /\ IF t = NoTree THEN UNCHANGED <<keyFiles, seals>>
                           ELSE Load /\ seals' = [seals EXCEPT ![t] = Loaded.current]
      /\ UNCHANGED <<log, lines, target, retained, proven, installed, keyCopy>>
      /\ UNCHANGED <<witness, pairCopy, journal, damaged, cut>>
  BY DEF Seal, OthersStay, auditLog, offline
<1>2. op.do \in {"deploy", "rollback", "adopt"}
  BY <1>1 DEF KeptInv, PhaseOK
<1>3. /\ op' \in OpRow /\ RingOK(op'.undo.ring) /\ SameCommand
      /\ op'.at \in {"prune", "line"} /\ op'.then \in {op.then, "prune", "idle"}
      /\ op.do = "deploy" => op'.at = "prune" /\ op'.then = op.then
      /\ op.do = "rollback" => op'.at = "line" /\ op'.then = "prune"
      /\ op.do = "adopt" => op'.at = "line" /\ op'.then = "idle"
  <2>1. "prune" \in Steps /\ "prune" \in Following /\ "idle" \in Following
    BY DEF Steps, Following
  <2>2. CASE op.do = "deploy"
    <3>1. Goto("prune")
      BY <2>2 DEF Seal
    <3>2. QED
      BY <2>1, <2>2, <3>1, GotoIs
  <2>3. CASE op.do = "rollback"
    <3>1. Record("prune")
      BY <2>3 DEF Seal
    <3>2. QED
      BY <2>1, <2>3, <3>1, RecordIs
  <2>4. CASE op.do = "adopt"
    <3>1. Record("idle")
      BY <2>4 DEF Seal
    <3>2. QED
      BY <2>1, <2>4, <3>1, RecordIs
  <2>5. QED
    BY <1>2, <2>2, <2>3, <2>4
<1>4. op.then # "commit" /\ op.at \notin Recovering
  BY <1>2, NoCommit DEF TreeCommands
<1>5. /\ ring' \in RingRow /\ RingOK(ring') /\ minted' \in Nat
      /\ Auth(ring, Whole(log)) => Auth(ring', Whole(log))
  <2>1. ring \in RingRow /\ RingOK(ring) /\ minted \in Nat /\ Whole(log) \in Seq(LineRow)
    BY WholeIs DEF FilesOK
  <2>2. CASE t = NoTree
    BY <1>1, <2>1, <2>2 DEF keyFiles
  <2>3. CASE t # NoTree
    <3>1. ring' = Loaded /\ minted' \in Nat
      BY <1>1, <2>1, <2>3 DEF Load
    <3>2. QED
      BY <2>1, <3>1, LoadedIs
  <2>4. QED
    BY <2>2, <2>3
<1>6. FilesOK'
  BY <1>1, <1>3, <1>5 DEF FilesOK
<1>7. LogOK'
  BY <1>1, <1>2, <1>3, <1>4, <1>5 DEF LogOK, Pending, Trying, Recovering, SameCommand
<1>8. t \in Nat /\ t <= installed
  BY DEF FilesOK, OpRow, TreesOK
<1>9. seals' \in [Trees -> Nat] /\ \A u \in Trees : seals[u] # 0 => seals'[u] # 0
  <2>1. CASE t = NoTree
    BY <1>1, <2>1 DEF TreesOK
  <2>2. CASE t # NoTree
    <3>1. seals' = [seals EXCEPT ![t] = Loaded.current]
      BY <1>1, <2>2
    <3>2. Loaded.current \in Nat /\ Loaded.current # 0
      BY LoadedIs DEF RingRow
    <3>3. QED
      BY <3>1, <3>2 DEF TreesOK
  <2>3. QED
    BY <2>1, <2>2
<1>10. TreesOK'
  BY <1>1, <1>3, <1>9 DEF TreesOK, SameCommand
<1>11. \A u \in 1..installed : u \in Trees
  BY TreesAre
<1>12. TreeKept'
  <2>1. \A u \in (retained \cup {target}) \ {NoTree} : u \in Trees
    BY <1>11, TreesAre
  <2>2. QED
    BY <1>1, <1>9, <2>1 DEF KeptInv, TreeKept
<1>13. PhaseOK'
  BY <1>2, <1>3 DEF KeptInv, PhaseOK, SameCommand
<1>14. SwapOK'
  <2>1. CASE op.do # "deploy"
    BY <1>1, <1>2, <1>3, <2>1 DEF KeptInv, SwapOK, MovingOut, SameCommand
  <2>2. CASE op.do = "deploy"
    <3>1. op.tree \in Trees \ retained /\ op.was # op.tree /\ target = op.tree
      BY <1>1, <2>2 DEF KeptInv, SwapOK
    <3>2. ASSUME proven \ {op.tree} # {} PROVE \E u \in retained : u # op.tree /\ (u \in proven \/ seals'[u] # 0)
      <4>1. PICK u \in retained : u # op.tree /\ Sound(u)
        BY <1>1, <2>2, <3>2 DEF KeptInv, SwapOK
      <4>2. u \in Trees
        BY <1>11 DEF TreesOK
      <4>3. QED
        BY <1>9, <4>1, <4>2 DEF Sound
    <3>3. proven' \ {op'.tree} # {} => \E u \in retained' : u # op'.tree /\ Sound(u)'
      BY <1>1, <1>3, <3>2 DEF Sound, SameCommand
    <3>4. QED
      BY <1>1, <1>3, <2>2, <3>1, <3>3 DEF SwapOK, MovingOut, SameCommand
  <2>3. QED
    BY <2>1, <2>2
<1>15. RemovalOK' /\ RotationOK'
  BY <1>2, <1>3 DEF KeptInv, PhaseOK, RemovalOK, Removing, RotationOK, SameCommand
<1>16. QED
  BY <1>6, <1>7, <1>10, <1>12, <1>13, <1>14, <1>15 DEF KeptInv

\* The newest managed tree is not among those that are removed.
LEMMA NewestStays ==
    ASSUME FilesOK, TreesOK, Excess # {}
    PROVE  /\ Excess \subseteq 1..installed /\ Excess \in SUBSET Nat
           /\ \E m \in retained \ Excess : seals[m] # 0
<1>1. Managed \subseteq 1..installed /\ Managed \in SUBSET Nat
  BY TreesAre, ManagedIs DEF TreesOK
<1>2. Managed # {} /\ Excess \subseteq Managed
  BY DEF Excess
<1>3. \A x \in Managed : x <= installed
  BY <1>1 DEF TreesOK
<1>4. PICK m \in Managed : \A y \in Managed : y <= m
  BY <1>1, <1>2, <1>3, GreatestNumber DEF TreesOK
<1>5. {u \in Managed : u > m} = {}
  <2>1. m \in Nat /\ \A u \in Managed : u \in Nat
    BY <1>1, <1>4
  <2>2. \A u \in Managed : ~(u > m)
    BY ONLY <2>1, <1>4
  <2>3. QED
    BY ONLY <2>2
<1>6. Cardinality({u \in Managed : u > m}) = 0
  BY <1>5, FS_EmptySet
<1>7. m \notin Excess
  BY <1>6, HistoryAssumption DEF Excess
<1>8. QED
  BY <1>1, <1>2, <1>4, <1>7, ManagedIs

LEMMA PruneBeginsKeeps ==
    ASSUME HistoryInv, PruneBegins, OthersStay PROVE HistoryInv'
<1>. USE DEF HistoryInv
<1>1. op.at = "prune" /\ FilesStay /\ TreesStay
  BY DEF PruneBegins, OthersStay, FilesStay, TreesStay, trees, keyFiles, auditLog, offline
<1>2. op.do \in {"deploy", "rollback", "prune"} /\ op \in OpRow
  BY <1>1 DEF KeptInv, PhaseOK, FilesOK
<1>3. op.then # "commit"
  BY <1>2, NoCommit DEF TreeCommands
<1>4. ASSUME op' \in OpRow, RingOK(op'.undo.ring), SameCommand, op'.at \in {"final", "line"},
             op'.at = "final" => op'.do = "deploy" /\ op'.then = op.then,
             op'.at = "line" => /\ op'.then = "remove" /\ op'.todo \subseteq 1..installed
                                /\ op'.todo # {} => \E m \in retained \ op'.todo : seals[m] # 0
      PROVE  HistoryInv'
  <2>1. FilesOK' /\ LogOK'
    BY <1>1, <1>2, <1>3, <1>4, SameFiles DEF TreeCommands, Recovering, SameCommand
  <2>2. TreesOK'
    BY <1>1, <1>4, SameTrees
  <2>3. PhaseOK'
    BY <1>2, <1>4 DEF KeptInv, PhaseOK, SameCommand
  <2>4. SwapOK'
    <3>1. CASE op.do # "deploy"
      BY <1>1, <1>2, <1>4, <3>1 DEF KeptInv, SwapOK, MovingOut, SameCommand
    <3>2. CASE op.do = "deploy"
      <4>1. /\ op.tree \in Trees \ retained /\ op.was # op.tree /\ target = op.tree
            /\ proven \ {op.tree} # {} => \E t \in retained : t # op.tree /\ Sound(t)
        BY <1>1, <3>2 DEF KeptInv, SwapOK
      <4>2. proven' \ {op'.tree} # {} => \E t \in retained' : t # op'.tree /\ Sound(t)'
        BY <1>1, <1>4, <4>1 DEF Sound, SameCommand, TreesStay
      <4>3. QED
        BY <1>1, <1>4, <3>2, <4>1, <4>2 DEF SwapOK, MovingOut, SameCommand, TreesStay
    <3>3. QED
      BY <3>1, <3>2
  <2>5. RemovalOK'
    BY <1>1, <1>4 DEF RemovalOK, Removing, TreesStay
  <2>6. RotationOK'
    BY <1>2, <1>4 DEF RotationOK, SameCommand
  <2>7. QED
    BY <1>1, <2>1, <2>2, <2>3, <2>4, <2>5, <2>6, SameTreeKept DEF KeptInv
<1>5. CASE Excess = {}
  <2>1. Goto(AfterPrune) /\ AfterPrune \in {"final", "idle"} /\ AfterPrune \in Steps
    BY <1>5 DEF PruneBegins, AfterPrune, Steps, Following
  <2>2. CASE AfterPrune = "idle"
    <3>1. op' = Rest
      BY <2>1, <2>2 DEF Goto
    <3>2. FilesOK' /\ LogOK' /\ TreesOK' /\ KeptInv'
      BY <1>1, <1>2, <3>1, RestIs, SameFiles, SameTrees, CommandEnds DEF TreeCommands, Recovering
    <3>3. QED
      BY <3>2
  <2>3. CASE AfterPrune = "final"
    <3>1. op.do = "deploy"
      BY <2>3 DEF AfterPrune
    <3>2. op' \in OpRow /\ RingOK(op'.undo.ring) /\ SameCommand /\ op'.at = "final" /\ op'.then = op.then
      BY <2>1, <2>3, GotoIs
    <3>3. QED
      BY <1>4, <3>1, <3>2 DEF SameCommand
  <2>4. QED
    BY <2>1, <2>2, <2>3
<1>6. CASE Excess # {}
  <2>1. op' = [op EXCEPT !.at = "line", !.then = "remove", !.todo = Excess]
    BY <1>6 DEF PruneBegins
  <2>2. Excess \in SUBSET Nat /\ "line" \in Steps /\ "remove" \in Following
    BY <1>6, NewestStays DEF Steps, Following
  <2>3. /\ op' \in OpRow /\ op'.at = "line" /\ op'.then = "remove" /\ op'.todo = Excess
        /\ op'.do = op.do /\ op'.tree = op.tree /\ op'.was = op.was /\ op'.undo = op.undo
    BY ONLY <1>2, <2>1, <2>2 DEF OpRow
  <2>4. RingOK(op'.undo.ring) /\ SameCommand
    BY <2>3 DEF FilesOK, SameCommand
  <2>5. QED
    BY <1>4, <1>6, <2>3, <2>4, NewestStays
<1>7. QED
  BY <1>5, <1>6

LEMMA RemoveTreeKeeps ==
    ASSUME HistoryInv, RemoveTree, OthersStay PROVE HistoryInv'
<1>. USE DEF HistoryInv
<1>1. op.at = "remove" /\ FilesStay /\ UNCHANGED <<target, proven, seals, installed>>
  BY DEF RemoveTree, OthersStay, FilesStay, keyFiles, auditLog, offline
<1>2. op.do \in {"deploy", "rollback", "prune"} /\ op \in OpRow
  BY <1>1 DEF KeptInv, PhaseOK, FilesOK
<1>3. op.then # "commit"
  BY <1>2, NoCommit DEF TreeCommands
<1>4. ASSUME op' \in OpRow, RingOK(op'.undo.ring), SameCommand, op'.at \in {"line", "remove"},
             retained' \subseteq retained,
             op'.at = "line" => op'.then = AfterPrune /\ retained' = retained,
             op'.at = "remove" => /\ op'.then = op.then /\ op'.todo \subseteq op.todo
                                  /\ \E m \in retained' \ op.todo : seals[m] # 0
      PROVE  HistoryInv'
  <2>1. op'.then # "commit" /\ (op'.at = "line" => op'.then # "out")
    BY <1>2, <1>3, <1>4 DEF AfterPrune, KeptInv, PhaseOK
  <2>2. FilesOK' /\ LogOK'
    BY <1>1, <1>2, <1>4, <2>1, SameFiles DEF TreeCommands, Recovering, SameCommand
  <2>3. TreesOK'
    BY <1>1, <1>4 DEF TreesOK, SameCommand
  <2>4. PhaseOK'
    BY <1>2, <1>4 DEF KeptInv, PhaseOK, SameCommand, AfterPrune
  <2>5. \/ retained' = retained
        \/ \E m \in retained' : m # NoTree /\ m # op.tree /\ seals[m] # 0 /\ op.do = "deploy"
        \/ \E m \in retained' : m # NoTree /\ seals[m] # 0 /\ op.do # "deploy"
    <3>1. CASE op'.at = "line"
      BY <1>4, <3>1
    <3>2. CASE op'.at = "remove"
      <4>1. PICK m \in retained' \ op.todo : seals[m] # 0
        BY <1>4, <3>2
      <4>2. m \in retained /\ m # NoTree
        <5>1. m \in retained /\ retained \subseteq 1..installed /\ installed \in Nat
          BY <1>4, <4>1 DEF TreesOK
        <5>2. m # 0
          BY ONLY <5>1
        <5>3. QED
          BY <5>1, <5>2 DEF NoTree
      <4>3. op.do = "deploy" => m # op.tree
        BY <4>2 DEF KeptInv, SwapOK
      <4>4. QED
        BY <4>1, <4>2, <4>3
    <3>3. QED
      BY <1>4, <3>1, <3>2
  <2>6. TreeKept'
    BY <1>1, <2>5 DEF KeptInv, TreeKept
  <2>7. SwapOK'
    <3>1. CASE op.do # "deploy"
      BY <1>1, <1>2, <1>4, <2>1, <3>1 DEF KeptInv, SwapOK, MovingOut, SameCommand
    <3>2. CASE op.do = "deploy"
      <4>1. /\ op.tree \in Trees \ retained /\ op.was # op.tree /\ target = op.tree
            /\ proven \ {op.tree} # {} => \E t \in retained : t # op.tree /\ Sound(t)
        BY <1>1, <3>2 DEF KeptInv, SwapOK
      <4>2. proven \ {op.tree} # {} => \E t \in retained' : t # op.tree /\ Sound(t)
        BY <2>5, <3>2, <4>1 DEF Sound
      <4>3. proven' \ {op'.tree} # {} => \E t \in retained' : t # op'.tree /\ Sound(t)'
        BY <1>1, <1>4, <4>2 DEF Sound, SameCommand
      <4>4. QED
        BY <1>1, <1>4, <2>1, <3>2, <4>1, <4>3 DEF SwapOK, MovingOut, SameCommand
    <3>3. QED
      BY <3>1, <3>2
  <2>8. RemovalOK'
    <3>1. CASE op'.at = "line"
      BY <1>4, <3>1 DEF RemovalOK, Removing, AfterPrune
    <3>2. CASE op'.at = "remove"
      <4>1. op.todo \subseteq 1..installed
        BY <1>1 DEF KeptInv, RemovalOK, Removing
      <4>2. QED
        BY <1>1, <1>4, <3>2, <4>1 DEF RemovalOK
    <3>3. QED
      BY <1>4, <3>1, <3>2
  <2>9. RotationOK'
    BY <1>2, <1>4 DEF RotationOK, SameCommand
  <2>10. QED
    BY <2>2, <2>3, <2>4, <2>6, <2>7, <2>8, <2>9 DEF KeptInv
<1>5. CASE op.todo = {}
  <2>1. Record(AfterPrune) /\ AfterPrune \in Following /\ retained' = retained
    BY <1>5 DEF RemoveTree, AfterPrune, Following
  <2>2. op' \in OpRow /\ RingOK(op'.undo.ring) /\ SameCommand /\ op'.at = "line" /\ op'.then = AfterPrune
    BY <2>1, RecordIs
  <2>3. QED
    BY <1>4, <2>1, <2>2
<1>6. CASE op.todo # {}
  <2>1. /\ retained' = retained \ {Max(op.todo)}
        /\ op' = [op EXCEPT !.todo = @ \ {Max(op.todo)}]
    BY <1>6 DEF RemoveTree
  <2>2. op.todo \subseteq 1..installed /\ \E m \in retained \ op.todo : seals[m] # 0
    BY <1>1, <1>6 DEF KeptInv, RemovalOK, Removing
  <2>3. Max(op.todo) \in op.todo
    <3>1. op.todo \in SUBSET Nat /\ installed \in Nat
      BY <1>2 DEF OpRow, TreesOK
    <3>2. \A x \in op.todo : x <= installed
      BY <2>2, <3>1
    <3>3. QED
      BY <1>6, <3>1, <3>2, MaxIsGreatest
  <2>4. /\ op' \in OpRow /\ op'.at = op.at /\ op'.then = op.then /\ op'.todo \subseteq op.todo
        /\ op'.do = op.do /\ op'.tree = op.tree /\ op'.was = op.was /\ op'.undo = op.undo
    BY ONLY <1>2, <2>1 DEF OpRow
  <2>5. RingOK(op'.undo.ring) /\ SameCommand
    BY <2>4 DEF FilesOK, SameCommand
  <2>6. QED
    BY <1>1, <1>4, <2>1, <2>2, <2>3, <2>4, <2>5
<1>7. QED
  BY <1>5, <1>6

LEMMA FinalKeeps ==
    ASSUME HistoryInv, Final, OthersStay PROVE HistoryInv'
<1>. USE DEF HistoryInv
<1>1. op.at = "final" /\ FilesStay /\ TreesStay /\ Record("idle") /\ "idle" \in Following
  BY DEF Final, OthersStay, FilesStay, TreesStay, trees, keyFiles, auditLog, offline, Following
<1>2. op.do = "deploy"
  BY <1>1 DEF KeptInv, PhaseOK
<1>3. op' \in OpRow /\ RingOK(op'.undo.ring) /\ SameCommand /\ op'.at = "line" /\ op'.then = "idle"
  BY <1>1, RecordIs
<1>4. FilesOK' /\ LogOK'
  BY <1>1, <1>2, <1>3, SameFiles DEF TreeCommands, Recovering, SameCommand
<1>5. TreesOK'
  BY <1>1, <1>3, SameTrees
<1>6. PhaseOK'
  BY <1>2, <1>3 DEF PhaseOK, SameCommand
<1>7. SwapOK'
  <2>1. /\ op.tree \in Trees \ retained /\ op.was # op.tree /\ target = op.tree
        /\ proven \ {op.tree} # {} => \E t \in retained : t # op.tree /\ Sound(t)
    BY <1>1, <1>2 DEF KeptInv, SwapOK
  <2>2. proven' \ {op'.tree} # {} => \E t \in retained' : t # op'.tree /\ Sound(t)'
    BY <1>1, <1>3, <2>1 DEF Sound, SameCommand, TreesStay
  <2>3. QED
    BY <1>1, <1>3, <2>1, <2>2 DEF SwapOK, MovingOut, SameCommand, TreesStay
<1>8. RemovalOK' /\ RotationOK'
  BY <1>2, <1>3 DEF RemovalOK, Removing, RotationOK, SameCommand
<1>9. QED
  BY <1>1, <1>4, <1>5, <1>6, <1>7, <1>8, SameTreeKept DEF KeptInv

LEMMA UndoDeployKeeps ==
    ASSUME HistoryInv, UndoDeploy, OthersStay PROVE HistoryInv'
<1>. USE DEF HistoryInv
<1>1. op.at = "raised" /\ op.do = "deploy" /\ FilesStay
  BY DEF UndoDeploy, RaisedIn, OthersStay, FilesStay, keyFiles, auditLog, offline
<1>2. /\ op.tree \in Trees \ retained /\ op.was # op.tree /\ target = op.tree
      /\ proven \ {op.tree} # {} => \E t \in retained : t # op.tree /\ Sound(t)
  BY <1>1 DEF KeptInv, SwapOK
<1>3. CASE op.then # "idle"
  <2>1. Goto("final") /\ TreesStay /\ "final" \in Steps
    BY <1>3 DEF UndoDeploy, TreesStay, trees, Steps, Following
  <2>2. op' \in OpRow /\ RingOK(op'.undo.ring) /\ SameCommand /\ op'.at = "final" /\ op'.then = op.then
    BY <2>1, GotoIs
  <2>3. FilesOK' /\ LogOK'
    BY <1>1, <2>2, SameFiles, NoCommit DEF TreeCommands, Recovering, SameCommand
  <2>4. TreesOK'
    BY <2>1, <2>2, SameTrees
  <2>5. PhaseOK'
    BY <1>1, <2>2 DEF KeptInv, PhaseOK, SameCommand
  <2>6. SwapOK'
    <3>1. proven' \ {op'.tree} # {} => \E t \in retained' : t # op'.tree /\ Sound(t)'
      BY <1>2, <2>1, <2>2 DEF Sound, SameCommand, TreesStay
    <3>2. QED
      BY <1>1, <1>2, <2>1, <2>2, <3>1 DEF KeptInv, PhaseOK, SwapOK, MovingOut, SameCommand, TreesStay
  <2>7. RemovalOK' /\ RotationOK'
    BY <1>1, <2>2 DEF RemovalOK, Removing, RotationOK, SameCommand
  <2>8. QED
    BY <2>1, <2>3, <2>4, <2>5, <2>6, <2>7, SameTreeKept DEF KeptInv
<1>4. CASE op.then = "idle"
  <2>1. /\ target' = (IF op.was \in retained THEN op.was ELSE NoTree) /\ retained' = retained \ {op.was}
        /\ proven' = proven \ {op.tree} /\ op' = Rest /\ UNCHANGED <<seals, installed>>
    BY <1>4 DEF UndoDeploy, Goto
  <2>2. TreesOK'
    <3>1. target' \in 0..installed
      <4>1. retained \subseteq 1..installed /\ installed \in Nat
        BY DEF TreesOK
      <4>2. CASE op.was \in retained
        <5>1. op.was \in 1..installed /\ installed' = installed /\ target' = op.was
          BY <2>1, <4>1, <4>2
        <5>2. QED
          BY ONLY <4>1, <5>1
      <4>3. CASE op.was \notin retained
        BY ONLY <2>1, <4>1, <4>3 DEF NoTree
      <4>4. QED
        BY <4>2, <4>3
    <3>2. retained' \subseteq 1..installed' /\ proven' \subseteq 1..installed'
      BY <2>1 DEF TreesOK
    <3>3. op'.was = 0 /\ op'.tree = 0
      BY <2>1, RestIs
    <3>4. QED
      BY <2>1, <3>1, <3>2, <3>3 DEF TreesOK
  <2>3. TreeKept'
    <3>1. ASSUME proven \ {op.tree} # {}
          PROVE  \E t \in (retained' \cup {target'}) \ {NoTree} : t \in proven' \/ seals'[t] # 0
      <4>1. PICK t \in retained : t # op.tree /\ Sound(t)
        BY <1>2, <3>1
      <4>2. t # NoTree
        BY <4>1 DEF TreesOK, NoTree
      <4>3. QED
        BY <2>1, <4>1, <4>2 DEF Sound
    <3>2. QED
      BY <2>1, <3>1 DEF TreeKept
  <2>4. QED
    BY <1>1, <2>1, <2>2, <2>3, SwapEnds DEF TreeCommands
<1>5. QED
  BY <1>3, <1>4

LEMMA GiveUpKeeps ==
    ASSUME HistoryInv, GiveUp, OthersStay PROVE HistoryInv'
<1>. USE DEF HistoryInv
<1>1. /\ op.do \in TreeCommands /\ FilesStay /\ TreesStay
      /\ op' = Rest \/ op' = [Rest EXCEPT !.do = "note", !.at = "line"]
  BY DEF GiveUp, OthersStay, FilesStay, TreesStay, trees, keyFiles, auditLog, offline, TreeCommands
<1>2. op'.tree = 0 /\ op'.was = 0
  <2>1. CASE op' = Rest
    BY <2>1, RestIs
  <2>2. CASE op' = [Rest EXCEPT !.do = "note", !.at = "line"]
    <3>1. op'.tree = Rest.tree /\ op'.was = Rest.was
      BY ONLY <2>2, RestIs DEF OpRow
    <3>2. QED
      BY <3>1, RestIs
  <2>3. QED
    BY <1>1, <2>1, <2>2
<1>3. TreesOK'
  BY <1>1, <1>2, SameTrees DEF TreesOK
<1>4. QED
  BY <1>1, <1>3, SameTreeKept, SwapEnds DEF KeptInv

-----------------------------------------------------------------------------
(* Faults. *)

LEMMA TearsLineIs ==
    ASSUME HistoryInv, TearsLine
    PROVE  /\ ring' \in RingRow /\ RingOK(ring') /\ minted' \in Nat
           /\ log' \in Seq(LineRow) /\ Auth(ring', Whole(log'))
<1>1. /\ Verifies(Loaded, log) /\ ring' = Loaded /\ log' = Append(log, Torn)
      /\ minted' = IF ring = NoRing THEN minted + 1 ELSE minted
  BY DEF TearsLine, Load
<1>2. Loaded \in RingRow /\ RingOK(Loaded) /\ minted \in Nat /\ log \in Seq(LineRow)
  BY LoadedIs DEF HistoryInv, FilesOK
<1>3. log' \in Seq(LineRow) /\ Whole(log') = log
  BY <1>1, <1>2, WholeIs
<1>4. QED
  BY <1>1, <1>2, <1>3, VerifiesIs

LEMMA KilledKeeps ==
    ASSUME HistoryInv, Killed PROVE HistoryInv'
<1>. USE DEF HistoryInv
<1>1. /\ op' = Rest /\ TreesStay /\ UNCHANGED <<lines, keyCopy, witness, pairCopy, journal, damaged>>
      /\ \/ /\ UNCHANGED <<ring, minted, log>>
            /\ cut' = (cut \/ (op.do = "restoreKey" /\ op.at \in {"installed", "raised"}))
         \/ TearsLine /\ UNCHANGED cut
  BY DEF Killed, TreesStay, trees, keyFiles, offline
<1>2. /\ ring' \in RingRow /\ RingOK(ring') /\ minted' \in Nat
      /\ log' \in Seq(LineRow) /\ cut' \in BOOLEAN
  BY <1>1, TearsLineIs DEF FilesOK
<1>3. FilesOK'
  BY <1>1, <1>2, RestIs DEF FilesOK
<1>4. ~damaged' /\ ~cut' /\ ~Pending' => Auth(ring', Whole(log'))
  <2>1. CASE TearsLine
    BY <2>1, TearsLineIs
  <2>2. CASE UNCHANGED <<ring, log>> /\ cut' = (cut \/ Trying)
    BY <1>1, <2>2 DEF LogOK, Pending
  <2>3. QED
    BY <1>1, <2>1, <2>2 DEF Trying
<1>5. LogOK'
  BY <1>1, <1>4, RestIs DEF LogOK, Recovering
<1>6. TreesOK' /\ KeptInv'
  BY <1>1, SameTrees, CommandEnds
<1>7. QED
  BY <1>3, <1>5, <1>6

LEMMA WriteFailsKeeps ==
    ASSUME HistoryInv, WriteFails PROVE HistoryInv'
<1>. USE DEF HistoryInv
<1>1. /\ op.at = "line" /\ Goto("raised") /\ "raised" \in Steps
      /\ TreesStay /\ UNCHANGED <<lines, keyCopy, witness, pairCopy, journal, damaged, cut>>
      /\ UNCHANGED <<ring, minted, log>> \/ TearsLine
  BY DEF WriteFails, TreesStay, trees, keyFiles, offline, Steps
<1>2. /\ op' \in OpRow /\ RingOK(op'.undo.ring) /\ SameCommand /\ op'.at = "raised" /\ op'.then = op.then
      /\ op'.todo = op.todo
  BY <1>1, GotoIs
<1>3. /\ ring' \in RingRow /\ RingOK(ring') /\ minted' \in Nat /\ log' \in Seq(LineRow)
      /\ UNCHANGED <<ring, log>> \/ Auth(ring', Whole(log'))
  BY <1>1, TearsLineIs DEF FilesOK
<1>4. FilesOK'
  BY <1>1, <1>2, <1>3 DEF FilesOK
<1>5. LogOK'
  BY <1>1, <1>2, <1>3 DEF LogOK, Pending, Trying, Recovering, SameCommand
<1>6. TreesOK' /\ KeptInv'
  BY <1>1, <1>2, SameTrees, LineGoesOn DEF FilesOK
<1>7. QED
  BY <1>4, <1>5, <1>6

LEMMA DamageKeeps ==
    ASSUME HistoryInv, Damage PROVE HistoryInv'
<1>. USE DEF HistoryInv
<1>1. /\ op = Rest /\ op' = Rest /\ log # <<>> /\ damaged' = TRUE
      /\ TreesStay /\ UNCHANGED <<minted, lines, keyCopy, witness, pairCopy, journal, cut>>
      /\ \/ log' \in {<<>>, Front(log)} /\ UNCHANGED ring
         \/ ring' = NoRing /\ UNCHANGED log
  BY DEF Damage, Idle, TreesStay, trees, offline
<1>2. Front(log) \in Seq(LineRow)
  <2>1. log \in Seq(LineRow) /\ Len(log) \in Nat /\ Front(log) = SubSeq(log, 1, Len(log) - 1)
    BY <1>1 DEF FilesOK, Front
  <2>2. \A i \in 1 .. Len(log) - 1 : log[i] \in LineRow
    BY <2>1
  <2>3. QED
    BY <2>1, <2>2, SubSeqProperties
<1>3. FilesOK'
  BY <1>1, <1>2, EmptyLog, RestIs DEF FilesOK
<1>4. LogOK'
  BY <1>1, RestIs DEF LogOK, Recovering
<1>5. TreesOK' /\ KeptInv'
  BY <1>1, SameTrees, CommandEnds
<1>6. QED
  BY <1>3, <1>4, <1>5

-----------------------------------------------------------------------------
LEMMA HistoryStarts == HistoryInit => HistoryInv
<1>. SUFFICES ASSUME HistoryInit PROVE HistoryInv
  OBVIOUS
<1>. USE DEF HistoryInit, DeploymentInit
<1>1. FilesOK
  BY EmptyLog, RestIs DEF FilesOK, PairRow, NotBundled, JournalRow, NoJournal
<1>2. TreesOK
  BY RestIs, HistoryAssumption DEF TreesOK, NoTree
<1>3. LogOK
  <2>1. Whole(log) = <<>>
    BY DEF Whole
  <2>2. QED
    BY <2>1, EmptyLog, RestIs DEF LogOK, Recovering
<1>4. KeptInv
  BY RestIs DEF KeptInv, TreeKept, PhaseOK, SwapOK, MovingOut, RemovalOK, Removing, RotationOK
<1>5. QED
  BY <1>1, <1>2, <1>3, <1>4 DEF HistoryInv

LEMMA HistoryRests ==
    ASSUME HistoryInv, UNCHANGED historyVars PROVE HistoryInv'
<1>. USE DEF HistoryInv
<1>1. FilesStay /\ TreesStay /\ UNCHANGED op
  BY DEF historyVars, deploymentVars, keyFiles, auditLog, trees, offline, faults, FilesStay, TreesStay
<1>2. FilesOK' /\ LogOK'
  BY <1>1 DEF FilesOK, LogOK, Pending, Trying, FilesStay
<1>3. TreesOK'
  BY <1>1 DEF TreesOK, TreesStay
<1>4. PhaseOK' /\ SwapOK' /\ RemovalOK' /\ RotationOK'
  BY <1>1 DEF KeptInv, PhaseOK, SwapOK, MovingOut, RemovalOK, Removing, RotationOK, Sound, FilesStay, TreesStay
<1>5. QED
  BY <1>1, <1>2, <1>3, <1>4, SameTreeKept DEF KeptInv

LEMMA OtherStepKeeps ==
    ASSUME HistoryInv, DeploymentStep, op.at # "mark", OthersStay PROVE HistoryInv'
BY WriteLineKeeps, LineRefusedKeeps, RotateKeeps, ResealKeeps, PlainCommandsKeep, RestoreKeyKeeps,
   CheckRestoredKeyKeeps, RollbackKeeps, DeployKeeps, MoveOutKeeps, MoveInKeeps, ActivationVerifiedKeeps,
   ActivationFailsKeeps, SealKeeps, PruneBeginsKeeps, RemoveTreeKeeps, FinalKeeps, UndoKeysKeeps,
   UndoDeployKeeps, GiveUpKeeps DEF DeploymentStep, WriteMark

\* A checkpoint is taken by WriteMark alone.
LEMMA OnlyMark ==
    ASSUME DeploymentStep, op.at = "mark" PROVE WriteMark
BY RestIs DEF DeploymentStep, WriteLine, LineRefused, Rotate, Reseal, BackupKey, RestoreKey, CheckRestoredKey,
   Adopt, Rollback, Deploy, MoveOut, MoveIn, ActivationVerified, ActivationFails, Seal, Prune, PruneBegins,
   RemoveTree, Final, UndoKeys, UndoDeploy, GiveUp, RaisedIn, Command, Idle

LEMMA DeploymentStepKeeps ==
    ASSUME HistoryInv, DeploymentStep, UNCHANGED <<offline, journal>>, Mends PROVE HistoryInv'
<1>1. CASE op.at = "mark"
  BY <1>1, OnlyMark, WriteMarkKeeps
<1>2. CASE op.at # "mark"
  BY <1>2, OtherStepKeeps DEF OthersStay, Mends
<1>3. QED
  BY <1>1, <1>2

LEMMA HistoryStep == HistoryInv /\ [HistoryNext]_historyVars => HistoryInv'
<1>. SUFFICES ASSUME HistoryInv, [HistoryNext]_historyVars PROVE HistoryInv'
  OBVIOUS
<1>1. CASE DeploymentStep /\ UNCHANGED <<offline, journal, deaths, damages>> /\ Mends
  BY <1>1, DeploymentStepKeeps
<1>2. CASE IssueWitness \/ UndoBundle
  BY <1>2, BundlesKeep
<1>3. CASE CreateBundle \/ Preflight \/ Restore
  BY <1>3, PlainCommandsKeep
<1>4. CASE RecoverCommitted \/ RecoveryRefused \/ NothingToRecover \/ ClearManifest \/ ClearJournal
           \/ MakeJournal \/ WriteManifest
  BY <1>4, RecoveryGoesKeeps
<1>5. CASE RecoverLog \/ RecoverKey \/ PutLog
  BY <1>5, RecoverFilesKeeps
<1>6. CASE Validate
  BY <1>6, ValidateKeeps
<1>7. CASE PutKey
  BY <1>7, PutKeyKeeps
<1>8. CASE Commit
  BY <1>8, CommitKeeps
<1>9. CASE UndoRestore
  BY <1>9, UndoRestoreKeeps
<1>10. CASE Killed
  BY <1>10, KilledKeeps
<1>11. CASE WriteFails
  BY <1>11, WriteFailsKeeps
<1>12. CASE Damage
  BY <1>12, DamageKeeps
<1>13. CASE UNCHANGED historyVars
  BY <1>13, HistoryRests
<1>14. QED
  BY <1>1, <1>2, <1>3, <1>4, <1>5, <1>6, <1>7, <1>8, <1>9, <1>10, <1>11, <1>12, <1>13 DEF HistoryNext

\* Whatever command dies or fails, and wherever, the keyring authenticates the
\* audit log, up to a line written in part, once no journal pends, for any number
\* of commands, trees and lines; the exceptions are those of HistoryVerifies.
THEOREM HistoryStaysVerified == HistorySpec => []HistoryVerifies
<1>1. HistoryInv => HistoryVerifies
  BY RestIs, VerifiesIs DEF HistoryInv, LogOK, HistoryVerifies, Idle, Trying
<1>2. QED
  BY <1>1, HistoryStarts, HistoryStep, PTL DEF HistorySpec

\* However deployments, rollbacks and prunings follow each other, fail or die: once
\* a tree was verified, one that was verified or sealed is there.
THEOREM TreesAreKept == HistorySpec => []TreeKept
<1>1. HistoryInv => TreeKept
  BY DEF HistoryInv, KeptInv
<1>2. QED
  BY <1>1, HistoryStarts, HistoryStep, PTL DEF HistorySpec
===============================================================================
