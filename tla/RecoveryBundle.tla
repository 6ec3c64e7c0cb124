----------------------------- MODULE RecoveryBundle -----------------------------
(***************************************************************************)
(* Recovery bundles (app/services/recovery.py) over the evidence store: a  *)
(* bundle is made from a snapshot of the database and, later, from the     *)
(* live rows and files; a restore moves the evidence directory aside, puts *)
(* the bundle's in its place, replaces the database (restore_database of   *)
(* app/services/database_lifecycle.py) and undoes what it did when that    *)
(* fails.  A process may die between any two steps, and nothing tidies up  *)
(* after it but the next start-up's check.                                 *)
(*                                                                         *)
(* A restore holds the restore lease, so there is one at a time and the    *)
(* write requests stay out (module RestoreBarrier); an export holds        *)
(* nothing.  The latest bundle stands for those that could be restored.    *)
(***************************************************************************)
EXTENDS EvidenceStore

CONSTANTS
    MaxBundles,    \* bound: bundles that are begun
    MaxRestores    \* bound: restores that begin

ASSUME BundleAssumption == MaxBundles \in Nat /\ MaxRestores \in Nat

VARIABLES
    bundle,      \* the latest bundle that was completed
    making,      \* the bundle being made
    restoring,   \* the restore under way
    strays,      \* files in .pre-restore directories that were left behind
    bundles,     \* bundles begun so far
    restores     \* restores so far

bundleVars == <<bundle, making, restoring, strays, bundles, restores>>
recoveryVars == <<storeVars, bundleVars>>

EmptyRows == [e \in Evidence |-> NoRow]

\* A bundle: the database in it, and the evidence manifest with the custody
\* figures recorded in it.  ready: a completed bundle exists.
BundleRow == [ready : BOOLEAN, rows : [Evidence -> Row],
              manifest : [Evidence -> Row], chain : [Evidence -> 0..MaxSeq]]
NoBundle == [ready |-> FALSE, rows |-> EmptyRows,
             manifest |-> EmptyRows, chain |-> [e \in Evidence |-> 0]]

NotMaking == [at |-> "idle", by |-> NoProc, draft |-> NoBundle]

Stages == {"idle", "move", "place", "backup", "swap", "verify", "undo", "clear", "return"}

\* previous: the directory moved aside; safety: the safety backup.
NotRestoring == [at |-> "idle", by |-> NoProc, from |-> NoBundle,
                 previous |-> [there |-> FALSE, files |-> {}],
                 safety |-> EmptyRows]

\* _validate_evidence_bundle: rows, manifest and custody figures agree.
Valid(b) ==
    /\ b.manifest = b.rows
    /\ \A e \in Evidence : b.chain[e] = b.rows[e].seq

\* Shape of the state, with the restore's hold on the barrier.
BundleTypeOK ==
    /\ StoreTypeOK
    /\ bundle \in BundleRow
    /\ making \in [at : {"idle", "rows", "files"}, by : Procs \cup {NoProc}, draft : BundleRow]
    /\ restoring \in [at : Stages, by : Procs \cup {NoProc}, from : BundleRow,
                      previous : [there : BOOLEAN, files : SUBSET Evidence],
                      safety : [Evidence -> Row]]
    /\ strays \subseteq used /\ bundles \in 0..MaxBundles /\ restores \in 0..MaxRestores
    /\ barrier <=> restoring.at # "idle"
    /\ restoring.at # "idle" => restoring.by \in Procs /\ mode[restoring.by] # "DOWN"

-----------------------------------------------------------------------------
(* create_recovery_bundle, by the backup job or an export. *)

\* backup_database
Snapshot(p) ==
    /\ mode[p] # "DOWN" /\ making.at = "idle" /\ bundles < MaxBundles
    /\ bundles' = bundles + 1
    /\ making' = [at |-> "rows", by |-> p,
                  draft |-> [NoBundle EXCEPT !.rows = artifact]]
    /\ UNCHANGED <<storeVars, bundle, restoring, strays, restores>>

\* _evidence_rows, of the live database.
ReadManifest ==
    /\ making.at = "rows"
    /\ making' = [making EXCEPT !.at = "files", !.draft.manifest = artifact]
    /\ UNCHANGED <<storeVars, bundle, restoring, strays, bundles, restores>>

\* _prepare_evidence_files: every file is copied and its chain verified in the
\* live database; a missing file ends the attempt.  Then the archive is written.
Publish ==
    /\ making.at = "files"
    /\ making' = NotMaking
    /\ bundle' = IF Registered(making.draft.manifest) \subseteq folder.files
                 THEN [making.draft EXCEPT !.ready = TRUE, !.chain = [e \in Evidence |->
                          IF making.draft.manifest[e].status = "NONE" THEN 0 ELSE artifact[e].seq]]
                 ELSE bundle
    /\ UNCHANGED <<storeVars, restoring, strays, bundles, restores>>

-----------------------------------------------------------------------------
(* restore_recovery_bundle *)

\* What a restore does that leaves the store's threads alone.
Advance(stage) ==
    /\ restoring' = [restoring EXCEPT !.at = stage]
    /\ UNCHANGED <<used, upload, check, mode, barrier, crashes, doubt, bundle, making, strays, bundles, restores>>

\* The lease is free, no write request is under way, and the bundle is valid.
Begin(p) ==
    /\ mode[p] # "DOWN" /\ ~barrier /\ restores < MaxRestores
    /\ \A r \in Procs : upload[r] = NoEvidence /\ ~(Checking(r) /\ mode[r] # "DOWN")
    /\ bundle.ready /\ Valid(bundle)
    /\ restores' = restores + 1
    /\ barrier' = TRUE
    /\ doubt' = [r \in Procs |-> doubt[r] \/ Checking(r)]
    /\ restoring' = [NotRestoring EXCEPT !.at = "move", !.by = p, !.from = bundle]
    /\ UNCHANGED <<artifact, folder, used, upload, check, mode, crashes, bundle, making, strays, bundles>>

\* (Operators named ..._M are slips this code could contain.  No definition
\* uses them; they show which property would notice.)
RemoveInstead_M ==
    /\ restoring.at = "move"
    /\ restoring' = [restoring EXCEPT !.at = "place"]
    /\ folder' = [there |-> FALSE, files |-> {}]
    /\ UNCHANGED <<artifact, used, upload, check, mode, barrier, crashes, doubt,
                   bundle, making, strays, bundles, restores>>

\* os.replace(evidence_root, previous_dir), if there is one.
MoveAside ==
    /\ restoring.at = "move"
    /\ restoring' = [restoring EXCEPT !.at = "place", !.previous = folder]
    /\ folder' = [there |-> FALSE, files |-> {}]
    /\ UNCHANGED <<artifact, used, upload, check, mode, barrier, crashes, doubt,
                   bundle, making, strays, bundles, restores>>

\* os.replace(staged_dir, evidence_root)
Place ==
    /\ restoring.at = "place"
    /\ folder' = [there |-> TRUE, files |-> Registered(restoring.from.manifest)]
    /\ UNCHANGED artifact
    /\ Advance("backup")

\* That rename fails, as it does from one file system to another.  It is outside
\* the try, so the restore ends with the evidence moved aside.
PlaceFails ==
    /\ restoring.at = "place" /\ restoring.from.manifest # EmptyRows
    /\ restoring' = NotRestoring /\ barrier' = FALSE
    /\ strays' = strays \cup restoring.previous.files
    /\ doubt' = [r \in Procs |-> TRUE]
    /\ UNCHANGED <<artifact, folder, used, upload, check, mode, crashes, bundle, making, bundles, restores>>

\* restore_database begins: the safety backup of the live database.
BackUp ==
    /\ restoring.at = "backup"
    /\ restoring' = [restoring EXCEPT !.at = "swap",
                                      !.safety = artifact]
    /\ UNCHANGED <<storeVars, bundle, making, strays, bundles, restores>>

\* The backup API replaces the live database in one transaction.
Swap ==
    /\ restoring.at = "swap"
    /\ artifact' = restoring.from.rows
    /\ restoring' = [restoring EXCEPT !.at = "verify"]
    /\ UNCHANGED <<folder, used, upload, check, mode, barrier, crashes, doubt, bundle, making, strays, bundles, restores>>

\* Any of these raises: before the backup nothing of the database is undone.
Fail ==
    /\ restoring.at \in {"backup", "swap", "verify"}
    /\ Advance(IF restoring.at = "backup" THEN "clear" ELSE "undo")
    /\ UNCHANGED <<artifact, folder>>

\* The rollback from the safety backup.
Undo ==
    /\ restoring.at = "undo"
    /\ artifact' = restoring.safety
    /\ restoring' = [restoring EXCEPT !.at = "clear"]
    /\ UNCHANGED <<folder, used, upload, check, mode, barrier, crashes, doubt, bundle, making, strays, bundles, restores>>

\* rmtree(evidence_root)
Clear ==
    /\ restoring.at = "clear"
    /\ folder' = [there |-> FALSE, files |-> {}]
    /\ UNCHANGED artifact
    /\ Advance("return")

\* os.replace(previous_dir, evidence_root), if one was moved aside.
Return ==
    /\ restoring.at = "return"
    /\ folder' = restoring.previous
    /\ restoring' = NotRestoring /\ barrier' = FALSE
    /\ UNCHANGED <<artifact, used, upload, check, mode, crashes, doubt, bundle, making, strays, bundles, restores>>

\* init_db, the audit chain and the audit event; then rmtree(previous_dir), and
\* the lease is released.
Finish ==
    /\ restoring.at = "verify"
    /\ restoring' = NotRestoring /\ barrier' = FALSE
    /\ UNCHANGED <<artifact, folder, used, upload, check, mode, crashes, doubt, bundle, making, strays, bundles, restores>>

RestoreStep ==
    \/ MoveAside \/ Place \/ PlaceFails \/ BackUp \/ Swap \/ Fail
    \/ Undo \/ Clear \/ Return \/ Finish

-----------------------------------------------------------------------------
\* A process dies with what it was doing: a directory it had moved aside stays
\* where it is, and its lease lapses.
Crash(p) ==
    LET mine == restoring.by = p IN
    /\ Die(p, mine)
    /\ making' = IF making.by = p THEN NotMaking ELSE making
    /\ restoring' = IF mine THEN NotRestoring ELSE restoring
    /\ barrier' = (barrier /\ ~mine)
    /\ strays' = IF mine THEN strays \cup restoring.previous.files ELSE strays
    /\ UNCHANGED <<folder, bundle, bundles, restores>>

RecoveryInit ==
    /\ StoreInit
    /\ bundle = NoBundle /\ making = NotMaking /\ restoring = NotRestoring
    /\ strays = {} /\ bundles = 0 /\ restores = 0

RecoveryNext ==
    \/ \E p \in Procs :
        \/ StoreStep(p) /\ UNCHANGED bundleVars
        \/ Snapshot(p) \/ Begin(p) \/ Crash(p)
    \/ ReadManifest \/ Publish
    \/ RestoreStep

RecoverySpec == RecoveryInit /\ [][RecoveryNext]_recoveryVars

-----------------------------------------------------------------------------
(* Properties. *)

\* restore_recovery_bundle: at every step, however a restore fails or its
\* process dies, the file of each registered evidence is still on disk, in the
\* evidence directory or in one that was moved aside.
EvidenceKept ==
    Registered(artifact) \subseteq folder.files \cup restoring.previous.files \cup strays

\* restore_recovery_bundle, docs/44: a restore that succeeds leaves exactly the
\* bundle's evidence, files and rows, whatever state it found the store in.
RestoreRepairs ==
    [][ Finish =>
            /\ Consistent(artifact', folder')
            /\ Registered(artifact') = Registered(restoring.from.rows)]_recoveryVars

\* docs/44_RECOVERY_DRILLS_AND_EXTERNAL_BACKUPS.md:10, create_recovery_bundle:
\* a bundle is validated while it is made, so a completed one can be restored.
CompletedIsValid == bundle.ready => Valid(bundle)
=============================================================================
