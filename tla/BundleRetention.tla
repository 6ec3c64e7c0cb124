---------------------------- MODULE BundleRetention ----------------------------
(***************************************************************************)
(* The RECOVERY_BACKUP job (app/services/job_dispatch.py): it writes a     *)
(* bundle into the project's recovery directory and prunes that            *)
(* (create_scheduled_recovery_bundle, prune_recovery_bundles), then copies *)
(* the bundle to the external directory, writes the SHA-256 sidecar and    *)
(* prunes there (mirror_recovery_bundle).  Scheduled, manual and API jobs  *)
(* have different dedupe keys, so several run side by side; a worker may   *)
(* die at any step, and what it left stays.                                *)
(*                                                                         *)
(* Each attempt names its bundle after the time, so a bundle is identified *)
(* with its attempt.  Both directories are pruned by modification time; an *)
(* order of names stands for it, oldest first, pruned names included.      *)
(***************************************************************************)
EXTENDS Integers, Sequences, FiniteSets

CONSTANTS
    MaxBackups,   \* bound: attempts of RECOVERY_BACKUP jobs
    Workers,      \* attempts that run at the same time
    Keep,         \* BACKUP_RETENTION_COUNT
    RemoteKeep,   \* EXTERNAL_BACKUP_RETENTION_COUNT
    MaxLosses     \* bound: workers that die

ASSUME RetentionAssumption ==
    /\ MaxBackups \in Nat /\ Workers \in Nat \ {0}
    /\ Keep \in Nat \ {0} /\ RemoteKeep \in Nat \ {0} /\ MaxLosses \in Nat

\* Numbered as they begin.
Attempts == 1..MaxBackups

VARIABLES
    backup,      \* how far each attempt is
    shelf,       \* bundles in the recovery directory
    shelfOrder,  \* by modification time
    whole,       \* bundles there that are completely written
    vault,       \* copies in the external directory
    vaultOrder,  \* by modification time
    sidecars,    \* copies that have a sidecar
    losses       \* workers that died so far

retentionVars == <<backup, shelf, shelfOrder, whole, vault, vaultOrder, sidecars, losses>>

Working == {"writing", "written", "pruned", "copying", "copied", "listed", "tidied"}
Running == {j \in Attempts : backup[j] \in Working}

Later(order, j, k) == \E i, m \in DOMAIN order : i < m /\ order[i] = j /\ order[m] = k

\* The n newest files of a directory.
Newest(files, order, n) ==
    {j \in files : Cardinality({k \in files : Later(order, j, k)}) < n}

Touched(order, j) == Append(SelectSeq(order, LAMBDA k : k # j), j)

\* A copy whose sidecar matches (copy_verified, resolve_stored_recovery_bundle).
Verified == vault \cap sidecars

-----------------------------------------------------------------------------
(* create_scheduled_recovery_bundle *)

\* The archive is opened in place, under its final name.
OpenArchive(j) ==
    /\ backup[j] = "new" /\ \A k \in 1..(j - 1) : backup[k] # "new"
    /\ Cardinality(Running) < Workers
    /\ backup' = [backup EXCEPT ![j] = "writing"]
    /\ shelf' = shelf \cup {j}
    /\ shelfOrder' = Touched(shelfOrder, j)
    /\ UNCHANGED <<whole, vault, vaultOrder, sidecars, losses>>

\* The last write; or the archive cannot be read back (sha256_file of a bundle
\* that another attempt has pruned).
CloseArchive(j) ==
    /\ backup[j] = "writing"
    /\ backup' = [backup EXCEPT ![j] = IF j \in shelf THEN "written" ELSE "failed"]
    /\ shelfOrder' = Touched(shelfOrder, j)
    /\ whole' = whole \cup {j}
    /\ UNCHANGED <<shelf, vault, vaultOrder, sidecars, losses>>

\* prune_recovery_bundles: the files another attempt is writing count too.
PruneShelf(j) ==
    /\ backup[j] = "written"
    /\ backup' = [backup EXCEPT ![j] = "pruned"]
    /\ shelf' = Newest(shelf, shelfOrder, Keep)
    /\ UNCHANGED <<shelfOrder, whole, vault, vaultOrder, sidecars, losses>>

-----------------------------------------------------------------------------
(* mirror_recovery_bundle *)

\* The bundle may have been pruned by now; otherwise it is open from here on.
OpenSource(j) ==
    /\ backup[j] = "pruned"
    /\ backup' = [backup EXCEPT ![j] = IF j \in shelf THEN "copying" ELSE "failed"]
    /\ UNCHANGED <<shelf, shelfOrder, whole, vault, vaultOrder, sidecars, losses>>

\* The temporary copy is checked and renamed, to a name that is new there.
PlaceCopy(j) ==
    /\ backup[j] = "copying"
    /\ backup' = [backup EXCEPT ![j] = "copied"]
    /\ vault' = vault \cup {j}
    /\ vaultOrder' = Append(vaultOrder, j)
    /\ UNCHANGED <<shelf, shelfOrder, whole, sidecars, losses>>

\* The sidecar is renamed into place, even if another attempt has pruned the copy.
PlaceSidecar(j) ==
    /\ backup[j] = "copied"
    /\ backup' = [backup EXCEPT ![j] = "listed"]
    /\ sidecars' = sidecars \cup {j}
    /\ UNCHANGED <<shelf, shelfOrder, whole, vault, vaultOrder, losses>>

\* (Operators named ..._M are slips this code could contain.  No definition
\* uses them; they show which property would notice.)
PruneVaultOne_M(j) ==
    /\ backup[j] = "listed"
    /\ backup' = [backup EXCEPT ![j] = "tidied"]
    /\ vault' = Newest(vault, vaultOrder, 1)
    /\ sidecars' = sidecars \ (vault \ vault')
    /\ UNCHANGED <<shelf, shelfOrder, whole, vaultOrder, losses>>

\* Copies without a sidecar count too.
PruneVault(j) ==
    /\ backup[j] = "listed"
    /\ backup' = [backup EXCEPT ![j] = "tidied"]
    /\ vault' = Newest(vault, vaultOrder, RemoteKeep)
    /\ sidecars' = sidecars \ (vault \ vault')
    /\ UNCHANGED <<shelf, shelfOrder, whole, vaultOrder, losses>>

\* destination.stat of the result.
Report(j) ==
    /\ backup[j] = "tidied"
    /\ backup' = [backup EXCEPT ![j] = IF j \in vault THEN "done" ELSE "failed"]
    /\ UNCHANGED <<shelf, shelfOrder, whole, vault, vaultOrder, sidecars, losses>>

\* The worker dies; temporary copies have names nothing looks for.
Lose(j) ==
    /\ j \in Running /\ losses < MaxLosses
    /\ losses' = losses + 1
    /\ backup' = [backup EXCEPT ![j] = "lost"]
    /\ UNCHANGED <<shelf, shelfOrder, whole, vault, vaultOrder, sidecars>>

-----------------------------------------------------------------------------
BackupStep(j) ==
    \/ OpenArchive(j) \/ CloseArchive(j) \/ PruneShelf(j)
    \/ OpenSource(j) \/ PlaceCopy(j) \/ PlaceSidecar(j) \/ PruneVault(j) \/ Report(j)

RetentionInit ==
    /\ backup = [j \in Attempts |-> "new"]
    /\ shelf = {} /\ shelfOrder = <<>> /\ whole = {}
    /\ vault = {} /\ vaultOrder = <<>> /\ sidecars = {} /\ losses = 0

RetentionNext == \E j \in Attempts : BackupStep(j) \/ Lose(j)

RetentionSpec == RetentionInit /\ [][RetentionNext]_retentionVars

-----------------------------------------------------------------------------
(* Properties. *)

\* mirror_recovery_bundle, docs/44: once a job reported a protected backup there
\* is a verified external copy at least as recent as its own, provided that the
\* retention exceeds the unverified copies there can be: those of the other
\* workers and those that lost workers left.
ProtectedStays ==
    RemoteKeep >= Workers + MaxLosses =>
        \A j \in Attempts : backup[j] = "done" =>
            \E k \in Verified : k = j \/ Later(vaultOrder, j, k)

=============================================================================
