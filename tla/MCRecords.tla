------------------------------- MODULE MCRecords -------------------------------
(***************************************************************************)
(* What is kept to come back to, and to be believed, for TLC: how a bundle *)
(* of a project is made and restored (RecoveryBundle), which bundles are   *)
(* kept (BundleRetention), the history of an installation                  *)
(* (HistoryRecovery), the audit chain with its readers (IntegrityProof)    *)
(* and what a proof says of its keys (ProofTransparency), the ledger of    *)
(* accepted responses (AcceptanceLedger) with the copies of its            *)
(* checkpoints (CheckpointTransfer), and the journal of a publication      *)
(* (Publication).  In the model they share nothing, so a behaviour is      *)
(* about one of them, chosen at the start; the others stay in their        *)
(* initial states.  That is also why one pair of model values can stand    *)
(* for the processes of each of them, and another for their data.          *)
(***************************************************************************)
EXTENDS RecoveryBundle, BundleRetention, HistoryRecovery, IntegrityProof,
        ProofTransparency, AcceptanceLedger, CheckpointTransfer, Publication, TLC

CONSTANTS e1, e2, p1, p2

VARIABLE about

applicationVars == <<recoveryVars, retentionVars, historyVars, proofVars, transparencyVars>>
scriptVars == <<ledgerVars, transferVars, publicationVars>>
recordsVars == <<about, applicationVars, scriptVars>>

RecordsInit ==
    /\ about \in {"a bundle", "the directory", "an installation", "the audit chain",
                  "the keys", "acceptances", "a transfer", "a publication"}
    /\ RecoveryInit /\ RetentionInit /\ HistoryInit /\ ProofInit /\ TransparencyInit
    /\ LedgerInit /\ TransferInit /\ PublicationInit
    /\ about # "a publication" => worktree = 0 /\ passing = {}

\* Every attempt, or every command within the bound, is over; a ledger that
\* lost a receipt to a command that was under way never verifies again.
AllEnded ==
    /\ \/ about = "the directory" /\ \A j \in Attempts : backup[j] \notin Working \cup {"new"}
       \/ about = "an installation" /\ Idle /\ ops = MaxOps
       \/ about = "acceptances" /\ (written = MaxReceipts \/ ~LedgerVerifies)
       \/ about = "a publication" /\ pc = "idle"
    /\ UNCHANGED recordsVars

ApplicationNext ==
    \/ about = "a bundle" /\ RecoveryNext
       /\ UNCHANGED <<retentionVars, historyVars, proofVars, transparencyVars>>
    \/ about = "the directory" /\ RetentionNext
       /\ UNCHANGED <<recoveryVars, historyVars, proofVars, transparencyVars>>
    \/ about = "an installation" /\ HistoryNext
       /\ UNCHANGED <<recoveryVars, retentionVars, proofVars, transparencyVars>>
    \/ about = "the audit chain" /\ ProofNext
       /\ UNCHANGED <<recoveryVars, retentionVars, historyVars, transparencyVars>>
    \/ about = "the keys" /\ TransparencyNext
       /\ UNCHANGED <<recoveryVars, retentionVars, historyVars, proofVars>>

ScriptNext ==
    \/ about = "acceptances" /\ LedgerNext
       /\ UNCHANGED <<transferVars, publicationVars>>
    \/ about = "a transfer" /\ TransferNext
       /\ UNCHANGED <<ledgerVars, publicationVars>>
    \/ about = "a publication" /\ PublicationNext
       /\ UNCHANGED <<ledgerVars, transferVars>>

RecordsNext ==
    \/ ApplicationNext /\ UNCHANGED <<about, scriptVars>>
    \/ ScriptNext /\ UNCHANGED <<about, applicationVars>>
    \/ AllEnded

RecordsSpec == RecordsInit /\ [][RecordsNext]_recordsVars

Symmetric == Permutations({e1, e2}) \cup Permutations({p1, p2})
=============================================================================
