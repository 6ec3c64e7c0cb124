--------------------------- MODULE HistoryRecovery ---------------------------
(***************************************************************************)
(* Recovery of the deployment history (scripts/                            *)
(* offline_deployment_recovery.py, _witness.py, _preflight.py): receipts   *)
(* of the audit log kept by an external witness, bundles of keyring and    *)
(* log, and their restore, which replaces the two files one after the      *)
(* other beside a journal of the previous pair.  Whatever command dies,    *)
(* the next one, or the preflight of the next start, finds what it left.   *)
(* The storage may damage either file.                                     *)
(***************************************************************************)
EXTENDS DeploymentHistory

CONSTANTS
    MaxAborts,  \* bound: commands that die
    MaxDamages   \* bound: damage by the storage

ASSUME RecoveryBoundsAssumption == MaxAborts \in Nat /\ MaxDamages \in Nat

VARIABLES
    witness,  \* the log of the latest receipt
    pairCopy, \* the latest bundle
    journal,  \* the rollback transaction directory
    deaths,   \* commands that died
    damages,  \* damage by the storage
    damaged,  \* history: the storage damaged a file, and no command ended well since
    cut       \* history: a restore of the keyring died before its check, and no
              \* command ended well since

offline == <<witness, pairCopy>>
faults == <<deaths, damages, damaged, cut>>
historyVars == <<deploymentVars, offline, journal, faults>>

NotBundled == [ring |-> NoRing, log |-> <<>>, witness |-> <<>>]

\* "made": without a manifest yet; "bare": without one any more.
NoJournal == [at |-> "none", ring |-> NoRing, log |-> <<>>]
Pending == journal.at # "none"

\* A line written in part; the log without it.
Torn == [n |-> 0, key |-> 0]
Whole(l) == IF l # <<>> /\ Last(l) = Torn THEN Front(l) ELSE l

-----------------------------------------------------------------------------
(* issue_witness_receipt, create_history_recovery_bundle. *)

IssueWitness ==
    /\ Idle /\ ring # NoRing /\ Verifies(ring, log)
    /\ witness' = log
    /\ UNCHANGED <<deploymentVars, pairCopy, journal, faults>>

\* The snapshot is written before the line about it.
CreateBundle ==
    /\ ring # NoRing /\ Verifies(ring, log) /\ IsPrefix(witness, log)
    /\ Command([Rest EXCEPT !.do = "bundle", !.at = "line"])
    /\ pairCopy' = [ring |-> ring, log |-> log, witness |-> witness]
    /\ UNCHANGED <<keyFiles, auditLog, trees, keyCopy, witness, journal, faults>>

\* A bundle without a line is removed.
UndoBundle ==
    /\ RaisedIn("bundle")
    /\ pairCopy' = NotBundled
    /\ Goto("idle")
    /\ UNCHANGED <<keyFiles, auditLog, trees, keyCopy, ops, witness, journal, faults>>

-----------------------------------------------------------------------------
(* _recover_interrupted_transaction: by the preflight, recover-interrupted   *)
(* and at the start of a restore.                                            *)

Preflight ==
    /\ Pending
    /\ Command([Rest EXCEPT !.do = "recover", !.at = "recover"])
    /\ UNCHANGED <<keyFiles, auditLog, trees, keyCopy, offline, journal, faults>>

AfterRecovery == IF op.do = "restore" THEN "validate" ELSE "idle"

RecoveryStep == UNCHANGED <<minted, lines, trees, keyCopy, ops, offline, faults>>

\* What recovery requires of the pair that is to stay.
PairStands(r, l) == IF r = NoRing THEN l = <<>> ELSE Verifies(r, l) /\ SealsVerify(r)

RecoverCommitted ==
    /\ op.at = "recover" /\ journal.at = "committed"
    /\ Goto(IF Verifies(ring, log) /\ SealsVerify(ring) THEN "clear" ELSE "idle")
    /\ UNCHANGED <<ring, log, journal>> /\ RecoveryStep

RecoverLog ==
    /\ op.at = "recover" /\ journal.at = "prepared"
    /\ log' = journal.log
    /\ Goto("key")
    /\ UNCHANGED <<ring, journal>> /\ RecoveryStep

\* Verified before the journal is removed.
RecoverKey ==
    /\ op.at = "key"
    /\ ring' = journal.ring
    /\ Goto(IF PairStands(journal.ring, log) THEN "clear" ELSE "idle")
    /\ UNCHANGED <<log, journal>> /\ RecoveryStep

\* A journal without a manifest is refused.
RecoveryRefused ==
    /\ op.at = "recover" /\ journal.at \in {"made", "bare"}
    /\ Goto("idle")
    /\ UNCHANGED <<ring, log, journal>> /\ RecoveryStep

NothingToRecover ==
    /\ op.at = "recover" /\ ~Pending
    /\ Goto(AfterRecovery)
    /\ UNCHANGED <<ring, log, journal>> /\ RecoveryStep

\* rmtree, after which a restore goes on.
ClearManifest ==
    /\ op.at = "clear"
    /\ journal' = [journal EXCEPT !.at = "bare"]
    /\ Goto("cleared")
    /\ UNCHANGED <<ring, log>> /\ RecoveryStep

ClearJournal ==
    /\ op.at = "cleared"
    /\ journal' = NoJournal
    /\ Goto(IF op.then = "commit" THEN "idle" ELSE AfterRecovery)
    /\ UNCHANGED <<ring, log>> /\ RecoveryStep

-----------------------------------------------------------------------------
(* restore_history_recovery_bundle *)

Restore ==
    /\ pairCopy # NotBundled
    /\ Command([Rest EXCEPT !.do = "restore", !.at = "recover"])
    /\ UNCHANGED <<keyFiles, auditLog, trees, keyCopy, offline, journal, faults>>

\* _validate_candidate, and the comparison with a current log that verifies.
Restorable ==
    /\ Verifies(pairCopy.ring, pairCopy.log) /\ SealsVerify(pairCopy.ring)
    /\ IsPrefix(pairCopy.witness, pairCopy.log) /\ IsPrefix(witness, pairCopy.log)
    /\ Verifies(ring, log) => \/ Len(log) < Len(pairCopy.log)
                              \/ log = pairCopy.log

Validate ==
    /\ op.at = "validate"
    /\ IF Restorable THEN op' = [op EXCEPT !.at = "mkdir", !.undo = Now] ELSE Goto("idle")
    /\ UNCHANGED <<ring, log, journal>> /\ RecoveryStep

MakeJournal ==
    /\ op.at = "mkdir"
    /\ journal' = [at |-> "made", ring |-> ring, log |-> log]
    /\ Goto("manifest")
    /\ UNCHANGED <<ring, log>> /\ RecoveryStep

WriteManifest ==
    /\ op.at = "manifest"
    /\ journal' = [journal EXCEPT !.at = "prepared"]
    /\ Goto("putLog")
    /\ UNCHANGED <<ring, log>> /\ RecoveryStep

PutLog ==
    /\ op.at = "putLog"
    /\ log' = pairCopy.log
    /\ Goto("putKey")
    /\ UNCHANGED <<ring, journal>> /\ RecoveryStep

PutKey ==
    /\ op.at = "putKey"
    /\ ring' = pairCopy.ring
    /\ IF Verifies(pairCopy.ring, log) /\ IsPrefix(witness, log) /\ SealsVerify(pairCopy.ring)
       THEN Record("commit") ELSE Goto("raised")
    /\ UNCHANGED <<log, journal>> /\ RecoveryStep

Commit ==
    /\ op.at = "commit"
    /\ journal' = [journal EXCEPT !.at = "committed"]
    /\ damaged' = FALSE /\ cut' = FALSE
    /\ Goto("clear")
    /\ UNCHANGED <<keyFiles, auditLog, trees, keyCopy, ops, offline, deaths, damages>>

\* The previous pair comes back; the journal goes unless that pair is broken.
UndoRestore ==
    /\ RaisedIn("restore")
    /\ log' = op.undo.log /\ ring' = op.undo.ring
    /\ journal' = IF ring' # NoRing /\ ~Verifies(ring', log') THEN journal ELSE NoJournal
    /\ Goto("idle")
    /\ RecoveryStep

-----------------------------------------------------------------------------
(* Faults. *)

\* A line is begun, after the log was verified, and breaks off.
TearsLine ==
    /\ op.at = "line" /\ Verifies(Loaded, log)
    /\ Load
    /\ log' = Append(log, Torn)

\* A command dies.  Between the installation of a keyring and its check there
\* is no journal.
Killed ==
    /\ ~Idle /\ deaths < MaxAborts
    /\ deaths' = deaths + 1
    /\ op' = Rest
    /\ \/ /\ UNCHANGED <<keyFiles, log>>
          /\ cut' = (cut \/ (op.do = "restoreKey" /\ op.at \in {"installed", "raised"}))
       \/ TearsLine /\ UNCHANGED cut
    /\ UNCHANGED <<lines, trees, keyCopy, ops, offline, journal, damages, damaged>>

\* A line cannot be written, or only in part: the disk is full.
WriteFails ==
    /\ op.at = "line" /\ deaths < MaxAborts
    /\ deaths' = deaths + 1
    /\ Goto("raised")
    /\ UNCHANGED <<keyFiles, log>> \/ TearsLine
    /\ UNCHANGED <<lines, trees, keyCopy, ops, offline, journal, damages, damaged, cut>>

\* The storage loses the end of the log, the log, or the keyring.
Damage ==
    /\ Idle /\ damages < MaxDamages /\ log # <<>>
    /\ damages' = damages + 1
    /\ damaged' = TRUE
    /\ \/ log' \in {<<>>, Front(log)} /\ UNCHANGED ring
       \/ ring' = NoRing /\ UNCHANGED log
    /\ UNCHANGED <<minted, lines, trees, keyCopy, op, ops, offline, journal, deaths, cut>>

-----------------------------------------------------------------------------
HistoryInit ==
    /\ DeploymentInit
    /\ witness = <<>> /\ pairCopy = NotBundled /\ journal = NoJournal
    /\ deaths = 0 /\ damages = 0 /\ damaged = FALSE /\ cut = FALSE

\* A command that ends after its checkpoint found the files to verify.
Mends == IF op.at = "mark" /\ op' = Rest THEN damaged' = FALSE /\ cut' = FALSE
         ELSE UNCHANGED <<damaged, cut>>

HistoryNext ==
    \/ DeploymentStep /\ UNCHANGED <<offline, journal, deaths, damages>> /\ Mends
    \/ IssueWitness \/ CreateBundle \/ UndoBundle
    \/ Preflight \/ RecoverCommitted \/ RecoverLog \/ RecoverKey
    \/ RecoveryRefused \/ NothingToRecover \/ ClearManifest \/ ClearJournal
    \/ Restore \/ Validate \/ MakeJournal \/ WriteManifest
    \/ PutLog \/ PutKey \/ Commit \/ UndoRestore
    \/ Killed \/ WriteFails \/ Damage

HistorySpec == HistoryInit /\ [][HistoryNext]_historyVars

-----------------------------------------------------------------------------
(* Properties. *)

\* Between two commands, with no journal pending, the keyring authenticates the
\* audit log up to a last line that was written in part, whatever command died
\* or failed, and wherever.  Three cases are excepted: a log that has outgrown
\* MAX_AUDIT_EVENTS; files the storage damaged; and restore_deployment_history_
\* keyring (offline_deployment_history.py:493), which installs a backup before it
\* checks it and keeps no journal: killed in between it leaves a keyring that
\* nobody checked.  The last two end when a later command ends well.
HistoryVerifies ==
    Idle /\ ~Pending /\ ~damaged /\ ~cut /\ Len(Whole(log)) <= MaxLines
        => Verifies(ring, Whole(log))

\* prune_retained_deployments, rollback_activated_directory: once a tree was
\* verified there is one, at the target or retained, that was verified or else
\* sealed (a killed deployment leaves a tree that was never verified, and the
\* next one seals it), however deployments, rollbacks and prunings follow each
\* other, fail or die.
TreeKept ==
    proven # {} =>
        \E t \in (retained \cup {target}) \ {NoTree} : t \in proven \/ seals[t] # 0

\* docs/101_OFFLINE_DEPLOYMENT_HISTORY_RECOVERY.md: an interrupted restore is
\* recovered on the next attempt (once its journal is written).
InterruptedRecovers ==
    Idle /\ journal.at = "prepared" => PairStands(journal.ring, journal.log)
=============================================================================
