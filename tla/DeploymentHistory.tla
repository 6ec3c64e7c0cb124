-------------------------- MODULE DeploymentHistory --------------------------
(***************************************************************************)
(* The history of a signed offline installation (scripts/                  *)
(* offline_deployment_history.py, _audit.py, _keyring.py, _activation.py   *)
(* and the end of _bootstrap.py).  Beside the deployed tree there are      *)
(*   - the trees it replaced, each with a seal under the history key;      *)
(*   - the audit log, a chain of lines authenticated with history keys;    *)
(*   - the keyring: the current key, the retired ones, and a checkpoint of *)
(*     the log.                                                            *)
(* Every command holds the deployment lock, so one runs at a time; it      *)
(* changes one file after the other and may die in between, which frees    *)
(* the lock (HistoryRecovery).  Keys and lines are numbered as they are    *)
(* made; a seal is its key, the hash of a line is the log up to it.        *)
(***************************************************************************)
EXTENDS Integers, SequencesExt, FiniteSetsExt

CONSTANTS
    MaxTrees,  \* bound: deployments installed, numbered by installed_at
    Retain,    \* --retain-previous
    MaxLines,  \* MAX_AUDIT_EVENTS
    MaxOps     \* bound: commands that write

ASSUME HistoryAssumption ==
    /\ MaxTrees \in Nat \ {0} /\ Retain \in Nat \ {0}
    /\ MaxLines \in Nat /\ MaxOps \in Nat

Trees == 1..MaxTrees
NoTree == 0

VARIABLES
    ring,       \* the keyring file; without keys: missing
    minted,     \* keys made so far
    log,        \* lines of the audit log
    lines,      \* lines written so far
    target,     \* the tree at the deployment target
    retained,   \* trees renamed to .previous-*
    proven,     \* history: trees that were verified, and not by a deployment undone since
    seals,      \* key of the seal file in each tree; 0: none
    installed,  \* trees installed so far
    keyCopy,    \* the latest backup of the keyring
    op,         \* the command that runs
    ops         \* commands begun so far

keyFiles == <<ring, minted>>
auditLog == <<log, lines>>
trees == <<target, retained, proven, seals, installed>>
deploymentVars == <<keyFiles, auditLog, trees, keyCopy, op, ops>>

NoRing == [keys |-> {}, current |-> 0, mark |-> <<>>]
NoUndo == [ring |-> NoRing, log |-> <<>>, seals |-> <<>>]

\* do: the command; at: its next step; then: the step after a line; tree: the
\* tree it activates or adopts; was: the one it replaces; todo: trees still to
\* reseal or remove; undo: what it puts back on an error.
Rest == [do |-> "nothing", at |-> "idle", then |-> "idle", tree |-> NoTree,
         was |-> NoTree, todo |-> {}, undo |-> NoUndo]

Idle == op = Rest

Command(command) == Idle /\ ops < MaxOps /\ ops' = ops + 1 /\ op' = command
Goto(step) == op' = IF step = "idle" THEN Rest ELSE [op EXCEPT !.at = step]
Record(next) == op' = [op EXCEPT !.at = "line", !.then = next]

\* _verify_lines: each line under a key of the ring, the checkpoint a prefix.
Verifies(r, l) ==
    /\ Len(l) <= MaxLines
    /\ \A i \in DOMAIN l : l[i].key \in r.keys
    /\ IsPrefix(r.mark, l)

\* load_history_keyring(create=True): a missing keyring becomes a new one.
Loaded == IF ring # NoRing THEN ring
          ELSE [keys |-> {minted + 1}, current |-> minted + 1, mark |-> <<>>]
Load == ring' = Loaded /\ minted' = IF ring = NoRing THEN minted + 1 ELSE minted

\* verify_retained_deployment: a seal counts under the current key only.
Sealed == {t \in retained : seals[t] # 0}
SealsVerify(r) == \A t \in Sealed : seals[t] = r.current
Managed == {t \in Sealed : seals[t] = ring.current}

Now == [ring |-> ring, log |-> log, seals |-> seals]

-----------------------------------------------------------------------------
(* append_deployment_audit_event. *)

Line == [n |-> lines + 1, key |-> Loaded.current]

\* (Operators named ..._M are slips this code could contain.  No definition
\* uses them; they show which property would notice.)
MarkBeforeLine_M ==
    /\ op.at = "line" /\ Verifies(Loaded, log)
    /\ ring' = [Loaded EXCEPT !.mark = Append(log, Line)]
    /\ minted' = IF ring = NoRing THEN minted + 1 ELSE minted
    /\ lines' = lines + 1
    /\ Goto("mark")
    /\ UNCHANGED <<log, trees, keyCopy, ops>>

WriteLine ==
    /\ op.at = "line" /\ Verifies(Loaded, log)
    /\ Load
    /\ log' = Append(log, Line)
    /\ lines' = lines + 1
    /\ Goto("mark")
    /\ UNCHANGED <<trees, keyCopy, ops>>

LineRefused ==
    /\ op.at = "line" /\ ~Verifies(Loaded, log)
    /\ Load
    /\ Goto("raised")
    /\ UNCHANGED <<auditLog, trees, keyCopy, ops>>

\* The checkpoint follows the line.  A line beyond the limit is refused after it
\* was written.
WriteMark ==
    /\ op.at = "mark"
    /\ IF Verifies(ring, log) THEN ring' = [ring EXCEPT !.mark = log] /\ Goto(op.then)
       ELSE UNCHANGED ring /\ Goto("raised")
    /\ UNCHANGED <<minted, auditLog, trees, keyCopy, ops>>

-----------------------------------------------------------------------------
(* rotate_deployment_history_key, backup and restore of the keyring, adopt. *)

Rotate ==
    /\ Command([Rest EXCEPT !.do = "rotate", !.at = "reseal", !.todo = Managed, !.undo = Now])
    /\ ring' = [Loaded EXCEPT !.keys = @ \cup {minted + 2}, !.current = minted + 2]
    /\ minted' = minted + 2
    /\ UNCHANGED <<auditLog, trees, keyCopy>>

Reseal ==
    /\ op.at = "reseal"
    /\ IF op.todo = {} THEN Record("idle") /\ UNCHANGED seals
       ELSE \E t \in op.todo : /\ seals' = [seals EXCEPT ![t] = ring.current]
                               /\ op' = [op EXCEPT !.todo = @ \ {t}]
    /\ UNCHANGED <<keyFiles, auditLog, target, retained, proven, installed, keyCopy, ops>>

BackupKey ==
    /\ ring # NoRing
    /\ Command([Rest EXCEPT !.do = "backupKey", !.at = "line"])
    /\ keyCopy' = ring
    /\ UNCHANGED <<keyFiles, auditLog, trees>>

RestoreKey ==
    /\ keyCopy # NoRing
    /\ Command([Rest EXCEPT !.do = "restoreKey", !.at = "installed", !.undo = Now])
    /\ ring' = keyCopy
    /\ UNCHANGED <<minted, auditLog, trees, keyCopy>>

CheckRestoredKey ==
    /\ op.at = "installed"
    /\ IF SealsVerify(ring) /\ Verifies(ring, log) THEN Record("idle") ELSE Goto("raised")
    /\ UNCHANGED <<keyFiles, auditLog, trees, keyCopy, ops>>

\* An existing seal is never overwritten.
Adopt(t) ==
    /\ t \in retained /\ seals[t] = 0
    /\ Command([Rest EXCEPT !.do = "adopt", !.at = "line", !.then = "seal", !.tree = t])
    /\ UNCHANGED <<keyFiles, auditLog, trees, keyCopy>>

-----------------------------------------------------------------------------
(* deploy_release_kit and rollback_to_retained_deployment. *)

Deploy ==
    /\ installed < MaxTrees
    /\ Command([Rest EXCEPT !.do = "deploy", !.at = "out", !.tree = installed + 1, !.was = target])
    /\ installed' = installed + 1
    /\ UNCHANGED <<keyFiles, auditLog, target, retained, proven, seals, keyCopy>>

Rollback(t) ==
    /\ t \in Managed
    /\ Command([Rest EXCEPT !.do = "rollback", !.at = "line", !.then = "out", !.tree = t, !.was = target])
    /\ UNCHANGED <<keyFiles, auditLog, trees, keyCopy>>

\* activate_staged_directory: two renames.
MoveOut ==
    /\ op.at = "out"
    /\ target' = NoTree
    /\ retained' = retained \cup ({op.was} \ {NoTree})
    /\ Goto("in")
    /\ UNCHANGED <<keyFiles, auditLog, proven, seals, installed, keyCopy, ops>>

MoveIn ==
    /\ op.at = "in"
    /\ target' = op.tree
    /\ retained' = retained \ {op.tree}
    /\ Goto("check")
    /\ UNCHANGED <<keyFiles, auditLog, proven, seals, installed, keyCopy, ops>>

ActivationVerified ==
    /\ op.at = "check"
    /\ proven' = proven \cup {op.tree}
    /\ Goto("seal")
    /\ UNCHANGED <<keyFiles, auditLog, target, retained, seals, installed, keyCopy, ops>>

\* The wrong one of the trees is taken away.
SwapBackWrong_M ==
    /\ op.do \in {"deploy", "rollback"}
    /\ op.at = "check" \/ (op.at = "seal" /\ op.was # NoTree)
    /\ target' = op.tree
    /\ retained' = retained \ {op.was}
    /\ proven' = IF op.do = "rollback" THEN proven ELSE proven \ {op.tree}
    /\ op' = IF op.do = "rollback" THEN [Rest EXCEPT !.do = "note", !.at = "line"] ELSE Rest
    /\ UNCHANGED <<keyFiles, auditLog, seals, installed, keyCopy, ops>>

\* A failed verification or seal swaps the trees back.
ActivationFails ==
    /\ op.do \in {"deploy", "rollback"}
    /\ op.at = "check" \/ (op.at = "seal" /\ op.was # NoTree)
    /\ target' = op.was
    /\ retained' = (retained \ {op.was}) \cup (IF op.do = "rollback" THEN {op.tree} ELSE {})
    /\ proven' = IF op.do = "rollback" THEN proven ELSE proven \ {op.tree}
    /\ op' = IF op.do = "rollback" THEN [Rest EXCEPT !.do = "note", !.at = "line"] ELSE Rest
    /\ UNCHANGED <<keyFiles, auditLog, seals, installed, keyCopy, ops>>

\* seal_retained_deployment of the replaced or adopted tree.
Seal ==
    /\ op.at = "seal"
    /\ LET t == IF op.do = "adopt" THEN op.tree ELSE op.was
       IN IF t = NoTree THEN UNCHANGED <<keyFiles, seals>>
          ELSE Load /\ seals' = [seals EXCEPT ![t] = Loaded.current]
    /\ CASE op.do = "deploy"   -> Goto("prune")
         [] op.do = "rollback" -> Record("prune")
         [] op.do = "adopt"    -> Record("idle")
    /\ UNCHANGED <<auditLog, target, retained, proven, installed, keyCopy, ops>>

-----------------------------------------------------------------------------
(* prune_retained_deployments, a command of its own and the end of both. *)

Prune ==
    /\ Command([Rest EXCEPT !.do = "prune", !.at = "prune"])
    /\ UNCHANGED <<keyFiles, auditLog, trees, keyCopy>>

AfterPrune == IF op.do = "deploy" THEN "final" ELSE "idle"

\* The managed trees beyond the newest ones, by installation.
Excess == {t \in Managed : Cardinality({u \in Managed : u > t}) >= Retain}

PruneBegins ==
    /\ op.at = "prune"
    /\ IF Excess = {} THEN Goto(AfterPrune)
       ELSE op' = [op EXCEPT !.at = "line", !.then = "remove", !.todo = Excess]
    /\ UNCHANGED <<keyFiles, auditLog, trees, keyCopy, ops>>

RemoveTree ==
    /\ op.at = "remove"
    /\ IF op.todo = {} THEN Record(AfterPrune) /\ UNCHANGED retained
       ELSE /\ retained' = retained \ {Max(op.todo)}
            /\ op' = [op EXCEPT !.todo = @ \ {Max(op.todo)}]
    /\ UNCHANGED <<keyFiles, auditLog, target, proven, seals, installed, keyCopy, ops>>

\* The line "deployment_activated", after the pruning.
Final ==
    /\ op.at = "final"
    /\ Record("idle")
    /\ UNCHANGED <<keyFiles, auditLog, trees, keyCopy, ops>>

-----------------------------------------------------------------------------
(* A line could not be written. *)

RaisedIn(command) == op.at = "raised" /\ op.do = command

\* Rotation and restored keyring are undone.
UndoKeys ==
    /\ RaisedIn("rotate") \/ RaisedIn("restoreKey")
    /\ ring' = op.undo.ring /\ log' = op.undo.log
    /\ seals' = IF op.do = "rotate" THEN op.undo.seals ELSE seals
    /\ Goto("idle")
    /\ UNCHANGED <<minted, lines, target, retained, proven, installed, keyCopy, ops>>

\* rollback_activated_directory: the replaced tree comes back, if it was not
\* pruned; a failed pruning alone is only reported.
UndoDeploy ==
    /\ RaisedIn("deploy")
    /\ IF op.then # "idle" THEN Goto("final") /\ UNCHANGED trees
       ELSE /\ target' = IF op.was \in retained THEN op.was ELSE NoTree
            /\ retained' = retained \ {op.was}
            /\ proven' = proven \ {op.tree}
            /\ Goto("idle")
            /\ UNCHANGED <<seals, installed>>
    /\ UNCHANGED <<keyFiles, auditLog, keyCopy, ops>>

\* rollback_failed is noted if possible.
GiveUp ==
    /\ op.at = "raised" /\ op.do \in {"backupKey", "adopt", "prune", "rollback", "note"}
    /\ op' = IF op.do = "rollback" /\ op.then = "prune"
             THEN [Rest EXCEPT !.do = "note", !.at = "line"] ELSE Rest
    /\ UNCHANGED <<keyFiles, auditLog, trees, keyCopy, ops>>

-----------------------------------------------------------------------------
DeploymentStep ==
    \/ WriteLine \/ LineRefused \/ WriteMark
    \/ Rotate \/ Reseal \/ BackupKey \/ RestoreKey \/ CheckRestoredKey
    \/ \E t \in Trees : Adopt(t) \/ Rollback(t)
    \/ Deploy \/ MoveOut \/ MoveIn \/ ActivationVerified \/ ActivationFails \/ Seal
    \/ Prune \/ PruneBegins \/ RemoveTree \/ Final
    \/ UndoKeys \/ UndoDeploy \/ GiveUp

DeploymentInit ==
    /\ ring = NoRing /\ minted = 0 /\ log = <<>> /\ lines = 0
    /\ target = NoTree /\ retained = {} /\ proven = {} /\ seals = [t \in Trees |-> 0] /\ installed = 0
    /\ keyCopy = NoRing /\ op = Rest /\ ops = 0
=============================================================================
