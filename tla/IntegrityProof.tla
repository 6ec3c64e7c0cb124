----------------------------- MODULE IntegrityProof -----------------------------
(***************************************************************************)
(* Reading the audit chain while it is written: verify_audit_integrity     *)
(* (app/repositories/audit.py), which reads head, rows and checkpoints in  *)
(* three statements on a connection without a transaction, and an          *)
(* integrity proof (app/services/integrity_proof_bundle.py), which         *)
(* verifies, appends a checkpoint and reads all of it once more.  Accepts  *)
(* is the check of a proof by whoever receives it                          *)
(* (app/services/integrity_proof_verifier.py); the signatures and the      *)
(* documents on keys, witnesses and mirrors are not modelled.              *)
(*                                                                         *)
(* Readers do not meet, so there is one.                                   *)
(***************************************************************************)
EXTENDS AuditChain

VARIABLES reader

proofVars == <<auditVars, reader>>

\* seen: head and rows as read.  point: the checkpoint of the proof.  disturbed
\* (history): an event was written since the first of the reads that must agree.
Asleep ==
    [at |-> "asleep", forProof |-> FALSE, head |-> Origin, rows |-> {}, point |-> 0,
     points |-> {}, disturbed |-> FALSE]

EventOf(rows, n) == CHOOSE e \in rows : e.seq = n

\* The rows, in order, are the chain from one hash to another: numbered without
\* a gap, each linked to the one before, each with the hash of its content.
Linked(rows, h) ==
    LET first == h.anchorSeq + 1
        last  == h.anchorSeq + Cardinality(rows)
        row(n) == EventOf(rows, n)
    IN  /\ {e.seq : e \in rows} = first..last
        /\ \A n \in first..last :
              /\ row(n).prev = (IF n = first THEN h.anchorHash ELSE row(n - 1).hash)
              /\ row(n).hash = Digest(row(n).prev, row(n).at)
        /\ last = h.lastSeq
        /\ h.lastHash = (IF rows = {} THEN h.anchorHash ELSE row(last).hash)

\* The checkpoints of retained rows, and of the anchor, have their hashes.
PointsAgree(points, rows, h) ==
    \A c \in points :
        IF c.seq = h.anchorSeq THEN c.hash = h.anchorHash
        ELSE \A e \in rows : e.seq = c.seq => e.hash = c.hash

Coherent(r) == Linked(r.rows, r.head) /\ PointsAgree(r.points, r.rows, r.head)

\* The checkpoint need not be the head's.
Accepts_M(r) ==
    /\ Linked(r.rows, r.head)
    /\ \E c \in r.points : c.seq = r.point

\* The check of a proof: its rows are a chain that ends with its head, and its
\* checkpoint is of that head.
Accepts(r) ==
    /\ Linked(r.rows, r.head)
    /\ \E c \in r.points : c.seq = r.point /\ c.seq = r.head.lastSeq /\ c.hash = r.head.lastHash

Quiet == UNCHANGED auditVars

ReadHead ==
    /\ reader.at = "asleep" /\ Quiet
    /\ \E p \in BOOLEAN :
          reader' = [Asleep EXCEPT !.at = "head", !.head = head, !.forProof = p]

ReadEvents ==
    /\ reader.at = "head" /\ Quiet
    /\ reader' = [reader EXCEPT !.at = "rows", !.rows = events]

ReadCheckpoints ==
    /\ reader.at = "rows" /\ Quiet
    /\ reader' = [reader EXCEPT !.at = "verdict", !.points = checkpoints]

\* A report is shown; a proof of an invalid chain is refused, and otherwise a
\* checkpoint of the head is written first.
ShowReport ==
    /\ reader.at = "verdict" /\ Quiet
    /\ ~reader.forProof \/ ~Coherent(reader)
    /\ reader' = Asleep

MakeCheckpoint ==
    /\ reader.at = "verdict" /\ reader.forProof /\ Coherent(reader)
    /\ CreateCheckpoint /\ UNCHANGED upkeep
    /\ reader' = [Asleep EXCEPT !.at = "checkpoint", !.point = head.lastSeq]

ProofHead ==
    /\ reader.at = "checkpoint" /\ Quiet
    /\ reader' = [reader EXCEPT !.at = "proof head", !.head = head]

ProofRows ==
    /\ reader.at = "proof head" /\ Quiet
    /\ reader' = [reader EXCEPT !.at = "proof rows", !.rows = events]

\* Checkpoints, prunings and archives are read, and the file is signed and
\* registered.
Issue ==
    /\ reader.at = "proof rows" /\ Quiet
    /\ reader' = [reader EXCEPT !.at = "issued", !.points = checkpoints]

Forget == reader.at = "issued" /\ Quiet /\ reader' = Asleep

\* The reads that must agree are under way.
Watching == reader.at \in {"head", "checkpoint", "proof head"}

Write ==
    /\ AuditNext
    /\ reader' = [reader EXCEPT !.disturbed = @ \/ (Watching /\ head'.lastSeq # head.lastSeq)]

ProofInit == AuditInit /\ reader = Asleep

ProofNext ==
    \/ Write
    \/ ReadHead \/ ReadEvents \/ ReadCheckpoints \/ ShowReport
    \/ MakeCheckpoint \/ ProofHead \/ ProofRows \/ Issue \/ Forget

ProofSpec == ProofInit /\ [][ProofNext]_proofVars

-----------------------------------------------------------------------------
\* A chain is reported broken, and a signed proof refused by its verifier, exactly
\* when an event was written while it was read; so what is accepted is the chain
\* of one moment, and an alarm is false.
AlarmIsOverlap ==
    /\ reader.at = "verdict" => (Coherent(reader) <=> ~reader.disturbed)
    /\ reader.at = "issued" => (Accepts(reader) <=> ~reader.disturbed)
=============================================================================
