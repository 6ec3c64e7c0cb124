----------------------------- MODULE EvidenceStore -----------------------------
(***************************************************************************)
(* The evidence of one project (app/services/evidence.py): the rows of     *)
(* verification_evidence_artifacts with the length of each custody chain,  *)
(* the directory with the files, and the read-only mode that every process *)
(* derives from comparing the two (app/services/project_runtime.py,        *)
(* project_startup.py, recovery_mode.py).  Threads of several processes    *)
(* upload, hand over, scan, download and retire evidence while others      *)
(* check it; a process may die at any step.                                *)
(*                                                                         *)
(* A file is named after its evidence and never rewritten, so files are    *)
(* identified with evidence.  Every change of a row appends one custody    *)
(* event, so the custody sequence number stands for the version of the     *)
(* row.  Whether the verification request is still pending, which uploads  *)
(* and retirements ask for, is left open.                                  *)
(***************************************************************************)
EXTENDS Naturals, FiniteSets

CONSTANTS
    Evidence,     \* evidence ids, each given out once
    Procs,        \* processes that serve the project
    MaxSeq,       \* bound: custody events of one evidence
    MaxCrashes,   \* bound: processes that die
    NoEvidence,   \* what a process without an upload is uploading
    NoProc        \* whose check or restore there is none

ASSUME EvidenceAssumption ==
    /\ IsFiniteSet(Evidence) /\ NoEvidence \notin Evidence /\ NoProc \notin Procs
    /\ MaxSeq \in Nat \ {0} /\ MaxCrashes \in Nat

VARIABLES
    artifact,   \* rows: status and custody_last_seq of each evidence
    folder,     \* EVIDENCE_DIR: whether it exists, and its files
    used,       \* evidence ids given out
    upload,     \* per process: the evidence whose file is written and row is not
    check,      \* the integrity check under way, and whose it is
    mode,       \* per process: the project's mode ("DOWN": not serving)
    barrier,    \* whether a restore holds its lease
    crashes,    \* processes that died so far
    doubt       \* history: whether since the process's check began somebody
                \* died at work, a file was left behind, or a restore ran beside it

storeVars == <<artifact, folder, used, upload, check, mode, barrier, crashes, doubt>>

Row == [status : {"NONE", "ACTIVE", "RETIRED"}, seq : 0..MaxSeq]
NoRow == [status |-> "NONE", seq |-> 0]

Registered(rows) == {e \in Evidence : rows[e].status # "NONE"}

\* What verify_evidence_store asks for: each row has its file, each file a row.
Consistent(rows, dir) == Registered(rows) = dir.files

NoCheck == [at |-> "idle", by |-> NoProc, view |-> [e \in Evidence |-> NoRow], bad |-> FALSE]
Checking(p) == check.by = p

\* Shape of the state, with what its parts keep: a missing directory is empty,
\* a row has an event, and only a serving process holds an upload.
StoreTypeOK ==
    /\ artifact \in [Evidence -> Row]
    /\ folder \in [there : BOOLEAN, files : SUBSET Evidence]
    /\ ~folder.there => folder.files = {}
    /\ used \subseteq Evidence /\ Registered(artifact) \subseteq used
    /\ \A e \in Evidence : artifact[e].status = "NONE" <=> artifact[e].seq = 0
    /\ upload \in [Procs -> Evidence \cup {NoEvidence}]
    /\ check \in [at : {"idle", "files", "custody"}, by : Procs \cup {NoProc},
                  view : [Evidence -> Row], bad : BOOLEAN]
    /\ mode \in [Procs -> {"DOWN", "HEALTHY", "READ_ONLY"}]
    /\ \A p \in Procs : upload[p] # NoEvidence => mode[p] # "DOWN" /\ upload[p] \in used
    /\ barrier \in BOOLEAN /\ crashes \in 0..MaxCrashes /\ doubt \in [Procs -> BOOLEAN]

\* Ordinary write requests: refused in read-only mode and while a restore runs.
MayWrite(p) == mode[p] = "HEALTHY" /\ ~barrier

-----------------------------------------------------------------------------
(* store_verification_evidence: the file first, then the row. *)

\* The file is written beside the directory's others
\* and renamed, creating the directory if need be (_atomic_write).  A temporary
\* file is as unexpected as one without a row, so the two are one.
WriteFile(p, e) ==
    /\ MayWrite(p) /\ upload[p] = NoEvidence
    /\ e \notin used
    /\ used' = used \cup {e}
    /\ folder' = [there |-> TRUE, files |-> folder.files \cup {e}]
    /\ upload' = [upload EXCEPT ![p] = e]
    /\ UNCHANGED <<artifact, check, mode, barrier, crashes, doubt>>

\* (Operators named ..._M are slips this code could contain.  No definition
\* uses them; they show which property would notice.)
CommitRowKeepsFile_M(p) ==
    LET e == upload[p] IN
    /\ e # NoEvidence
    /\ upload' = [upload EXCEPT ![p] = NoEvidence]
    /\ \/ artifact' = [artifact EXCEPT ![e] = [status |-> "ACTIVE", seq |-> 1]]
       \/ UNCHANGED artifact
    /\ UNCHANGED <<folder, used, check, mode, barrier, crashes, doubt>>

\* The row with its ACQUIRED event; or the request was decided in between, or
\* the transaction fails, and the file is unlinked.
CommitRow(p) ==
    LET e == upload[p] IN
    /\ e # NoEvidence
    /\ upload' = [upload EXCEPT ![p] = NoEvidence]
    /\ \/ /\ artifact' = [artifact EXCEPT ![e] = [status |-> "ACTIVE", seq |-> 1]]
          /\ UNCHANGED folder
       \/ /\ folder' = [folder EXCEPT !.files = @ \ {e}]
          /\ UNCHANGED artifact
    /\ UNCHANGED <<used, check, mode, barrier, crashes, doubt>>

-----------------------------------------------------------------------------
(* Single transactions on a row, each with one custody event. *)

Appended(e, status) ==
    /\ artifact[e].seq < MaxSeq
    /\ artifact' = [artifact EXCEPT ![e] = [status |-> status, seq |-> @.seq + 1]]
    /\ UNCHANGED <<folder, used, upload, check, mode, barrier, crashes, doubt>>

\* transfer_evidence_custody, waive_evidence_scan: of active evidence.
HandOver(p, e) == MayWrite(p) /\ artifact[e].status = "ACTIVE" /\ Appended(e, "ACTIVE")

\* record_evidence_scan_result: of any evidence, found by scan_evidence_artifact.
Scanned(p, e) == MayWrite(p) /\ artifact[e].status # "NONE" /\ Appended(e, artifact[e].status)

\* record_evidence_access: a GET request, so neither the mode nor a restore
\* stands in its way; the file is looked at first.
Download(p, e) ==
    /\ mode[p] # "DOWN" /\ artifact[e].status = "ACTIVE" /\ e \in folder.files
    /\ Appended(e, "ACTIVE")

\* retire_evidence_artifact: the file stays.
Retire(p, e) ==
    /\ MayWrite(p) /\ artifact[e].status = "ACTIVE"
    /\ Appended(e, "RETIRED")

-----------------------------------------------------------------------------
(* inspect_project_integrity: at start-up, before requests are served, or on *)
(* an administrator's request.                                               *)

\* _list_evidence_integrity_artifacts
ReadRows(p) ==
    /\ check.at = "idle"
    /\ mode[p] # "DOWN" => ~barrier
    /\ check' = [at |-> "files", by |-> p, view |-> artifact, bad |-> FALSE]
    /\ doubt' = [doubt EXCEPT ![p] = barrier]
    /\ UNCHANGED <<artifact, folder, used, upload, mode, barrier, crashes>>

\* verify_evidence_artifact of each row read, then every name in the directory.
ListFiles(p) ==
    /\ check.at = "files" /\ Checking(p)
    /\ check' = [check EXCEPT !.at = "custody", !.bad = ~Consistent(check.view, folder)]
    /\ UNCHANGED <<artifact, folder, used, upload, mode, barrier, crashes, doubt>>

\* _verify_all_evidence_custody_chains: the events by now against the rows read.
Faulty == check.bad \/ \E e \in Registered(check.view) : artifact[e].seq # check.view[e].seq

\* build_recovery_mode, _record_mode; a project found healthy at start-up gets
\* its directory.
RecordMode(p) ==
    /\ check.at = "custody" /\ Checking(p)
    /\ mode' = [mode EXCEPT ![p] = IF Faulty THEN "READ_ONLY" ELSE "HEALTHY"]
    /\ folder' = IF mode[p] = "DOWN" /\ ~Faulty THEN [folder EXCEPT !.there = TRUE] ELSE folder
    /\ check' = NoCheck
    /\ UNCHANGED <<artifact, used, upload, barrier, crashes, doubt>>

-----------------------------------------------------------------------------
\* The process dies.  It leaves the file of an upload without a row.
Die(p, harmed) ==
    /\ mode[p] # "DOWN" /\ crashes < MaxCrashes
    /\ crashes' = crashes + 1
    /\ mode' = [mode EXCEPT ![p] = "DOWN"]
    /\ upload' = [upload EXCEPT ![p] = NoEvidence]
    /\ check' = IF Checking(p) THEN NoCheck ELSE check
    /\ doubt' = IF harmed \/ upload[p] # NoEvidence THEN [r \in Procs |-> TRUE] ELSE doubt
    /\ UNCHANGED <<artifact, used>>

StoreInit ==
    /\ artifact = [e \in Evidence |-> NoRow]
    /\ folder = [there |-> FALSE, files |-> {}]
    /\ used = {}
    /\ upload = [p \in Procs |-> NoEvidence]
    /\ check = NoCheck
    /\ mode = [p \in Procs |-> "DOWN"]
    /\ barrier = FALSE /\ crashes = 0 /\ doubt = [p \in Procs |-> FALSE]

StoreStep(p) ==
    \/ CommitRow(p)
    \/ ReadRows(p) \/ ListFiles(p) \/ RecordMode(p)
    \/ \E e \in Evidence :
        \/ WriteFile(p, e) \/ HandOver(p, e) \/ Scanned(p, e) \/ Download(p, e) \/ Retire(p, e)

-----------------------------------------------------------------------------
(* Properties. *)

\* verify_evidence_store with the start-up gate: whenever nothing is under way,
\* a process whose last check found the project healthy, and since whose check
\* nobody died at work, has exactly the files of its rows.
HealthyIsConsistent ==
    \A p \in Procs :
        /\ mode[p] = "HEALTHY" /\ ~doubt[p] /\ ~Checking(p)
        /\ ~barrier /\ \A r \in Procs : upload[r] = NoEvidence
        => Consistent(artifact, folder)
=============================================================================
