--------------------------- MODULE AcceptanceLedger ---------------------------
(***************************************************************************)
(* The requester's ledger of accepted responses and the series of its      *)
(* checkpoints (scripts/external_validation_acceptance.py).  Both are      *)
(* directories of numbered files, each file naming the one before it by    *)
(* its hash; a file is written under a temporary name in the same          *)
(* directory and published by a hard link, which fails if the number is    *)
(* taken.  Commands run beside each other and may be killed, and storage   *)
(* may be put back to an older state.                                      *)
(*                                                                         *)
(* A receipt's id stands for the hash of its file.                         *)
(***************************************************************************)
EXTENDS Naturals, Sequences, FiniteSets, FiniteSetsExt, SequencesExt

CONSTANTS
    Acceptors,          \* accept-response commands
    Checkpointers,      \* append-checkpoint-series commands
    ExternalRequests,
    MaxReceipts,        \* bound: receipts ever written
    MaxRollbacks        \* bound: times the ledger is put back

ASSUME LedgerAssumption ==
    MaxReceipts \in Nat /\ MaxRollbacks \in Nat /\ Acceptors \cap Checkpointers = {}

VARIABLES
    receipts,       \* the published files, by number
    series,         \* the checkpoints, by generation
    litter,         \* the directories that hold a temporary file nobody removes
    command,        \* what each command is doing
    written,        \* receipts ever written
    confirmed,      \* acceptances reported to the caller
    lost,           \* ids of receipts a rollback took away
    rollbacks

ledgerVars == <<receipts, series, litter, command, written, confirmed, lost, rollbacks>>

Resting == [at |-> "idle"]

LedgerInit ==
    /\ receipts = <<>> /\ series = <<>> /\ litter = {}
    /\ command = [c \in Acceptors \cup Checkpointers |-> Resting]
    /\ written = 0 /\ confirmed = {} /\ lost = {} /\ rollbacks = 0

Becomes(c, r) == command' = [command EXCEPT ![c] = r]

\* A temporary file, of a running command or left behind, is an unexpected
\* file to every verification.
Cluttered(dir) ==
    \/ dir \in litter
    \/ \E c \in Acceptors \cup Checkpointers :
          command[c].at \in {"temporary", "linked"} /\ command[c].dir = dir

\* The hash of the file before number n.
PreviousId(files, n) == IF n = 1 THEN 0 ELSE files[n - 1].id

ChainHolds(files) ==
    /\ DOMAIN files = 1..Cardinality(DOMAIN files)
    /\ \A n \in DOMAIN files : files[n].previous = PreviousId(files, n)

SeriesVerifies == ~Cluttered("checkpoints")

\* The ledger contains the receipt the last checkpoint was taken at.
ReachesFloor ==
    series # <<>> =>
        LET floor == Last(series)
        IN floor.count \in DOMAIN receipts /\ receipts[floor.count].id = floor.head

LedgerVerifies ==
    /\ ~Cluttered("receipts")
    /\ ChainHolds(receipts)
    /\ \A m, n \in DOMAIN receipts : receipts[m].request = receipts[n].request => m = n

\* Mutant: the receipts are not compared with the last checkpoint.
LedgerAgrees_M(guarded) ==
    /\ LedgerVerifies
    /\ guarded => SeriesVerifies /\ series # <<>>

\* The ledger is verified against the series when the caller names it, and
\* a series without a checkpoint is refused.
LedgerAgrees(guarded) ==
    /\ LedgerVerifies
    /\ guarded => SeriesVerifies /\ series # <<>> /\ ReachesFloor

(* ------------------------------ acceptance ------------------------------ *)

\* A request that was accepted is refused whatever the response: the same
\* one is a replay, another one an equivocation.
AcceptResponse(a, request, guarded) ==
    /\ command[a] = Resting
    /\ LedgerAgrees(guarded)
    /\ \A n \in DOMAIN receipts : receipts[n].request # request
    /\ Becomes(a, [at |-> "verified", dir |-> "receipts", guarded |-> guarded,
                   number |-> Cardinality(DOMAIN receipts) + 1,
                   file |-> [id |-> 0, request |-> request,
                             previous |-> PreviousId(receipts, Cardinality(DOMAIN receipts) + 1)]])
    /\ UNCHANGED <<receipts, series, litter, written, confirmed, lost, rollbacks>>

WriteTemporary(c) ==
    /\ command[c].at = "verified"
    /\ Becomes(c, [command[c] EXCEPT !.at = "temporary"])
    /\ UNCHANGED <<receipts, series, litter, written, confirmed, lost, rollbacks>>

\* The link of a number that is taken fails, and the command with it.
LinkReceipt(a) ==
    /\ command[a].at = "temporary"
    /\ LET n == command[a].number
           file == [command[a].file EXCEPT !.id = written + 1]
       IN IF n \in DOMAIN receipts
          THEN Becomes(a, Resting) /\ UNCHANGED <<receipts, written>>
          ELSE /\ written < MaxReceipts
               /\ receipts' = [m \in DOMAIN receipts \cup {n} |->
                                  IF m = n THEN file ELSE receipts[m]]
               /\ written' = written + 1
               /\ Becomes(a, [command[a] EXCEPT !.at = "linked", !.file = file])
    /\ UNCHANGED <<series, litter, confirmed, lost, rollbacks>>

RemoveTemporary(c) ==
    /\ command[c].at = "linked"
    /\ Becomes(c, [command[c] EXCEPT !.at = "published"])
    /\ UNCHANGED <<receipts, series, litter, written, confirmed, lost, rollbacks>>

\* The acceptance is confirmed only if the ledger verifies and ends with it;
\* otherwise the command fails although its receipt stays.
ConfirmAcceptance(a) ==
    /\ command[a].at = "published"
    /\ LET ends == LedgerAgrees(command[a].guarded) /\ Cardinality(DOMAIN receipts) = command[a].number
       IN confirmed' = IF ends
                       THEN confirmed \cup
                            {[file |-> command[a].file,
                              floor |-> IF command[a].guarded THEN Last(series).chain ELSE <<>>]}
                       ELSE confirmed
    /\ Becomes(a, Resting)
    /\ UNCHANGED <<receipts, series, litter, written, lost, rollbacks>>

(* ------------------------------ checkpoints ----------------------------- *)

\* Series and ledger are verified, the ledger against the head of the series,
\* and there is a new receipt.  "chain" is what the checkpoint vouches for.
AppendCheckpoint(c) ==
    /\ command[c] = Resting
    /\ SeriesVerifies /\ LedgerVerifies /\ ReachesFloor
    /\ LET count == Cardinality(DOMAIN receipts)
           before == IF series = <<>> THEN [count |-> 0, id |-> <<>>] ELSE Last(series)
       IN /\ count > before.count
          /\ Becomes(c, [at |-> "verified", dir |-> "checkpoints", number |-> Len(series) + 1,
                         file |-> [count |-> count, head |-> receipts[count].id,
                                   previous |-> before.id,
                                   chain |-> [n \in 1..count |-> receipts[n].id],
                                   id |-> Append(before.id, receipts[count].id)]])
    /\ UNCHANGED <<receipts, series, litter, written, confirmed, lost, rollbacks>>

LinkCheckpoint(c) ==
    /\ command[c].at = "temporary"
    /\ IF command[c].number <= Len(series)
       THEN Becomes(c, Resting) /\ UNCHANGED series
       ELSE /\ series' = Append(series, command[c].file)
            /\ Becomes(c, [command[c] EXCEPT !.at = "linked"])
    /\ UNCHANGED <<receipts, litter, written, confirmed, lost, rollbacks>>

EndCheckpoint(c) ==
    /\ command[c].at = "published" /\ Becomes(c, Resting)
    /\ UNCHANGED <<receipts, series, litter, written, confirmed, lost, rollbacks>>

(* ------------------------- kills, cleaning, loss ------------------------ *)

Kill(c) ==
    /\ command[c] # Resting
    /\ litter' = IF command[c].at \in {"temporary", "linked"}
                 THEN litter \cup {command[c].dir} ELSE litter
    /\ Becomes(c, Resting)
    /\ UNCHANGED <<receipts, series, written, confirmed, lost, rollbacks>>

\* The operator finds out why nothing verifies, and removes the file.
RemoveLitter ==
    /\ litter # {} /\ litter' = {}
    /\ UNCHANGED <<receipts, series, command, written, confirmed, lost, rollbacks>>

\* The ledger's storage comes back as it was some receipts ago; the series
\* is kept elsewhere.
RollBack ==
    /\ rollbacks < MaxRollbacks /\ rollbacks' = rollbacks + 1
    /\ \E n \in DOMAIN receipts :
          /\ receipts' = [m \in {k \in DOMAIN receipts : k < n} |-> receipts[m]]
          /\ lost' = lost \cup {receipts[k].id : k \in {j \in DOMAIN receipts : j >= n}}
    /\ UNCHANGED <<series, litter, command, written, confirmed>>

LedgerNext ==
    \/ \E a \in Acceptors :
          \/ \E request \in ExternalRequests, guarded \in BOOLEAN :
                AcceptResponse(a, request, guarded)
          \/ LinkReceipt(a) \/ ConfirmAcceptance(a)
    \/ \E c \in Checkpointers : AppendCheckpoint(c) \/ LinkCheckpoint(c) \/ EndCheckpoint(c)
    \/ \E c \in Acceptors \cup Checkpointers : WriteTemporary(c) \/ RemoveTemporary(c) \/ Kill(c)
    \/ RemoveLitter \/ RollBack

LedgerSpec == LedgerInit /\ [][LedgerNext]_ledgerVars

-----------------------------------------------------------------------------
\* A confirmed acceptance whose receipt was not lost is the only one of its
\* request that has one, and the checkpoint it was verified against vouches
\* for no other: a replay or a conflicting response gets past neither
\* concurrent acceptors nor a ledger that was put back.  (That a receipt was
\* lost before its acceptance was confirmed is not noticed: only the number
\* of receipts is compared.)
AcceptedOnce ==
    \A r, s \in confirmed :
        /\ r.file.request = s.file.request /\ r.file.id # s.file.id
        /\ s.file.id \notin lost
        => /\ r.file.id \in lost
           /\ r.file.id \notin Range(s.floor)
=============================================================================
