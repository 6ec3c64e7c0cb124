--------------------------- MODULE ProofTransparency ---------------------------
(***************************************************************************)
(* What an integrity proof says of the keys that sign it.  Rotated and     *)
(* revoked keys are registered (app/services/proof_transitions.py,         *)
(* proof_revocation.py); a checkpoint pins the registry                    *)
(* (proof_checkpoint.py), witnesses attest to the checkpoint               *)
(* (proof_witness.py), a log publishes it with its witnesses               *)
(* (proof_transparency.py), mirrors acknowledge the log's heads            *)
(* (proof_mirror.py) and bind them together (proof_consistency.py).  A     *)
(* proof carries all eight lists (integrity_proof_bundle.py), each read by *)
(* itself, and is issued if they agree.                                    *)
(*                                                                         *)
(* Rows are only ever added, so a list is known by its length where its    *)
(* content does not matter.  A signature is of the document it is on, and  *)
(* the lists nobody requires may be empty, as in the default settings.     *)
(***************************************************************************)
EXTENDS Integers, Sequences, FiniteSets

CONSTANTS
    Registrars,       \* the processes that pin the registry
    Witnesses,        \* the keys of the witnesses
    Mirrors,          \* the keys of the mirrors
    MaxKeyChanges,    \* bound: rotations and revocations
    MaxPins,          \* bound: checkpoints of the registry
    MaxAttested,      \* bound: attestations
    MaxPublished      \* bound: entries of the log

VARIABLES
    lists,      \* the tables
    registrar,  \* a process that pins the registry, with what it has read
    publisher,  \* the publication under way
    issuing     \* the proof under way

transparencyVars == <<lists, registrar, publisher, issuing>>

\* pins: the checkpoints, in order.  attested: witness and number of checkpoint.
\* entries: the log, each entry with its head.  receipts: mirror and size of the
\* log.  bindings: size of the log and mirrors.
NoLists ==
    [transitions |-> 0, revocations |-> 0, pins |-> <<>>, attested |-> {},
     entries |-> <<>>, receipts |-> {}, bindings |-> <<>>]

\* The lists of a proof, in the order it reads them.
Parts == <<"transitions", "revocations", "pins", "attested",
           "entries", "heads", "receipts", "bindings">>

\* Of the attestations, a proof takes those for the newest checkpoint.
ForNewest(all) == {w \in all.attested : w[2] = Len(all.pins)}

Listed(part) ==
    IF part = "attested" THEN ForNewest(lists)
    ELSE IF part = "heads" THEN Len(lists.entries)
    ELSE lists[part]

NothingRead == [part \in {Parts[i] : i \in 1..Len(Parts)} |->
                    IF part = "heads" THEN 0 ELSE NoLists[part]]

\* disturbed (history): a checkpoint was pinned or attested to between its reads.
NoProof == [read |-> 0, seen |-> NothingRead, disturbed |-> FALSE]
Unread == [at |-> "idle", transitions |-> 0, revocations |-> 0]
Unpublished == [at |-> "idle", checkpoint |-> 0, witnesses |-> {}]

LastOf(s) == s[Len(s)]
KeepProof == UNCHANGED issuing
RoomForKeys == lists.transitions + lists.revocations < MaxKeyChanges

RotateKey ==
    /\ RoomForKeys
    /\ lists' = [lists EXCEPT !.transitions = @ + 1]
    /\ KeepProof /\ UNCHANGED <<registrar, publisher>>

RevokeKey ==
    /\ RoomForKeys
    /\ lists' = [lists EXCEPT !.revocations = @ + 1]
    /\ KeepProof /\ UNCHANGED <<registrar, publisher>>

-----------------------------------------------------------------------------
ReadTransitions(p) ==
    /\ registrar[p].at = "idle" /\ Len(lists.pins) < MaxPins
    /\ registrar' = [registrar EXCEPT ![p].at = "transitions",
                                      ![p].transitions = lists.transitions]
    /\ KeepProof /\ UNCHANGED <<lists, publisher>>

ReadRevocations(p) ==
    /\ registrar[p].at = "transitions"
    /\ registrar' = [registrar EXCEPT ![p].at = "revocations",
                                      ![p].revocations = lists.revocations]
    /\ KeepProof /\ UNCHANGED <<lists, publisher>>

PinnedAlready(p) ==
    /\ lists.pins # <<>>
    /\ LastOf(lists.pins).transitions = registrar[p].transitions
    /\ LastOf(lists.pins).revocations = registrar[p].revocations

\* raced (history): a key changed since the registry was read.
Pin(p) ==
    [transitions |-> registrar[p].transitions, revocations |-> registrar[p].revocations,
     raced |-> registrar[p].transitions # lists.transitions
               \/ registrar[p].revocations # lists.revocations]

Pinned(pin) ==
    /\ lists' = [lists EXCEPT !.pins = Append(@, pin)]
    /\ issuing' = [issuing EXCEPT !.disturbed = @ \/ issuing.read > 0]

\* The transaction takes the next number, whatever the checkpoint before pins,
\* unless it pins the same.
PinRegistry(p) ==
    /\ registrar[p].at = "revocations"
    /\ IF PinnedAlready(p) THEN KeepProof /\ UNCHANGED lists
       ELSE Len(lists.pins) < MaxPins /\ Pinned(Pin(p))
    /\ registrar' = [registrar EXCEPT ![p] = Unread]
    /\ UNCHANGED publisher

\* A witness attests to a checkpoint, the newest or another, once.
Attest(w, n) ==
    /\ n \in 1..Len(lists.pins) /\ <<w, n>> \notin lists.attested
    /\ Cardinality(lists.attested) < MaxAttested
    /\ lists' = [lists EXCEPT !.attested = @ \cup {<<w, n>>}]
    /\ issuing' = [issuing EXCEPT !.disturbed = @ \/ issuing.read > 0]
    /\ UNCHANGED <<registrar, publisher>>

-----------------------------------------------------------------------------
\* The checkpoint to publish is read, then its witnesses; without one it is not
\* published.
ChooseCheckpoint(n) ==
    /\ publisher.at = "idle" /\ n \in 1..Len(lists.pins)
    /\ Len(lists.entries) < MaxPublished
    /\ publisher' = [Unpublished EXCEPT !.at = "chosen", !.checkpoint = n]
    /\ KeepProof /\ UNCHANGED <<lists, registrar>>

ReadWitnesses ==
    /\ publisher.at = "chosen"
    /\ LET own == {w \in Witnesses : <<w, publisher.checkpoint>> \in lists.attested}
       IN  publisher' = IF own = {} THEN Unpublished
                        ELSE [publisher EXCEPT !.at = "witnessed", !.witnesses = own]
    /\ KeepProof /\ UNCHANGED <<lists, registrar>>

\* The entry and its head are one transaction; a checkpoint is published once.
PublishHead ==
    /\ publisher.at = "witnessed"
    /\ LET entry == [checkpoint |-> publisher.checkpoint, witnesses |-> publisher.witnesses]
           again == \E i \in 1..Len(lists.entries) :
                       lists.entries[i].checkpoint = publisher.checkpoint
       IN  lists' = IF again THEN lists ELSE [lists EXCEPT !.entries = Append(@, entry)]
    /\ publisher' = Unpublished
    /\ KeepProof /\ UNCHANGED registrar

\* A mirror acknowledges a head larger than those it knows.
Acknowledge(m, n) ==
    /\ n \in 1..Len(lists.entries)
    /\ \A r \in lists.receipts : r[1] = m => r[2] < n
    /\ lists' = [lists EXCEPT !.receipts = @ \cup {<<m, n>>}]
    /\ KeepProof /\ UNCHANGED <<registrar, publisher>>

\* Mirrors that acknowledged a head bind it, unless it was the last one bound.
Bind(ms, n) ==
    /\ ms # {} /\ \A m \in ms : <<m, n>> \in lists.receipts
    /\ lists.bindings # <<>> => LastOf(lists.bindings).size # n
    /\ Len(lists.bindings) < MaxPublished
    /\ lists' = [lists EXCEPT !.bindings = Append(@, [size |-> n, mirrors |-> ms])]
    /\ KeepProof /\ UNCHANGED <<registrar, publisher>>

-----------------------------------------------------------------------------
ReadPart ==
    /\ issuing.read < Len(Parts)
    /\ LET part == Parts[issuing.read + 1]
       IN  issuing' = [issuing EXCEPT !.read = @ + 1, !.seen[part] = Listed(part)]
    /\ UNCHANGED <<lists, registrar, publisher>>

\* (Operators named ..._M are slips this code could contain.  No definition
\* uses them; they show which property would notice.)
\* Only rotations are compared.
PinAgrees_M(s) == s.pins # <<>> => LastOf(s.pins).transitions = s.transitions

\* The newest checkpoint pins exactly the registry.
PinAgrees(s) ==
    s.pins # <<>> =>
        /\ LastOf(s.pins).transitions = s.transitions
        /\ LastOf(s.pins).revocations = s.revocations

\* Witnesses, if there are any, attest to the newest checkpoint.
QuorumAgrees(s) == s.attested # {} => s.pins # <<>> /\ ForNewest(s) # {}

\* The checkpoints of the log are in the proof.
LogAgrees_M(s) ==
    Len(s.entries) + s.heads > 0 =>
        /\ s.entries # <<>> /\ s.heads \in 1..Len(s.entries)
        /\ s.pins # <<>> => \A i \in 1..Len(s.entries) :
                               s.entries[i].checkpoint \in 1..Len(s.pins)

\* And, if the proof has any witnesses, those of the last entry are the ones it
\* was published with.
LogAgrees(s) ==
    Len(s.entries) + s.heads > 0 =>
        /\ s.entries # <<>> /\ s.heads \in 1..Len(s.entries)
        /\ s.pins # <<>> => \A i \in 1..Len(s.entries) :
                               s.entries[i].checkpoint \in 1..Len(s.pins)
        /\ s.attested # {} =>
              {w \in Witnesses : <<w, LastOf(s.entries).checkpoint>> \in s.attested}
                  = LastOf(s.entries).witnesses

\* Receipts are for heads of the proof, and one is for the last.
MirrorsAgree(s) ==
    s.receipts # {} =>
        /\ s.heads > 0
        /\ \A r \in s.receipts : r[2] <= s.heads
        /\ \E r \in s.receipts : r[2] = s.heads

BindingsAgree(s) ==
    \A i \in 1..Len(s.bindings) :
        /\ s.bindings[i].size <= s.heads
        /\ \A m \in s.bindings[i].mirrors : <<m, s.bindings[i].size>> \in s.receipts

Agrees(s) ==
    /\ PinAgrees(s) /\ QuorumAgrees(s) /\ LogAgrees(s)
    /\ MirrorsAgree(s) /\ BindingsAgree(s)

\* The lists are signed as they were read, or the request fails.
IssueProof ==
    /\ issuing.read = Len(Parts)
    /\ issuing' = IF Agrees(issuing.seen) THEN [issuing EXCEPT !.read = @ + 1] ELSE NoProof
    /\ UNCHANGED <<lists, registrar, publisher>>

DeliverProof ==
    /\ issuing.read > Len(Parts)
    /\ issuing' = NoProof
    /\ UNCHANGED <<lists, registrar, publisher>>

TransparencyInit ==
    /\ lists = NoLists
    /\ registrar = [p \in Registrars |-> Unread]
    /\ publisher = Unpublished
    /\ issuing = NoProof

PublishNext ==
    \/ \E p \in Registrars : ReadTransitions(p) \/ ReadRevocations(p) \/ PinRegistry(p)
    \/ \E n \in 1..MaxPins : ChooseCheckpoint(n) \/ \E w \in Witnesses : Attest(w, n)
    \/ ReadWitnesses \/ PublishHead
    \/ \E n \in 1..MaxPublished : \/ \E m \in Mirrors : Acknowledge(m, n)
                                  \/ \E ms \in SUBSET Mirrors : Bind(ms, n)

TransparencyNext ==
    \/ RotateKey \/ RevokeKey
    \/ PublishNext
    \/ ReadPart \/ IssueProof \/ DeliverProof

TransparencySpec == TransparencyInit /\ [][TransparencyNext]_transparencyVars

-----------------------------------------------------------------------------
Issued == issuing.read > Len(Parts)

\* Who asks for proofs with a checkpoint at least as new as one seen before is
\* never shown fewer changes of keys than that one pinned, unless a key changed
\* while the newest checkpoint was being made: its number is taken in a
\* transaction, but its registry was read before (proof_checkpoint.py:76-82).
ProofIsFresh ==
    (Issued /\ issuing.seen.pins # <<>> /\ ~LastOf(issuing.seen.pins).raced) =>
        \A i \in 1..Len(issuing.seen.pins) :
            /\ issuing.seen.pins[i].transitions <= issuing.seen.transitions
            /\ issuing.seen.pins[i].revocations <= issuing.seen.revocations

\* A checkpoint "binds the complete public key-transition and emergency-revocation
\* registries to a monotonically increasing sequence", so that verifiers who
\* enforce a minimum sequence "detect stale or rolled back registries"
\* (proof_checkpoint.py:5-9): a proof shows every change of keys that an earlier
\* checkpoint in it pinned.
HigherIsNewer ==
    (Issued /\ issuing.seen.pins # <<>>) =>
        \A i \in 1..Len(issuing.seen.pins) :
            /\ issuing.seen.pins[i].transitions <= issuing.seen.transitions
            /\ issuing.seen.pins[i].revocations <= issuing.seen.revocations

\* A proof whose log ends with its newest checkpoint carries exactly the
\* witnesses the log counts, unless a checkpoint was pinned or attested to while
\* it was read: a proof without witnesses is not compared with the log
\* (proof_transparency.py:392).  So a witness that comes after the publication
\* ends all proofs until a key changes and a new checkpoint can be made.
ProofIsWitnessed ==
    (Issued /\ issuing.seen.entries # <<>> /\ ~issuing.disturbed) =>
        LET last == LastOf(issuing.seen.entries)
        IN  last.checkpoint = Len(issuing.seen.pins) =>
                issuing.seen.attested = {<<w, last.checkpoint>> : w \in last.witnesses}
=============================================================================
