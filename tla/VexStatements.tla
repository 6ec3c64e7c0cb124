----------------------------- MODULE VexStatements -----------------------------
(***************************************************************************)
(* An SBOM and the VEX statements about its components                     *)
(* (app/services/sbom.py).                                                 *)
(*                                                                         *)
(* A document is stored once for its digest.  A statement on a component   *)
(* and a CVE is never changed: a revision of it is added, reviewed, and    *)
(* exported when approved.  Every operation but the upload is one          *)
(* transaction.                                                            *)
(***************************************************************************)
EXTENDS Naturals, Sequences, FiniteSetsExt

CONSTANTS
    Keys,          \* pairs of a component of the document and a CVE
    Embedded,      \* the pairs the document itself makes a statement on
    Uploads,       \* uploads of the document
    MaxRevisions,  \* bound: revisions of a statement
    MaxReviews     \* bound: requests for approval of one statement

ASSUME VexAssumption == Embedded \subseteq Keys /\ {MaxRevisions, MaxReviews} \subseteq Nat

VARIABLES
    stored,   \* the document is in sbom_documents
    upload,   \* uploads that found it missing
    vex,      \* the revisions of each pair: review_status, and reviews so far
    shown     \* (history) the exports: the revision of each pair, 0 for none

vexVars == <<stored, upload, vex, shown>>

NewDraft == [status |-> "DRAFT", reviews |-> 0]

-----------------------------------------------------------------------------
\* The digest is looked up before the transaction.
LookUpDigest(u) ==
    /\ ~stored /\ upload' = upload \cup {u}
    /\ UNCHANGED <<stored, vex, shown>>

\* The document, its components and its own statements.  A digest stored
\* meanwhile is refused by the unique column.
StoreDocument(u) ==
    /\ u \in upload /\ upload' = upload \ {u}
    /\ IF stored THEN UNCHANGED <<stored, vex>>
       ELSE /\ stored' = TRUE
            /\ vex' = [k \in Keys |-> IF k \in Embedded THEN <<NewDraft>> ELSE <<>>]
    /\ UNCHANGED shown

CreateRevision(k) ==
    /\ stored /\ Len(vex[k]) < MaxRevisions
    /\ vex' = [vex EXCEPT ![k] = Append(@, NewDraft)]
    /\ UNCHANGED <<stored, upload, shown>>

\* (Operators named ..._M are slips this code could contain.  No definition
\* uses them; they show which property would notice.)
RequestApproval_M(k, n) ==
    /\ n \in 1..Len(vex[k]) /\ vex[k][n].reviews < MaxReviews
    /\ vex[k][n].status # "PENDING"
    /\ vex' = [vex EXCEPT ![k][n] = [status |-> "PENDING", reviews |-> @.reviews + 1]]
    /\ UNCHANGED <<stored, upload, shown>>

\* Any revision may be put forward, the newest or not, again after a rejection.
RequestApproval(k, n) ==
    /\ n \in 1..Len(vex[k]) /\ vex[k][n].reviews < MaxReviews
    /\ vex[k][n].status \in {"DRAFT", "REJECTED"}
    /\ vex' = [vex EXCEPT ![k][n] = [status |-> "PENDING", reviews |-> @.reviews + 1]]
    /\ UNCHANGED <<stored, upload, shown>>

DecideStatement(k, n, status) ==
    /\ n \in 1..Len(vex[k]) /\ vex[k][n].status = "PENDING"
    /\ vex' = [vex EXCEPT ![k][n].status = status]
    /\ UNCHANGED <<stored, upload, shown>>

\* export_cyclonedx_vex: of each pair the newest approved revision; the document
\* is numbered with the greatest of them.
Approved(k) == {n \in 1..Len(vex[k]) : vex[k][n].status = "APPROVED"}
Export == [k \in Keys |-> Max(Approved(k) \cup {0})]

ExportVex ==
    /\ stored /\ shown' = shown \cup {Export}
    /\ UNCHANGED <<stored, upload, vex>>

-----------------------------------------------------------------------------
VexInit ==
    /\ stored = FALSE /\ upload = {}
    /\ vex = [k \in Keys |-> <<>>] /\ shown = {}

VexNext ==
    \/ \E u \in Uploads : LookUpDigest(u) \/ StoreDocument(u)
    \/ \E k \in Keys :
          \/ CreateRevision(k)
          \/ \E n \in 1..MaxRevisions :
                \/ RequestApproval(k, n)
                \/ \E s \in {"APPROVED", "REJECTED"} : DecideStatement(k, n, s)
    \/ ExportVex

VexSpec == VexInit /\ [][VexNext]_vexVars

-----------------------------------------------------------------------------
\* Whatever is revised, reviewed and exported in between, of two exports one has,
\* of every pair, the same revision as the other or a newer one: what a release
\* published about a vulnerability never goes back (sbom.py:660-683).
ExportsAreOrdered ==
    \A e, f \in shown : (\A k \in Keys : e[k] <= f[k]) \/ (\A k \in Keys : f[k] <= e[k])
=============================================================================
