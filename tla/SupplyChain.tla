------------------------------ MODULE SupplyChain ------------------------------
(***************************************************************************)
(* OSV candidates of a stored SBOM and the findings made of them           *)
(* (app/services/sbom.py, app/repositories/finding_ingestion.py).          *)
(*                                                                         *)
(* A scan asks OSV between two transactions and records a candidate per    *)
(* vulnerability; a person rejects one, or confirms it in two              *)
(* transactions: the finding, then the link and the match.  One component  *)
(* of one SBOM: a finding and a link are named by their CVE, a match by    *)
(* its OSV identifier.  A finding made by another scanner of the same      *)
(* component differs only in never being confirmed here.                   *)
(***************************************************************************)
EXTENDS Naturals, FiniteSets

CONSTANTS
    Matches,      \* OSV identifiers OSV has for the component, of one CVE at first
    Cves,         \* CVE aliases
    NoCve,        \* a record without a CVE alias
    Scans,        \* jobs that scan the SBOM
    Attempts,     \* attempts of those jobs, by workers that may overlap
    People,       \* callers of decide_osv_match
    MaxDecisions, \* bound: decisions on matches and changes of aliases at OSV
    MaxEdits      \* bound: edits of findings and decisions on links

ASSUME SupplyAssumption ==
    /\ NoCve \notin Cves
    /\ MaxDecisions \in Nat /\ MaxEdits \in Nat

VARIABLES
    alias,     \* the CVE alias each record has at OSV (external)
    run,       \* osv_scan_runs.status by source_job_id
    attempt,   \* what each attempt is at, with what it read
    match,     \* sbom_osv_matches
    found,     \* the finding of each CVE: none, open, worked on, archived
    link,      \* sbom_finding_links.status of each CVE
    deciding,  \* what each person is at, with the match as read
    spent,     \* renames, decisions and edits so far
    repeated,  \* (history) CVEs a confirmation of which was not the first
    reopened   \* (history) CVEs whose finding lost the work done on it

supplyVars == <<alias, run, attempt, match, found, link, deciding, spent, repeated, reopened>>

Idle     == [at |-> "idle"]
NoMatch  == [status |-> "none", cve |-> NoCve, finding |-> NoCve]
Unarchived(c) == found[c] \in {"open", "worked"}

CountChange(what) ==
    /\ spent.renames + spent.decisions < MaxDecisions
    /\ spent' = [spent EXCEPT ![what] = @ + 1]
Edit == spent.edits < MaxEdits /\ spent' = [spent EXCEPT !.edits = @ + 1]

-----------------------------------------------------------------------------
\* The record of the vulnerability changes at OSV.
Rename(m, c) ==
    /\ alias[m] # c /\ CountChange("renames")
    /\ alias' = [alias EXCEPT ![m] = c]
    /\ UNCHANGED <<run, attempt, match, found, link, deciding, repeated, reopened>>

\* run_osv_scan looks its run up; a SUCCEEDED one is the answer.
LookUpRun(t, j) ==
    /\ attempt[t] = Idle /\ run[j] # "SUCCEEDED"
    /\ attempt' = [attempt EXCEPT ![t] = [at |-> "opening", scan |-> j, new |-> run[j] = "none"]]
    /\ UNCHANGED <<alias, run, match, found, link, deciding, spent, repeated, reopened>>

\* The run is inserted, or the row found is used again.  An insertion that
\* another attempt came before is refused by the unique index.
OpenRun(t) ==
    LET a == attempt[t] IN
    /\ a.at = "opening"
    /\ IF a.new /\ run[a.scan] # "none"
       THEN UNCHANGED run /\ attempt' = [attempt EXCEPT ![t] = Idle]
       ELSE /\ run' = [run EXCEPT ![a.scan] = "RUNNING"]
            /\ attempt' = [attempt EXCEPT ![t] = [at |-> "asking", scan |-> a.scan]]
    /\ UNCHANGED <<alias, match, found, link, deciding, spent, repeated, reopened>>

\* OSV answers.
Answer(t) ==
    /\ attempt[t].at = "asking"
    /\ attempt' = [attempt EXCEPT ![t] =
          [at |-> "recording", scan |-> attempt[t].scan, answer |-> alias]]
    /\ UNCHANGED <<alias, run, match, found, link, deciding, spent, repeated, reopened>>

\* (Operators named ..._M are slips this code could contain.  No definition
\* uses them; they show which property would notice.)
RecordScan_M(t) ==
    LET a == attempt[t] IN
    /\ a.at = "recording"
    /\ match' = [m \in Matches |-> [NoMatch EXCEPT !.status = "CANDIDATE", !.cve = a.answer[m]]]
    /\ run' = [run EXCEPT ![a.scan] = "SUCCEEDED"]
    /\ attempt' = [attempt EXCEPT ![t] = Idle]
    /\ UNCHANGED <<alias, found, link, deciding, spent, repeated, reopened>>

\* The candidates are upserted: of a known one the alias changes, what was
\* decided stays.
RecordScan(t) ==
    LET a == attempt[t] IN
    /\ a.at = "recording"
    /\ match' = [m \in Matches |->
          [match[m] EXCEPT !.cve = a.answer[m],
                           !.status = IF @ = "none" THEN "CANDIDATE" ELSE @]]
    /\ run' = [run EXCEPT ![a.scan] = "SUCCEEDED"]
    /\ attempt' = [attempt EXCEPT ![t] = Idle]
    /\ UNCHANGED <<alias, found, link, deciding, spent, repeated, reopened>>

\* An error of the query or of the second transaction marks the run, whatever
\* another attempt made of it.
FailScan(t) ==
    /\ attempt[t].at \in {"asking", "recording"}
    /\ run' = [run EXCEPT ![attempt[t].scan] = "FAILED"]
    /\ attempt' = [attempt EXCEPT ![t] = Idle]
    /\ UNCHANGED <<alias, match, found, link, deciding, spent, repeated, reopened>>

KillScan(t) ==
    /\ attempt[t] # Idle
    /\ attempt' = [attempt EXCEPT ![t] = Idle]
    /\ UNCHANGED <<alias, run, match, found, link, deciding, spent, repeated, reopened>>

-----------------------------------------------------------------------------
\* REJECT takes the match in any state; its finding and its link stay.
RejectMatch(p, m) ==
    /\ deciding[p] = Idle /\ match[m].status # "none" /\ CountChange("decisions")
    /\ match' = [match EXCEPT ![m].status = "REJECTED"]
    /\ UNCHANGED <<alias, run, attempt, found, link, deciding, repeated, reopened>>

\* CONFIRM reads the match; one that is CONFIRMED with a finding is the answer,
\* and one without a CVE is refused.
ReadMatch(p, m) ==
    /\ deciding[p] = Idle /\ match[m].status \in {"CANDIDATE", "REJECTED"} /\ match[m].cve # NoCve
    /\ CountChange("decisions")
    /\ deciding' = [deciding EXCEPT ![p] = [at |-> "read", match |-> m, cve |-> match[m].cve]]
    /\ repeated' =
          LET again == \/ match[m].status = "REJECTED"
                       \/ \E q \in People : deciding[q] # Idle /\ deciding[q].cve = match[m].cve
                       \/ \E n \in Matches : match[n].finding = match[m].cve
          IN  IF again THEN repeated \cup {match[m].cve} ELSE repeated
    /\ UNCHANGED <<alias, run, attempt, match, found, link, reopened>>

\* upsert_findings writes the finding whole: one that exists is open again,
\* without owner, dates or acceptance, and no longer archived.
WriteFinding(p) ==
    LET d == deciding[p] IN
    /\ d.at = "read"
    /\ found' = [found EXCEPT ![d.cve] = "open"]
    /\ reopened' = IF found[d.cve] \in {"worked", "archived"} THEN reopened \cup {d.cve} ELSE reopened
    /\ deciding' = [deciding EXCEPT ![p].at = "linking"]
    /\ UNCHANGED <<alias, run, attempt, match, link, spent, repeated>>

ConfirmMatch_M(p) ==
    LET d == deciding[p]  c == match[d.match].cve IN
    /\ d.at = "linking" /\ c # NoCve
    /\ link' = [link EXCEPT ![c] = "CONFIRMED"]
    /\ match' = [match EXCEPT ![d.match].status = "CONFIRMED", ![d.match].finding = c]
    /\ deciding' = [deciding EXCEPT ![p] = Idle]
    /\ UNCHANGED <<alias, run, attempt, found, spent, repeated, reopened>>

\* The link and the match, in the second transaction.
ConfirmMatch(p) ==
    LET d == deciding[p] IN
    /\ d.at = "linking"
    /\ link' = [link EXCEPT ![d.cve] = "CONFIRMED"]
    /\ match' = [match EXCEPT ![d.match].status = "CONFIRMED", ![d.match].finding = d.cve]
    /\ deciding' = [deciding EXCEPT ![p] = Idle]
    /\ UNCHANGED <<alias, run, attempt, found, spent, repeated, reopened>>

\* The request ends between its transactions.
KillDecision(p) ==
    /\ deciding[p] # Idle
    /\ repeated' = repeated \cup {deciding[p].cve}
    /\ deciding' = [deciding EXCEPT ![p] = Idle]
    /\ UNCHANGED <<alias, run, attempt, match, found, link, spent, reopened>>

\* reconcile_sbom_findings: live findings of the component without a link.
ReconcileLinks ==
    /\ \E c \in Cves : Unarchived(c) /\ link[c] = "none"
    /\ link' = [c \in Cves |-> IF Unarchived(c) /\ link[c] = "none" THEN "CANDIDATE" ELSE link[c]]
    /\ UNCHANGED <<alias, run, attempt, match, found, deciding, spent, repeated, reopened>>

DecideLink(c, status) ==
    /\ link[c] \notin {"none", status} /\ Edit
    /\ link' = [link EXCEPT ![c] = status]
    /\ UNCHANGED <<alias, run, attempt, match, found, deciding, repeated, reopened>>

\* The finding is assigned, resolved or accepted, or archived.
EditFinding(c, to) ==
    /\ Unarchived(c) /\ found[c] # to /\ Edit
    /\ found' = [found EXCEPT ![c] = to]
    /\ UNCHANGED <<alias, run, attempt, match, link, deciding, repeated, reopened>>

-----------------------------------------------------------------------------
SupplyInit ==
    /\ \E c \in Cves : alias = [m \in Matches |-> c]
    /\ run = [j \in Scans |-> "none"]
    /\ attempt = [t \in Attempts |-> Idle]
    /\ match = [m \in Matches |-> NoMatch]
    /\ found = [c \in Cves |-> "none"]
    /\ link = [c \in Cves |-> "none"]
    /\ deciding = [p \in People |-> Idle]
    /\ spent = [renames |-> 0, decisions |-> 0, edits |-> 0]
    /\ repeated = {} /\ reopened = {}

SupplyNext ==
    \/ \E m \in Matches, c \in Cves \cup {NoCve} : Rename(m, c)
    \/ \E t \in Attempts :
          \/ \E j \in Scans : LookUpRun(t, j)
          \/ OpenRun(t) \/ Answer(t) \/ RecordScan(t) \/ FailScan(t) \/ KillScan(t)
    \/ \E p \in People :
          \/ \E m \in Matches : RejectMatch(p, m) \/ ReadMatch(p, m)
          \/ WriteFinding(p) \/ ConfirmMatch(p) \/ KillDecision(p)
    \/ ReconcileLinks
    \/ \E c \in Cves :
          \/ \E s \in {"CONFIRMED", "REJECTED"} : DecideLink(c, s)
          \/ \E to \in {"worked", "archived"} : EditFinding(c, to)

SupplySpec == SupplyInit /\ [][SupplyNext]_supplyVars

-----------------------------------------------------------------------------
\* A confirmed candidate has its finding, and a link somebody confirmed or later
\* decided against; its finding is of another CVE only after OSV renamed it.
ConfirmedIsTracked ==
    \A m \in Matches : match[m].status = "CONFIRMED" =>
        LET c == match[m].finding IN
        /\ c # NoCve /\ found[c] # "none" /\ link[c] \in {"CONFIRMED", "REJECTED"}
        /\ match[m].cve # c => spent.renames > 0

\* The work done on a finding is undone only by confirming its CVE once more:
\* after a rejection, for a second OSV identifier, beside another confirmation,
\* or after one that did not end (or after OSV renamed a record).
ReopenedIsRepeated == spent.renames = 0 => reopened \subseteq repeated
=============================================================================
