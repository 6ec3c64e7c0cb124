------------------------------ MODULE Publication ------------------------------
(***************************************************************************)
(* The publication of a change on GitHub (scripts/publication_lifecycle.py):*)
(* stage, run the local checks, commit, push, open a pull request, wait    *)
(* for its checks, squash-merge and verify the result, with a journal that *)
(* a later run of the same contract resumes from.                          *)
(*                                                                         *)
(* A number stands for the content of the paths the contract allows; 0 is  *)
(* that of the base commit.  Anything else on GitHub is Foreign.  Between  *)
(* two steps the process can die, the operator edits the files or takes    *)
(* the commit back, and other people use the repository.                   *)
(***************************************************************************)
EXTENDS Naturals, Sequences, SequencesExt, FiniteSets

CONSTANTS
    Foreign,        \* what others put on the branch or merge, outside the paths
    Nothing,        \* no value of a step, no branch, no outcome
    MaxEdits,       \* bound: contents the operator writes
    MaxRuns,        \* bound: runs of the script
    MaxOthers       \* bound: steps of other people

ASSUME PublicationAssumption == MaxEdits \in Nat /\ Foreign \notin Nat /\ Nothing \notin Nat

VARIABLES
    worktree, index, headCommit,    \* the operator's clone
    steps,          \* the journal: the value of every step recorded as done
    pc, mine,       \* the step the running process is at; the commit it holds
    branch,         \* the working branch on GitHub
    pull,           \* the pull request
    publicChecks,   \* outcome of the workflow on the commit
    base,           \* what was merged since the contract's base_sha
    passing,        \* the contents the local checks pass on
    runsMade, othersMade

clone  == <<worktree, index, headCommit>>
github == <<branch, pull, publicChecks, base>>
publicationVars == <<clone, steps, pc, mine, github, passing, runsMade, othersMade>>

Contents == 0..MaxEdits
JournalSteps == {"stage", "local_checks", "commit", "ci", "merge", "postverify"}

PublicationInit ==
    /\ worktree \in {0, 1} /\ index = 0 /\ headCommit = 0
    /\ steps = [s \in JournalSteps |-> Nothing]
    /\ pc = "idle" /\ mine = 0
    /\ branch = Nothing /\ pull = [state |-> "none", head |-> Nothing]
    /\ publicChecks = "pending" /\ base = <<>>
    /\ passing \in SUBSET (Contents \ {0})
    /\ runsMade = 0 /\ othersMade = 0

Done(s) == steps[s] # Nothing
Mark(s, v) == steps' = [steps EXCEPT ![s] = v]

\* A failed step ends the process; so does a crash, at any step.
Abort ==
    /\ pc # "idle"
    /\ pc' = "idle" /\ mine' = 0
    /\ UNCHANGED <<clone, steps, github, passing, runsMade, othersMade>>

(* -------------------------- the steps of a run -------------------------- *)

\* The files differ from HEAD and the base branch is where the contract says.
PublicationPreflight ==
    /\ pc = "idle" /\ runsMade < MaxRuns
    /\ base = <<>>
    /\ {worktree, index} # {headCommit}
    /\ pc' = "stage" /\ runsMade' = runsMade + 1
    /\ UNCHANGED <<clone, steps, mine, github, passing, othersMade>>

\* Every allowed path has to be staged: the index differs from HEAD.
StageAndValidate ==
    /\ pc = "stage"
    /\ IF Done("stage")
       THEN index = steps["stage"] /\ UNCHANGED <<index, steps>>
       ELSE /\ worktree # headCommit
            /\ index' = worktree
            /\ Mark("stage", worktree)
    /\ pc' = "check"
    /\ UNCHANGED <<worktree, headCommit, mine, github, passing, runsMade, othersMade>>

\* The checks read the files, not the index.  The journal says only that they
\* passed; the value is what they passed on.
RunLocalChecks ==
    /\ pc = "check"
    /\ IF Done("local_checks")
       THEN UNCHANGED steps
       ELSE worktree \in passing /\ Mark("local_checks", worktree)
    /\ pc' = "commit"
    /\ UNCHANGED <<clone, mine, github, passing, runsMade, othersMade>>

ResumeCommit ==
    /\ pc = "commit" /\ Done("commit")
    /\ headCommit = steps["commit"]
    /\ mine' = headCommit /\ pc' = "push"
    /\ UNCHANGED <<clone, steps, github, passing, runsMade, othersMade>>

EnsureCommit ==
    /\ pc = "commit" /\ ~Done("commit")
    /\ index # headCommit
    /\ headCommit' = index /\ pc' = "committed"
    /\ UNCHANGED <<worktree, index, steps, mine, github, passing, runsMade, othersMade>>

MarkCommit ==
    /\ pc = "committed"
    /\ Mark("commit", headCommit)
    /\ mine' = headCommit /\ pc' = "push"
    /\ UNCHANGED <<clone, github, passing, runsMade, othersMade>>

\* A branch that others moved refuses the push.  An open pull request
\* follows its branch.
EnsurePush ==
    /\ pc = "push"
    /\ branch \in {Nothing, mine}
    /\ branch' = mine /\ pc' = "pr"
    /\ pull' = [pull EXCEPT !.head = IF pull.state = "open" THEN mine ELSE @]
    /\ UNCHANGED <<clone, steps, mine, publicChecks, base, passing, runsMade, othersMade>>

\* A pull request of the commit is reused, whatever its state.  A new one
\* takes the head of the branch as it is by then.
EnsurePr ==
    /\ pc = "pr"
    /\ IF pull.state # "none" /\ pull.head = mine
       THEN UNCHANGED pull
       ELSE /\ pull.state # "open" /\ branch # Nothing
            /\ pull' = [state |-> "open", head |-> branch]
    /\ pc' = IF pull'.head = mine THEN "ci" ELSE "idle"
    /\ UNCHANGED <<clone, steps, mine, branch, publicChecks, base, passing, runsMade, othersMade>>

\* The process gives up (Abort) when the workflow does not turn green.
WaitCi ==
    /\ pc = "ci"
    /\ IF steps["ci"] = mine
       THEN UNCHANGED steps
       ELSE publicChecks = "green" /\ Mark("ci", mine)
    /\ pc' = "merge"
    /\ UNCHANGED <<clone, mine, github, passing, runsMade, othersMade>>

Mergeable == base = <<>> /\ pull = [state |-> "open", head |-> mine]

BeforeMerge ==
    /\ pc = "merge" /\ ~Done("merge")
    /\ Mergeable
    /\ pc' = "merging"
    /\ UNCHANGED <<clone, steps, mine, github, passing, runsMade, othersMade>>

\* GitHub compares the head; the base may have moved since the check.
MergeExactHead ==
    /\ pc = "merging"
    /\ pull.state = "open" /\ pull.head = mine
    /\ base' = Append(base, pull.head)
    /\ pull' = [pull EXCEPT !.state = "merged"]
    /\ branch' = Nothing            \* --delete-branch
    /\ pc' = "merged"
    /\ UNCHANGED <<clone, steps, mine, publicChecks, passing, runsMade, othersMade>>

MarkMerge ==
    /\ pc = "merged" /\ Mark("merge", mine) /\ pc' = "verify"
    /\ UNCHANGED <<clone, mine, github, passing, runsMade, othersMade>>

\* Mutant: the paths changed since base_sha are not compared.
Postverify_M ==
    /\ pc = "verify"
    /\ Last(base) = mine
    /\ Mark("postverify", mine) /\ pc' = "idle" /\ mine' = 0
    /\ UNCHANGED <<clone, github, passing, runsMade, othersMade>>

\* The base branch ends in the merge, and what changed since base_sha is
\* within the contract's paths.
Postverify ==
    /\ pc = "verify"
    /\ Last(base) = mine
    /\ Len(base) = 1
    /\ Mark("postverify", mine) /\ pc' = "idle" /\ mine' = 0
    /\ UNCHANGED <<clone, github, passing, runsMade, othersMade>>

(* -------------------- the operator and other people --------------------- *)

Edit ==
    /\ \E v \in Contents : v # worktree /\ worktree' = v
    /\ othersMade < MaxOthers /\ othersMade' = othersMade + 1
    /\ UNCHANGED <<index, headCommit, steps, pc, mine, github, passing, runsMade>>

\* git reset --soft to the base commit.
TakeBack ==
    /\ pc = "idle" /\ headCommit # 0 /\ headCommit' = 0
    /\ UNCHANGED <<worktree, index, steps, pc, mine, github, passing, runsMade, othersMade>>

\* Somebody pushes to the branch, merges something else, or closes the
\* request; the workflow of the commit ends, and a red one may be run again.
OtherPush ==
    /\ branch \notin {Nothing, Foreign}
    /\ branch' = Foreign
    /\ pull' = [pull EXCEPT !.head = IF pull.state = "open" THEN Foreign ELSE @]
    /\ othersMade < MaxOthers /\ othersMade' = othersMade + 1
    /\ UNCHANGED <<clone, steps, pc, mine, publicChecks, base, passing, runsMade>>

OtherMerge ==
    /\ base' = Append(base, Foreign)
    /\ othersMade < MaxOthers /\ othersMade' = othersMade + 1
    /\ UNCHANGED <<clone, steps, pc, mine, branch, pull, publicChecks, passing, runsMade>>

OtherClose ==
    /\ pull.state = "open" /\ pull' = [pull EXCEPT !.state = "closed"]
    /\ othersMade < MaxOthers /\ othersMade' = othersMade + 1
    /\ UNCHANGED <<clone, steps, pc, mine, branch, publicChecks, base, passing, runsMade>>

Workflow ==
    /\ pull.state = "open" /\ publicChecks \in {"pending", "red"}
    /\ publicChecks' \in {"green", "red"} \ {publicChecks}
    /\ UNCHANGED <<clone, steps, pc, mine, branch, pull, base, passing, runsMade, othersMade>>

Run ==
    \/ PublicationPreflight \/ StageAndValidate \/ RunLocalChecks
    \/ ResumeCommit \/ EnsureCommit \/ MarkCommit \/ EnsurePush \/ EnsurePr \/ WaitCi
    \/ BeforeMerge \/ MergeExactHead \/ MarkMerge \/ Postverify \/ Abort

PublicationNext ==
    \/ Run
    \/ Edit \/ TakeBack \/ OtherPush \/ OtherMerge \/ OtherClose \/ Workflow

PublicationSpec == PublicationInit /\ [][PublicationNext]_publicationVars

-----------------------------------------------------------------------------
\* A publication that was verified put on the base branch, before anything
\* else, exactly the tree that was staged, the one commit whose workflow
\* turned green, whoever else pushed, merged or edited and however often the
\* process died on the way.
PublishedAsStaged ==
    Done("postverify") =>
        /\ base # <<>> /\ Head(base) = steps["stage"]
        /\ steps["ci"] = steps["stage"] /\ publicChecks = "green"
=============================================================================
