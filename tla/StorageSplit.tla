------------------------------ MODULE StorageSplit ------------------------------
(***************************************************************************)
(* Preparing the storage when the server starts                            *)
(* (app/services/storage_layout.py, called by app/application_lifespan.py  *)
(* and scripts/prepare_storage.py): before version 72.0.25 one database    *)
(* held everything; now accounts and the registry of projects are in a     *)
(* control database and the default project has its own database and       *)
(* directories.  The old database is kept.                                 *)
(*                                                                         *)
(* Every action is a step that a killed process leaves behind: a rename, a *)
(* committed transaction, a directory.  One process prepares at a time     *)
(* (docs/50: the service is stopped for the upgrade), others may serve.    *)
(* A database is where it came from, its role, and whether it holds        *)
(* accounts; what is written while serving is a number per database.       *)
(***************************************************************************)
EXTENDS Naturals

CONSTANTS
    Starters,      \* processes that start the server
    Directories,   \* evidence, exports, import previews, recovery bundles
    NoFile,
    MaxWork,       \* bound: writes to each database while serving
    MaxKills       \* bound: processes killed while they prepare

Database == [source : {"legacy", "new"}, role : {"control", "project-data"},
             accounts : BOOLEAN, work : Nat]

ASSUME SplitAssumption ==
    /\ Starters # {} /\ Directories # {} /\ MaxWork \in Nat /\ MaxKills \in Nat
    /\ NoFile \notin Database

VARIABLES
    legacy,    \* there is a database of the old layout (never changes)
    control, default,
    copied,    \* directories copied to the tree of the default project
    starter,   \* where each process is, and whether it splits the old database
    worked,    \* (history) writes to each database
    cut,       \* (history) a process was killed between making the default
               \* database and copying all directories
    kills

splitVars == <<legacy, control, default, copied, starter, worked, cut, kills>>

Stopped == [at |-> "stopped", splits |-> FALSE]

\* What init_db makes of a new file: the identity of a default project, which it
\* never replaces.
Fresh == [source |-> "new", role |-> "project-data", accounts |-> FALSE, work |-> 0]

At(s, place) == starter[s].at = place
GoTo(s, place) == starter' = [starter EXCEPT ![s].at = place]

-----------------------------------------------------------------------------
\* The old database is split if one of the new ones is missing.
StartServer(s) ==
    /\ \A t \in Starters : At(t, "stopped") \/ At(t, "serving")
    /\ At(s, "stopped")
    /\ LET splits == legacy /\ NoFile \in {control, default}
       IN  starter' = [starter EXCEPT ![s] =
              [at |-> IF splits THEN "aside" ELSE "control", splits |-> splits]]
    /\ UNCHANGED <<legacy, control, default, copied, worked, cut, kills>>

\* What an earlier attempt left is renamed, the control database first.
Aside(s) ==
    /\ At(s, "aside")
    /\ IF control # NoFile THEN control' = NoFile /\ UNCHANGED <<default, starter>>
       ELSE default' = NoFile /\ UNCHANGED control /\ GoTo(s, "control")
    /\ UNCHANGED <<legacy, copied, worked, cut, kills>>

MakeControl(s) ==
    /\ At(s, "control")
    /\ control' = IF starter[s].splits
                  THEN [Fresh EXCEPT !.source = "legacy", !.accounts = TRUE]
                  ELSE IF control = NoFile THEN Fresh ELSE control
    /\ GoTo(s, IF starter[s].splits THEN "role" ELSE "default")
    /\ UNCHANGED <<legacy, default, copied, worked, cut, kills>>

SetRole(s) ==
    /\ At(s, "role")
    /\ control' = [control EXCEPT !.role = "control"]
    /\ GoTo(s, "default")
    /\ UNCHANGED <<legacy, default, copied, worked, cut, kills>>

\* A copy of the old database, or what init_db makes.
MakeDefault(s) ==
    /\ At(s, "default")
    /\ default' = IF starter[s].splits
                  THEN [Fresh EXCEPT !.source = "legacy", !.accounts = TRUE]
                  ELSE IF default = NoFile THEN Fresh ELSE default
    /\ GoTo(s, "strip")
    /\ UNCHANGED <<legacy, control, copied, worked, cut, kills>>

\* (Operators named ..._M are slips this code could contain.  No definition
\* uses them; they show which property would notice.)
Strip_M(s) ==
    /\ At(s, "strip")
    /\ default' = [default EXCEPT !.accounts = @ /\ ~starter[s].splits]
    /\ GoTo(s, IF starter[s].splits THEN "directories" ELSE "marker")
    /\ UNCHANGED <<legacy, control, copied, worked, cut, kills>>

\* At every start: accounts, sessions and other projects leave the default
\* database.
Strip(s) ==
    /\ At(s, "strip")
    /\ default' = [default EXCEPT !.accounts = FALSE]
    /\ GoTo(s, IF starter[s].splits THEN "directories" ELSE "marker")
    /\ UNCHANGED <<legacy, control, copied, worked, cut, kills>>

\* Only the process that split copies the directories, one after the other.
CopyDirectory(s, d) ==
    /\ At(s, "directories") /\ d \notin copied
    /\ copied' = copied \cup {d}
    /\ UNCHANGED <<legacy, control, default, starter, worked, cut, kills>>

EndCopies(s) ==
    /\ At(s, "directories") /\ copied = Directories
    /\ GoTo(s, "marker")
    /\ UNCHANGED <<legacy, control, default, copied, worked, cut, kills>>

\* The marker records what was done; nothing reads it.
WriteMarker(s) ==
    /\ At(s, "marker") /\ GoTo(s, "serving")
    /\ UNCHANGED <<legacy, control, default, copied, worked, cut, kills>>

-----------------------------------------------------------------------------
\* A user changes an account, or imports findings.
Work(s) ==
    /\ At(s, "serving")
    /\ \/ /\ worked.control < MaxWork
          /\ control' = [control EXCEPT !.work = @ + 1, !.accounts = TRUE]
          /\ worked' = [worked EXCEPT !.control = @ + 1]
          /\ UNCHANGED default
       \/ /\ worked.default < MaxWork
          /\ default' = [default EXCEPT !.work = @ + 1]
          /\ worked' = [worked EXCEPT !.default = @ + 1]
          /\ UNCHANGED control
    /\ UNCHANGED <<legacy, copied, starter, cut, kills>>

StopServer(s) ==
    /\ At(s, "serving") /\ starter' = [starter EXCEPT ![s] = Stopped]
    /\ UNCHANGED <<legacy, control, default, copied, worked, cut, kills>>

KillStart(s) ==
    /\ ~At(s, "stopped") /\ ~At(s, "serving")
    /\ kills < MaxKills /\ kills' = kills + 1
    /\ starter' = [starter EXCEPT ![s] = Stopped]
    /\ cut' = (cut \/ (starter[s].splits /\ (At(s, "strip") \/ At(s, "directories"))))
    /\ UNCHANGED <<legacy, control, default, copied, worked>>

SplitInit ==
    /\ legacy \in BOOLEAN
    /\ control = NoFile /\ default = NoFile /\ copied = {}
    /\ starter = [s \in Starters |-> Stopped]
    /\ worked = [control |-> 0, default |-> 0] /\ cut = FALSE /\ kills = 0

SplitNext ==
    \E s \in Starters :
        \/ StartServer(s) \/ Aside(s) \/ MakeControl(s) \/ SetRole(s) \/ MakeDefault(s) \/ Strip(s)
        \/ \E d \in Directories : CopyDirectory(s, d)
        \/ EndCopies(s) \/ WriteMarker(s) \/ Work(s) \/ StopServer(s) \/ KillStart(s)

SplitSpec == SplitInit /\ [][SplitNext]_splitVars

-----------------------------------------------------------------------------
\* Whatever was killed, a server that serves has both databases from the old one
\* if there is an old one, the accounts only in the control database, everything
\* written since, and all directories unless a split was killed after it had
\* made the default database (storage_layout.py:256-283).
ServedIsSplit ==
    (\E s \in Starters : At(s, "serving")) =>
        /\ control # NoFile /\ default # NoFile
        /\ control.source = (IF legacy THEN "legacy" ELSE "new")
        /\ default.source = control.source /\ ~default.accounts
        /\ control.work = worked.control /\ default.work = worked.default
        /\ legacy /\ ~cut => copied = Directories

\* docs/50_CONTROL_DATABASE_AND_RESTORE_BOUNDARY.md: "제어 DB는
\* `database_role=control`, `project_id=control`을 사용합니다" (the control
\* database has the role control).
ControlHasItsRole ==
    (\E s \in Starters : At(s, "serving")) => control.role = "control"
=============================================================================
