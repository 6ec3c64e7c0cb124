------------------------------ MODULE ControlPlane ------------------------------
(***************************************************************************)
(* The control database: accounts and browser sessions                     *)
(* (app/services/accounts.py), the registry of projects                    *)
(* (app/services/projects.py), and restoring it from a bundle              *)
(* (app/services/control_recovery.py), between the stores of the projects  *)
(* that are not restored with it.                                          *)
(*                                                                         *)
(* Every operation on accounts is one transaction; a login is two, and     *)
(* making a project is a transaction and then its store.  A restore        *)
(* replaces the database, merges what was registered since the bundle, and *)
(* puts the old database back if a step fails; the procedure of docs/51    *)
(* has the server stopped meanwhile.  A password is a number.  Left out:   *)
(* counting failed logins, which changes only how one is refused, and the  *)
(* default project, which is always there.  The database has the role      *)
(* control, as an upgrade leaves it (StorageSplit: a new installation does *)
(* not, and makes no bundles).                                             *)
(***************************************************************************)
EXTENDS Naturals, FiniteSets

CONSTANTS
    Users, Admins,   \* accounts, and those with the role admin
    Projects,        \* projects besides the default one
    Clients,         \* browsers that log in
    SessionLimit,    \* AUTH_MAX_ACTIVE_SESSIONS
    NoProject, NoBundle,
    MaxChanges,      \* bound: changes of accounts, projects and members, and logins
    MaxStops         \* bound: times the server or a restore is killed

\* An open session: when it was opened, and with which password.
Session == [opened : Nat, user : Users, password : Nat, late : BOOLEAN]

\* app_users, auth_sessions, projects and project_memberships.
ControlDatabase ==
    [users    : [Users -> {"none", "active", "inactive"}],
     password : [Users -> Nat],
     sessions : SUBSET Session,
     rows     : [Projects -> {"none", "ACTIVE", "INACTIVE"}],
     members  : [Projects -> SUBSET Users]]

ASSUME ControlAssumption ==
    /\ Admins \subseteq Users /\ Admins # {} /\ NoProject \notin Projects
    /\ NoBundle \notin ControlDatabase
    /\ SessionLimit \in Nat \ {0} /\ MaxChanges \in Nat /\ MaxStops \in Nat

VARIABLES
    db,         \* the control database
    store,      \* directory of each project: none, a database, one with its identity
    login,      \* browsers whose password was accepted, with that password
    making,     \* the project being made, and whether that failed
    bundle,     \* the recovery bundle, a database without sessions
    restoring,  \* the restore under way, with what it keeps of the old database
    serving,    \* the server runs
    changes, stops,
    kept        \* (history) the registry before the last restores, or that one was cut

controlVars == <<db, store, login, making, bundle, restoring, serving, changes, stops, kept>>

HasAccount(u) == db.users[u] # "none"
IsActive(u)   == db.users[u] = "active"
Change        == serving /\ changes < MaxChanges /\ changes' = changes + 1
NotMaking     == [project |-> NoProject, failed |-> FALSE]
NotRestoring  == [at |-> "idle"]
LoggedOut     == [user |-> {}, password |-> 0]

SessionsOf(u) == {s \in db.sessions : s.user = u}

-----------------------------------------------------------------------------
CreateUser(u) ==
    /\ ~HasAccount(u) /\ Change
    /\ db' = [db EXCEPT !.users[u] = "active", !.password[u] = changes]
    /\ UNCHANGED <<store, login, making, bundle, restoring, serving, stops, kept>>

\* The last active administrator stays.
DisableUser(u) ==
    /\ IsActive(u) /\ Change
    /\ u \in Admins => \E v \in Admins \ {u} : IsActive(v)
    /\ db' = [db EXCEPT !.users[u] = "inactive", !.sessions = @ \ SessionsOf(u)]
    /\ UNCHANGED <<store, login, making, bundle, restoring, serving, stops, kept>>

EnableUser(u) ==
    /\ db.users[u] = "inactive" /\ Change
    /\ db' = [db EXCEPT !.users[u] = "active"]
    /\ UNCHANGED <<store, login, making, bundle, restoring, serving, stops, kept>>

\* (Operators named ..._M are slips this code could contain.  No definition
\* uses them; they show which property would notice.)
SetPassword_M(u) ==
    /\ HasAccount(u) /\ Change
    /\ db' = [db EXCEPT !.password[u] = changes]
    /\ UNCHANGED <<store, login, making, bundle, restoring, serving, stops, kept>>

\* A new password ends the sessions of the user.
SetPassword(u) ==
    /\ HasAccount(u) /\ Change
    /\ db' = [db EXCEPT !.password[u] = changes, !.sessions = @ \ SessionsOf(u)]
    /\ UNCHANGED <<store, login, making, bundle, restoring, serving, stops, kept>>

\* A session is revoked by logging out or with all of its user, or expires.
EndSession(s) ==
    /\ Change
    /\ db' = [db EXCEPT !.sessions = @ \ {s}]
    /\ UNCHANGED <<store, login, making, bundle, restoring, serving, stops, kept>>

\* The first transaction of a login.
CheckPassword(c, u) ==
    /\ login[c] = LoggedOut /\ IsActive(u) /\ Change
    /\ login' = [login EXCEPT ![c] = [user |-> {u}, password |-> db.password[u]]]
    /\ UNCHANGED <<db, store, making, bundle, restoring, serving, stops, kept>>

\* The second: it looks at the account, not at the password; the oldest session
\* beyond the limit is revoked.  late (history): the password had changed.
OpenSession(c) ==
    /\ login[c] # LoggedOut /\ Change
    /\ LET u   == CHOOSE v \in Users : login[c].user = {v}
           new == [opened |-> changes, user |-> u, password |-> login[c].password,
                   late |-> login[c].password # db.password[u]]
       IN  \/ ~IsActive(u) /\ UNCHANGED db
           \/ /\ IsActive(u) /\ Cardinality(SessionsOf(u)) < SessionLimit
              /\ db' = [db EXCEPT !.sessions = @ \cup {new}]
           \/ /\ IsActive(u) /\ Cardinality(SessionsOf(u)) >= SessionLimit
              /\ \E old \in SessionsOf(u) :
                    /\ \A s \in SessionsOf(u) : old.opened <= s.opened
                    /\ db' = [db EXCEPT !.sessions = (@ \ {old}) \cup {new}]
    /\ login' = [login EXCEPT ![c] = LoggedOut]
    /\ UNCHANGED <<store, making, bundle, restoring, serving, stops, kept>>

-----------------------------------------------------------------------------
\* create_project registers the project with who makes it, then makes its store:
\* a database, and in it the identity.
RegisterProject(p, u) ==
    /\ making = NotMaking /\ db.rows[p] = "none" /\ store[p] = "none"
    /\ u \in Admins /\ IsActive(u) /\ Change
    /\ db' = [db EXCEPT !.rows[p] = "ACTIVE", !.members[p] = {u}]
    /\ making' = [project |-> p, failed |-> FALSE]
    /\ UNCHANGED <<store, login, bundle, restoring, serving, stops, kept>>

MakeStore ==
    /\ making # NotMaking /\ ~making.failed
    /\ LET p == making.project IN
       /\ store' = [store EXCEPT ![p] = IF @ = "none" THEN "database" ELSE "project"]
       /\ making' = IF store[p] = "none" THEN making ELSE NotMaking
    /\ UNCHANGED <<db, login, bundle, restoring, serving, changes, stops, kept>>

\* A step failed: the registration is undone, then the directory removed.
FailProject ==
    /\ making # NotMaking /\ ~making.failed
    /\ db' = [db EXCEPT !.rows[making.project] = "none", !.members[making.project] = {}]
    /\ making' = [making EXCEPT !.failed = TRUE]
    /\ UNCHANGED <<store, login, bundle, restoring, serving, changes, stops, kept>>

RemoveStore ==
    /\ making.failed
    /\ store' = [store EXCEPT ![making.project] = "none"]
    /\ making' = NotMaking
    /\ UNCHANGED <<db, login, bundle, restoring, serving, changes, stops, kept>>

SetStatus(p, status) ==
    /\ db.rows[p] \notin {"none", status} /\ Change
    /\ db' = [db EXCEPT !.rows[p] = status]
    /\ UNCHANGED <<store, login, making, bundle, restoring, serving, stops, kept>>

\* Administrators are in every project and cannot be assigned.
SetMember(p, u, member) ==
    /\ db.rows[p] # "none" /\ HasAccount(u) /\ u \notin Admins /\ Change
    /\ (u \in db.members[p]) # member
    /\ db' = [db EXCEPT !.members[p] = IF member THEN @ \cup {u} ELSE @ \ {u}]
    /\ UNCHANGED <<store, login, making, bundle, restoring, serving, stops, kept>>

-----------------------------------------------------------------------------
\* A bundle may be made while the server runs.
CreateBundle ==
    /\ restoring = NotRestoring
    /\ bundle' = [db EXCEPT !.sessions = {}]
    /\ bundle' # bundle
    /\ UNCHANGED <<db, store, login, making, restoring, serving, changes, stops, kept>>

Stop ==
    /\ serving /\ serving' = FALSE
    /\ making = NotMaking \/ stops < MaxStops
    /\ stops' = IF making = NotMaking THEN stops ELSE stops + 1
    /\ login' = [c \in Clients |-> LoggedOut] /\ making' = NotMaking
    /\ UNCHANGED <<db, store, bundle, restoring, changes, kept>>

Serve ==
    /\ ~serving /\ restoring = NotRestoring /\ serving' = TRUE
    /\ UNCHANGED <<db, store, login, making, bundle, restoring, changes, stops, kept>>

\* What is registered, what is on disk, and the old database.
StartRestore ==
    /\ ~serving /\ restoring = NotRestoring /\ bundle # NoBundle
    /\ restoring' = [at |-> "saved", rows |-> db.rows, members |-> db.members,
                     stores |-> {p \in Projects : store[p] = "project"}, safety |-> db]
    /\ kept' = [kept EXCEPT !.rows = db.rows, !.members = db.members]
    /\ UNCHANGED <<db, store, login, making, bundle, serving, changes, stops>>

\* The database of the bundle, in which all sessions are deleted again.
CopyDatabase ==
    /\ restoring.at = "saved"
    /\ db' = bundle
    /\ restoring' = [restoring EXCEPT !.at = "copied"]
    /\ UNCHANGED <<store, login, making, bundle, serving, changes, stops, kept>>

\* Projects with a database are registered again: as they were, or ACTIVE if only
\* the disk knows them; what the bundle says of a project stands.  Members are
\* added where both the project and the account exist.
Registered(p) ==
    IF bundle.rows[p] # "none" \/ store[p] = "none" THEN bundle.rows[p]
    ELSE IF restoring.rows[p] # "none" THEN restoring.rows[p]
    ELSE IF p \in restoring.stores THEN "ACTIVE" ELSE "none"

MergeRegistry_M ==
    /\ restoring.at = "copied"
    /\ db' = [db EXCEPT !.rows = [p \in Projects |-> Registered(p)]]
    /\ restoring' = [restoring EXCEPT !.at = "merged"]
    /\ UNCHANGED <<store, login, making, bundle, serving, changes, stops, kept>>

MergeRegistry ==
    /\ restoring.at = "copied"
    /\ db' = [db EXCEPT
          !.rows = [p \in Projects |-> Registered(p)],
          !.members = [p \in Projects |->
              @[p] \cup {u \in restoring.members[p] : Registered(p) # "none" /\ HasAccount(u)}]]
    /\ restoring' = [restoring EXCEPT !.at = "merged"]
    /\ UNCHANGED <<store, login, making, bundle, serving, changes, stops, kept>>

\* The event is written and the result validated.
EndRestore ==
    /\ restoring.at = "merged"
    /\ restoring' = NotRestoring
    /\ UNCHANGED <<db, store, login, making, bundle, serving, changes, stops, kept>>

\* A step failed: the old database is copied back.
FailRestore ==
    /\ restoring # NotRestoring
    /\ db' = restoring.safety /\ restoring' = NotRestoring
    /\ UNCHANGED <<store, login, making, bundle, serving, changes, stops, kept>>

KillRestore ==
    /\ restoring # NotRestoring /\ stops < MaxStops /\ stops' = stops + 1
    /\ restoring' = NotRestoring
    /\ kept' = [kept EXCEPT !.cut = @ \/ restoring.at = "copied"]
    /\ UNCHANGED <<db, store, login, making, bundle, serving, changes>>

-----------------------------------------------------------------------------
Nothing == [p \in Projects |-> "none"]
NoMembers == [p \in Projects |-> {}]

\* The first administrator was made by the command line.
ControlInit ==
    /\ \E a \in Admins :
          db = [users    |-> [u \in Users |-> IF u = a THEN "active" ELSE "none"],
                password |-> [u \in Users |-> 0],
                sessions |-> {}, rows |-> Nothing, members |-> NoMembers]
    /\ store = Nothing
    /\ login = [c \in Clients |-> LoggedOut]
    /\ making = NotMaking /\ bundle = NoBundle /\ restoring = NotRestoring
    /\ serving = TRUE /\ changes = 0 /\ stops = 0
    /\ kept = [rows |-> Nothing, members |-> NoMembers, cut |-> FALSE]

AccountNext ==
    \/ \E u \in Users :
          \/ CreateUser(u) \/ DisableUser(u) \/ EnableUser(u) \/ SetPassword(u)
          \/ \E c \in Clients : CheckPassword(c, u)
    \/ \E s \in db.sessions : EndSession(s)
    \/ \E c \in Clients : OpenSession(c)

ProjectNext ==
    \/ \E p \in Projects :
          \/ \E s \in {"ACTIVE", "INACTIVE"} : SetStatus(p, s)
          \/ \E u \in Users : RegisterProject(p, u) \/ \E m \in BOOLEAN : SetMember(p, u, m)
    \/ MakeStore \/ FailProject \/ RemoveStore

RestoreNext ==
    \/ CreateBundle \/ Stop \/ Serve
    \/ StartRestore \/ CopyDatabase \/ MergeRegistry \/ EndRestore \/ FailRestore \/ KillRestore

ControlNext == AccountNext \/ ProjectNext \/ RestoreNext

ControlSpec == ControlInit /\ [][ControlNext]_controlVars

-----------------------------------------------------------------------------
\* Through every restore there is an active administrator, and an open session
\* belongs to an active account and to its password, unless the password changed
\* between the two transactions of the login (accounts.py:327-352, 391-445).
AccessIsCurrent ==
    /\ \E u \in Admins : IsActive(u)
    /\ \A s \in db.sessions :
          IsActive(s.user) /\ (s.late \/ s.password = db.password[s.user])

\* A restore that was not preceded by one killed before its merge leaves every
\* project that has its store registered, with the status it had or the
\* bundle's, and with its members whose accounts are in the bundle.
RegistrySurvives ==
    restoring.at = "merged" =>
        \A p \in Projects :
            store[p] = "project" =>
                /\ db.rows[p] # "none"
                /\ ~kept.cut =>
                      /\ db.rows[p] \in {kept.rows[p], bundle.rows[p]}
                      /\ \A u \in kept.members[p] : HasAccount(u) => u \in db.members[p]
=============================================================================
