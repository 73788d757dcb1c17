------------------------------ MODULE Migration ------------------------------
(***************************************************************************)
(* state.Open: the upgrade of the SQLite database from the version it was  *)
(* left in to the current one, by any number of processes that open it at  *)
(* once, each of which may be killed after any statement or transaction.   *)
(*                                                                         *)
(* The version is read once, at the start, and written once, at the end;   *)
(* in between only the tables and columns tell how far an upgrade came.    *)
(* A column stands for all that its step adds; rows are named by the key   *)
(* that sessions (user, project) and workspaces (user, name) share.  The   *)
(* old sessions of the names are persistent, which is not the default.     *)
(***************************************************************************)
EXTENDS Naturals

CONSTANTS
    Procs,      \* processes that open the database; as names, the rows they insert
    Names,      \* keys of the rows the old version left
    Starts,     \* the versions to upgrade from
    Kills       \* how many processes are killed or meet a failing statement

schemaVersion == 8

ASSUME MigrationAssumption ==
    /\ Procs \cap Names = {}
    /\ Starts \subseteq 0..schemaVersion
    /\ Kills \in Nat

Rows == Procs \cup Names
Tables == {"sessions", "machines", "workspaces"}
Columns == {"key", "id", "workspace_id", "mode", "state", "head_commit"}

VARIABLES
    origin,     \* the version the database had
    stamp,      \* MAX(version) in schema_version; 0 without a row
    cols,       \* the columns of each table; {} if it does not exist
    sess,       \* keys of the sessions
    ws,         \* keys of the rows of machines, later workspaces
    ids,        \* those of each that have an id
    linked,     \* sessions with the workspace_id of their workspace
    persistent, \* workspaces with the mode "persistent"
    pc,         \* next statement of each process
    kills       \* processes that may still be killed

dbVars == <<stamp, cols, sess, ws, ids, linked, persistent>>
vars == <<origin, dbVars, pc, kills>>

Statements == {"version", "sessions0", "workspaces0", "drop", "sessions2", "machines",
    "mode?", "mode", "backfill", "rename?", "rename", "wsId?", "wsId",
    "sessId?", "linkWithId?", "linkWithoutId?", "addId", "addLink", "addBoth",
    "state?", "state", "head?", "head", "clear", "stamp"}

TypeOK ==
    /\ origin \in 0..schemaVersion
    /\ stamp \in 0..schemaVersion
    /\ cols \in [Tables -> SUBSET Columns]
    /\ sess \subseteq Rows
    /\ ws \subseteq Rows
    /\ ids \in [{"sessions", "workspaces"} -> SUBSET Rows]
    /\ linked \subseteq Rows
    /\ persistent \subseteq Rows
    /\ pc \in [Procs -> Statements \cup {"down", "failed", "open"}]
    /\ kills \in 0..Kills

\* The tables as each version of podspawn left them.
SessionColumns(v) ==
    CASE v = 0 -> {} [] v \in 1..5 -> {"key"} [] OTHER -> {"key", "id", "workspace_id"}

MachineColumns(v) == CASE v = 4 -> {"key"} [] v = 5 -> {"key", "mode"} [] OTHER -> {}

WorkspaceColumns(v) ==
    IF v < 6 THEN {}
    ELSE {"key", "mode", "id"} \cup (IF v > 6 THEN {"state"} ELSE {})
                               \cup (IF v > 7 THEN {"head_commit"} ELSE {})

Init ==
    /\ origin \in Starts
    /\ stamp = origin
    /\ cols = [t \in Tables |->
                 CASE t = "sessions" -> SessionColumns(origin)
                   [] t = "machines" -> MachineColumns(origin)
                   [] OTHER -> WorkspaceColumns(origin)]
    /\ sess \in IF origin = 0 THEN {{}} ELSE SUBSET Names
    /\ ws \in IF origin < 4 THEN {{}} ELSE SUBSET Names
    /\ ids = [t \in {"sessions", "workspaces"} |->
                IF origin < 6 THEN {} ELSE IF t = "sessions" THEN sess ELSE ws]
    /\ linked = IF origin < 6 THEN {} ELSE sess \cap ws
    /\ persistent = IF origin < 5 THEN {} ELSE sess \cap ws
    /\ pc = [p \in Procs |-> "version"]
    /\ kills = Kills

Goto(p, from, to) ==
    /\ pc[p] = from
    /\ pc' = [pc EXCEPT ![p] = to]
    /\ UNCHANGED <<origin, kills>>

Exists(t) == cols[t] # {}

\* Where the rows of machines and workspaces are.
WorkspaceTable == IF Exists("workspaces") THEN "workspaces" ELSE "machines"

-----------------------------------------------------------------------------
(* Statements that several steps share.                                    *)

\* tableExists and columnExists: a table that does not exist has no columns.
Check(p, from, present, yes, no) ==
    /\ Goto(p, from, IF present THEN yes ELSE no)
    /\ UNCHANGED dbVars

\* ALTER TABLE t ADD COLUMN c fails without t and with a second c.
CanAdd(t, c) == Exists(t) /\ c \notin cols[t]

\* Open returns an error: the schema is not what the check said.
Fails(p, from) == Check(p, from, FALSE, from, "failed")

AddColumn(p, from, t, c, to) ==
    \/ /\ CanAdd(t, c)
       /\ Goto(p, from, to)
       /\ cols' = [cols EXCEPT ![t] = @ \cup {c}]
       /\ UNCHANGED <<stamp, sess, ws, ids, linked, persistent>>
    \/ ~CanAdd(t, c) /\ Fails(p, from)

\* CREATE TABLE IF NOT EXISTS.
CreateTable(p, from, t, columns, to) ==
    /\ Goto(p, from, to)
    /\ cols' = [cols EXCEPT ![t] = IF @ = {} THEN columns ELSE @]
    /\ UNCHANGED <<stamp, sess, ws, ids, linked, persistent>>

\* ensureSessionsTable and ensureWorkspacesTable also index an id, which an
\* old table does not have.
EnsureTable(p, from, t, columns, to) ==
    \/ /\ Exists(t) => "id" \in cols[t]
       /\ CreateTable(p, from, t, columns, to)
    \/ /\ Exists(t) /\ "id" \notin cols[t]
       /\ Fails(p, from)

-----------------------------------------------------------------------------
(* migrate: from the version that is read, through every later one.        *)

FirstStatement(v) ==
    CASE v = 0 -> "sessions0"
      [] v \in {1, 2} -> "drop"
      [] v = 3 -> "machines"
      [] v = 4 -> "mode?"
      [] v = 5 -> "rename?"
      [] v = 6 -> "state?"
      [] v = 7 -> "head?"
      [] OTHER -> "clear"

ReadVersion(p) ==
    /\ Goto(p, "version", FirstStatement(stamp))
    /\ UNCHANGED dbVars

\* A database without a version gets the schema of version 7.
CreateAll(p) ==
    \/ EnsureTable(p, "sessions0", "sessions", {"key", "id", "workspace_id"}, "workspaces0")
    \/ EnsureTable(p, "workspaces0", "workspaces",
                   {"key", "mode", "id", "state", "head_commit"}, "head?")

\* "Sessions are ephemeral; safe to recreate".
DropSessions(p) ==
    /\ Goto(p, "drop", "sessions2")
    /\ cols' = [cols EXCEPT !["sessions"] = {}]
    /\ sess' = {}
    /\ ids' = [ids EXCEPT !["sessions"] = {}]
    /\ linked' = {}
    /\ UNCHANGED <<stamp, ws, persistent>>

\* The error of the statement is ignored.
DropFails(p) == Check(p, "drop", FALSE, "drop", "sessions2")

V2toV3(p) ==
    \/ DropSessions(p) \/ DropFails(p)
    \/ EnsureTable(p, "sessions2", "sessions", {"key", "id", "workspace_id"}, "machines")

V3toV4(p) == CreateTable(p, "machines", "machines", {"key"}, "mode?")

\* The column and its values are two statements.
BackfillModes(p) ==
    \/ /\ Exists("machines") /\ Exists("sessions")
       /\ Goto(p, "backfill", "rename?")
       /\ persistent' = IF WorkspaceTable = "machines" THEN ws \cap sess ELSE persistent
       /\ UNCHANGED <<stamp, cols, sess, ws, ids, linked>>
    \/ ~(Exists("machines") /\ Exists("sessions")) /\ Fails(p, "backfill")

V4toV5(p) ==
    \/ Check(p, "mode?", "mode" \in cols["machines"], "rename?", "mode")
    \/ AddColumn(p, "mode", "machines", "mode", "backfill")
    \/ BackfillModes(p)

CanRename == Exists("machines") /\ ~Exists("workspaces")

RenameMachines(p) ==
    \/ /\ CanRename
       /\ Goto(p, "rename", "wsId?")
       /\ cols' = [cols EXCEPT !["workspaces"] = cols["machines"], !["machines"] = {}]
       /\ UNCHANGED <<stamp, sess, ws, ids, linked, persistent>>
    \/ ~CanRename /\ Fails(p, "rename")

\* Mutant: the column and the ids are two transactions, and the second is lost.
AddWorkspaceIdsUnfilled(p) ==
    AddColumn(p, "wsId", "workspaces", "id", "sessId?")

\* addIDColumnAndUniqueIndex, one transaction.
AddWorkspaceIds(p) ==
    \/ /\ CanAdd("workspaces", "id")
       /\ Goto(p, "wsId", "sessId?")
       /\ cols' = [cols EXCEPT !["workspaces"] = @ \cup {"id"}]
       /\ ids' = [ids EXCEPT !["workspaces"] = ws]
       /\ UNCHANGED <<stamp, sess, ws, linked, persistent>>
    \/ ~CanAdd("workspaces", "id") /\ Fails(p, "wsId")

\* addSessionIDsAndLink, one transaction for the columns found missing.
AddSessionColumns(p, from, missing) ==
    LET possible == \A c \in missing : CanAdd("sessions", c)
    IN  \/ /\ possible
           /\ Goto(p, from, "state?")
           /\ cols' = [cols EXCEPT !["sessions"] = @ \cup missing]
           /\ ids' = [ids EXCEPT !["sessions"] = IF "id" \in missing THEN sess ELSE @]
           /\ linked' = IF "workspace_id" \in missing THEN sess \cap ws ELSE linked
           /\ UNCHANGED <<stamp, sess, ws, persistent>>
        \/ ~possible /\ Fails(p, from)

\* Mutant: the sentinel on the renaming is left out.
CheckRenamedUnguarded(p) == Check(p, "rename?", FALSE, "wsId?", "rename")

CheckRenamed(p) == Check(p, "rename?", Exists("workspaces"), "wsId?", "rename")

V5toV6(p) ==
    \/ CheckRenamed(p) \/ RenameMachines(p)
    \/ Check(p, "wsId?", "id" \in cols["workspaces"], "sessId?", "wsId")
    \/ AddWorkspaceIds(p)
    \/ Check(p, "sessId?", "id" \in cols["sessions"], "linkWithId?", "linkWithoutId?")
    \/ Check(p, "linkWithId?", "workspace_id" \in cols["sessions"], "state?", "addLink")
    \/ Check(p, "linkWithoutId?", "workspace_id" \in cols["sessions"], "addId", "addBoth")
    \/ AddSessionColumns(p, "addLink", {"workspace_id"})
    \/ AddSessionColumns(p, "addId", {"id"})
    \/ AddSessionColumns(p, "addBoth", {"id", "workspace_id"})

\* Mutant: the loop ends one version early.
V6toV7Last(p) ==
    \/ Check(p, "state?", "state" \in cols["workspaces"], "clear", "state")
    \/ AddColumn(p, "state", "workspaces", "state", "clear")

V6toV7(p) ==
    \/ Check(p, "state?", "state" \in cols["workspaces"], "head?", "state")
    \/ AddColumn(p, "state", "workspaces", "state", "head?")

V7toV8(p) ==
    \/ Check(p, "head?", "head_commit" \in cols["workspaces"], "clear", "head")
    \/ AddColumn(p, "head", "workspaces", "head_commit", "clear")

\* Mutant: the version that the loop counts to is written one too high.
ConsolidateNext(p) ==
    \/ Goto(p, "clear", "stamp") /\ stamp' = 0
       /\ UNCHANGED <<cols, sess, ws, ids, linked, persistent>>
    \/ Goto(p, "stamp", "open") /\ stamp' = schemaVersion + 1
       /\ UNCHANGED <<cols, sess, ws, ids, linked, persistent>>

\* consolidateSchemaVersion: DELETE, then INSERT.
Consolidate(p) ==
    /\ \/ Goto(p, "clear", "stamp") /\ stamp' = 0
       \/ Goto(p, "stamp", "open") /\ stamp' = schemaVersion
    /\ UNCHANGED <<cols, sess, ws, ids, linked, persistent>>

Migrate(p) ==
    \/ ReadVersion(p) \/ CreateAll(p) \/ V2toV3(p) \/ V3toV4(p) \/ V4toV5(p)
    \/ V5toV6(p) \/ V6toV7(p) \/ V7toV8(p) \/ Consolidate(p)

-----------------------------------------------------------------------------
(* The rows a process inserts once it has the store open.                  *)
Insert(p) ==
    /\ pc[p] = "open"
    /\ p \notin sess
    /\ sess' = sess \cup {p}
    /\ ws' = ws \cup {p}
    /\ ids' = [t \in DOMAIN ids |-> ids[t] \cup {p}]
    /\ linked' = linked \cup {p}
    /\ UNCHANGED <<origin, stamp, cols, persistent, pc, kills>>

\* Killed, or one of its statements fails for another reason: SQLITE_BUSY, a
\* full disk.  A transaction is rolled back.
Kill(p) ==
    /\ kills > 0
    /\ pc[p] \in Statements
    /\ kills' = kills - 1
    /\ pc' = [pc EXCEPT ![p] = "down"]
    /\ UNCHANGED <<origin, dbVars>>

\* The next command, login or cleanup pass opens the database again.
Reopen(p) ==
    /\ pc[p] \in {"down", "failed"}
    /\ pc' = [pc EXCEPT ![p] = "version"]
    /\ UNCHANGED <<origin, dbVars, kills>>

Next == \E p \in Procs : Migrate(p) \/ Insert(p) \/ Kill(p) \/ Reopen(p)

Spec == Init /\ [][Next]_vars

(* A process that migrates goes on; the timer of the cleanup passes opens  *)
(* the database again every minute.                                        *)
Fairness == \A p \in Procs : WF_vars(Migrate(p) \/ Reopen(p))

FairSpec == Spec /\ Fairness

-----------------------------------------------------------------------------
Current ==
    /\ {"key", "id", "workspace_id"} \subseteq cols["sessions"]
    /\ {"key", "mode", "id", "state", "head_commit"} \subseteq cols["workspaces"]

(* What makes OpenedIsCurrent inductive: what the version that was read     *)
(* and the checks that were made tell of the schema, whoever else changes   *)
(* it meanwhile.                                                            *)

Checked == {"state?", "state", "head?", "head", "clear", "stamp", "open"}
Linking == {"linkWithId?", "linkWithoutId?", "addId", "addLink", "addBoth"}

\* What p has found out, or has seen to itself.
KnownTo(p) ==
    /\ pc[p] \in Checked \cup {"linkWithId?", "addLink", "workspaces0"} =>
         "id" \in cols["sessions"]
    /\ pc[p] \in Checked \cup {"addId", "workspaces0"} =>
         "workspace_id" \in cols["sessions"]
    /\ pc[p] \in {"backfill", "rename?", "rename"} =>
         "mode" \in cols["machines"] \/ Exists("workspaces")
    /\ pc[p] \in Checked \cup Linking \cup {"sessId?"} => "id" \in cols["workspaces"]
    /\ pc[p] \in {"head?", "head", "clear", "stamp", "open"} =>
         "state" \in cols["workspaces"]
    /\ pc[p] \in {"clear", "stamp", "open"} => "head_commit" \in cols["workspaces"]

StampKnown ==
    /\ stamp \in {0, origin, schemaVersion}
    /\ stamp = 5 => "mode" \in cols["machines"] \/ Exists("workspaces")
    /\ stamp > 5 => {"id", "workspace_id"} \subseteq cols["sessions"]
                    /\ "id" \in cols["workspaces"]
    /\ stamp > 6 => "state" \in cols["workspaces"]
    /\ stamp > 7 => "head_commit" \in cols["workspaces"]
    /\ stamp = 0 /\ origin # 0 => Current

TablesKnown ==
    /\ \A t \in Tables : Exists(t) => "key" \in cols[t]
    /\ Exists("workspaces") => "mode" \in cols["workspaces"]

\* A database that began empty, and one whose version is being rewritten.
FreshKnown(p) ==
    /\ pc[p] \in {"sessions0", "workspaces0"} => origin = 0 \/ Current
    /\ pc[p] \notin {"drop", "sessions2"}
    /\ origin = 0 => pc[p] \in {"version", "sessions0", "workspaces0", "head?", "head",
                                "clear", "stamp", "open", "down", "failed"}

FreshTables ==
    origin = 0 =>
        /\ Exists("sessions") => {"id", "workspace_id"} \subseteq cols["sessions"]
        /\ Exists("workspaces") => {"id", "state", "head_commit"} \subseteq cols["workspaces"]

SchemaKnown ==
    origin \notin {1, 2} =>
        /\ StampKnown /\ TablesKnown /\ FreshTables
        /\ \A p \in Procs : KnownTo(p) /\ FreshKnown(p)

-----------------------------------------------------------------------------
(* Whoever has the store open finds every table and column it uses, however *)
(* far other processes came with the same upgrade or were killed in it.     *)
(* Versions 1 and 2 are excepted: a second process drops the sessions again.*)
OpenedIsCurrent ==
    origin \notin {1, 2} => (\A p \in Procs : pc[p] = "open" => Current)

(* No upgrade leaves a row that there is without its id, or a session of a  *)
(* workspace without the link to it, from whatever version it began         *)
(* (state.go: "either both columns land with their invariants or neither    *)
(* does").  Versions 1 and 2 lose their sessions on purpose, and so have no *)
(* old rows to complete.                                                    *)
UpgradedRows ==
    (\E p \in Procs : pc[p] = "open") =>
        /\ sess \subseteq ids["sessions"]
        /\ ws \subseteq ids["workspaces"]
        /\ sess \cap ws \subseteq linked

(* After the last interruption the upgrade completes, whatever the ones     *)
(* before left behind.  Two processes that upgrade from version 1 or 2 may  *)
(* drop the sessions of each other and fail again and again; an upgrade     *)
(* from version 4 is what RetryResumes is about.                            *)
DatabaseOpens ==
    \A p \in Procs : <>(origin \in {1, 2, 4} \/ pc[p] = "open")

(* An upgrade that was interrupted is completed by a retry (state.go: "Each *)
(* step is guarded by a sentinel so that if the process crashes between     *)
(* steps, a retry resumes at the right point").                             *)
RetryResumes == \A p \in Procs : <>(pc[p] = "open")

(* An upgrade gives a workspace the mode that its session had, as the test  *)
(* of the upgrade from version 4 expects.                                   *)
ModesKept ==
    (\E p \in Procs : pc[p] = "open") => Names \cap sess \cap ws \subseteq persistent
=============================================================================
