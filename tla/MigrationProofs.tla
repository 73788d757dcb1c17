--------------------------- MODULE MigrationProofs ---------------------------
(***************************************************************************)
(* Proofs about the upgrade of the database, for any number of processes   *)
(* that open it, of interruptions and of rows, and for every old version.  *)
(***************************************************************************)
EXTENDS Migration, TLAPS

-----------------------------------------------------------------------------
(* Type correctness.                                                       *)

(* A check of a table or a column, and a failure, keep the types.          *)
LEMMA CheckTypes ==
    ASSUME TypeOK, NEW p \in Procs, NEW from, NEW present,
           NEW yes \in Statements, NEW no \in Statements \cup {"failed"},
           Check(p, from, present, yes, no)
    PROVE  TypeOK'
  BY DEF TypeOK, Check, Goto, dbVars

(* An ALTER TABLE that finds another schema ends the process's attempt.    *)
LEMMA FailTypes ==
    ASSUME TypeOK, NEW p \in Procs, NEW from, Fails(p, from)
    PROVE  TypeOK'
  BY DEF TypeOK, Fails, Check, Goto, dbVars

(* The statements that change the schema keep the types.                   *)
LEMMA AddColumnTypes ==
    ASSUME TypeOK, NEW p \in Procs, NEW from, NEW t \in Tables, NEW c \in Columns,
           NEW to \in Statements, AddColumn(p, from, t, c, to)
    PROVE  TypeOK'
<1>1. CASE Fails(p, from) BY <1>1, FailTypes
<1>2. CASE ~Fails(p, from)
  BY <1>2 DEF AddColumn, TypeOK, Goto
<1> QED BY <1>1, <1>2

(* CREATE TABLE IF NOT EXISTS keeps the types.                             *)
LEMMA CreateTableTypes ==
    ASSUME TypeOK, NEW p \in Procs, NEW from, NEW t \in Tables, NEW new \in SUBSET Columns,
           NEW to \in Statements, CreateTable(p, from, t, new, to)
    PROVE  TypeOK'
  BY DEF CreateTable, TypeOK, Goto

(* So does creating a table together with its index.                       *)
LEMMA EnsureTableTypes ==
    ASSUME TypeOK, NEW p \in Procs, NEW from, NEW t \in Tables, NEW new \in SUBSET Columns,
           NEW to \in Statements, EnsureTable(p, from, t, new, to)
    PROVE  TypeOK'
  BY CreateTableTypes, FailTypes DEF EnsureTable

(* So does the transaction on the sessions.                                *)
LEMMA AddSessionColumnsTypes ==
    ASSUME TypeOK, NEW p \in Procs, NEW from, NEW missing \in SUBSET Columns,
           AddSessionColumns(p, from, missing)
    PROVE  TypeOK'
<1>1. CASE Fails(p, from) BY <1>1, FailTypes
<1>2. CASE ~Fails(p, from)
  BY <1>2 DEF AddSessionColumns, TypeOK, Goto, Tables, Statements
<1> QED BY <1>1, <1>2

(* A step of the migration keeps the types.                                *)
LEMMA MigrateTypes ==
    ASSUME TypeOK, NEW p \in Procs, Migrate(p)
    PROVE  TypeOK'
<1> USE DEF Statements, Tables, Columns
<1>1. CASE ReadVersion(p)
  <2>1. FirstStatement(stamp) \in Statements BY DEF FirstStatement
  <2> QED BY <1>1, <2>1 DEF ReadVersion, TypeOK, Goto, dbVars
<1>2. CASE CreateAll(p) BY <1>2, EnsureTableTypes DEF CreateAll
<1>3. CASE V2toV3(p)
  <2>1. CASE DropSessions(p) BY <2>1 DEF DropSessions, TypeOK, Goto
  <2>2. CASE DropFails(p) BY <2>2, CheckTypes DEF DropFails
  <2> QED BY <1>3, <2>1, <2>2, EnsureTableTypes DEF V2toV3
<1>4. CASE V3toV4(p) BY <1>4, CreateTableTypes DEF V3toV4
<1>5. CASE V4toV5(p)
  <2>1. CASE BackfillModes(p)
    <3>1. CASE Fails(p, "backfill") BY <3>1, FailTypes
    <3>2. CASE ~Fails(p, "backfill") BY <2>1, <3>2 DEF BackfillModes, TypeOK, Goto
    <3> QED BY <3>1, <3>2
  <2>2. CASE ~BackfillModes(p) BY <1>5, <2>2, CheckTypes, AddColumnTypes DEF V4toV5
  <2> QED BY <2>1, <2>2
<1>6. CASE V5toV6(p)
  <2>1. CASE RenameMachines(p)
    <3>1. CASE Fails(p, "rename") BY <3>1, FailTypes
    <3>2. CASE ~Fails(p, "rename") BY <2>1, <3>2 DEF RenameMachines, TypeOK, Goto
    <3> QED BY <3>1, <3>2
  <2>2. CASE AddWorkspaceIds(p)
    <3>1. CASE Fails(p, "wsId") BY <3>1, FailTypes
    <3>2. CASE ~Fails(p, "wsId") BY <2>2, <3>2 DEF AddWorkspaceIds, TypeOK, Goto
    <3> QED BY <3>1, <3>2
  <2>3. CASE ~RenameMachines(p) /\ ~AddWorkspaceIds(p)
    BY <1>6, <2>3, CheckTypes, AddSessionColumnsTypes DEF V5toV6, CheckRenamed
  <2> QED BY <2>1, <2>2, <2>3
<1>7. CASE V6toV7(p) BY <1>7, CheckTypes, AddColumnTypes DEF V6toV7
<1>8. CASE V7toV8(p) BY <1>8, CheckTypes, AddColumnTypes DEF V7toV8
<1>9. CASE Consolidate(p) BY <1>9 DEF Consolidate, TypeOK, Goto, schemaVersion
<1> QED BY <1>1, <1>2, <1>3, <1>4, <1>5, <1>6, <1>7, <1>8, <1>9 DEF Migrate

(* Every variable keeps its type.                                          *)
THEOREM TypeCorrect == Spec => []TypeOK
<1> USE DEF Tables, Columns, schemaVersion
<1>1. Init => TypeOK
  BY MigrationAssumption
  DEF Init, TypeOK, Rows, Statements, SessionColumns, MachineColumns, WorkspaceColumns
<1>2. TypeOK /\ [Next]_vars => TypeOK'
  <2> SUFFICES ASSUME TypeOK, [Next]_vars PROVE TypeOK' OBVIOUS
  <2>1. ASSUME NEW p \in Procs, Migrate(p) PROVE TypeOK' BY <2>1, MigrateTypes
  <2>2. ASSUME NEW p \in Procs, Insert(p) PROVE TypeOK'
    BY <2>2 DEF Insert, TypeOK, Rows
  <2>3. ASSUME NEW p \in Procs, Kill(p) \/ Reopen(p) PROVE TypeOK'
    BY <2>3, MigrationAssumption DEF Kill, Reopen, TypeOK, dbVars, Statements
  <2>4. CASE UNCHANGED vars BY <2>4 DEF vars, dbVars, TypeOK
  <2> QED BY <2>1, <2>2, <2>3, <2>4 DEF Next
<1> QED BY <1>1, <1>2, PTL DEF Spec

-----------------------------------------------------------------------------
(* What the processes know of the schema.                                  *)

\* Nobody takes away a column that somebody may know of.
Grows ==
    /\ cols["sessions"] \subseteq cols'["sessions"]
    /\ cols["workspaces"] \subseteq cols'["workspaces"]
    /\ "mode" \in cols["machines"] => "mode" \in cols'["machines"] \/ Exists("workspaces")'

(* What a process knows stays true while another one extends the schema:   *)
(* only what is said of the process that moves is left to show.            *)
LEMMA OthersStillKnow ==
    ASSUME TypeOK, SchemaKnown, origin \notin {1, 2}, UNCHANGED origin,
           NEW p \in Procs, NEW to, pc' = [pc EXCEPT ![p] = to], Grows,
           StampKnown', TablesKnown', FreshTables', KnownTo(p)', FreshKnown(p)'
    PROVE  SchemaKnown'
<1>1. ASSUME NEW q \in Procs, q # p
      PROVE  KnownTo(q)' /\ FreshKnown(q)'
  <2>1. pc'[q] = pc[q] BY <1>1 DEF TypeOK
  <2>2. KnownTo(q) /\ FreshKnown(q) BY DEF SchemaKnown
  <2>3. Exists("workspaces") => Exists("workspaces")' BY DEF Grows, Exists, TypeOK, Tables
  <2>4. KnownTo(q)' BY <2>1, <2>2, <2>3 DEF KnownTo, Grows
  <2>5. Current => Current' BY DEF Current, Grows
  <2>6. FreshKnown(q)' BY <2>1, <2>2, <2>5 DEF FreshKnown
  <2> QED BY <2>4, <2>6
<1> QED BY <1>1 DEF SchemaKnown

(* A process that only looked at the schema, failed, was killed or begins  *)
(* again tells nobody anything new.                                        *)
LEMMA LookingKeeps ==
    ASSUME TypeOK, SchemaKnown, origin \notin {1, 2}, UNCHANGED <<origin, dbVars>>,
           NEW p \in Procs, NEW to, pc' = [pc EXCEPT ![p] = to],
           KnownTo(p)', FreshKnown(p)'
    PROVE  SchemaKnown'
<1>1. Grows BY DEF Grows, dbVars, Exists
<1>2. StampKnown' /\ TablesKnown' /\ FreshTables'
  BY DEF SchemaKnown, StampKnown, TablesKnown, FreshTables, dbVars, Exists, Current
<1> QED BY <1>1, <1>2, OthersStillKnow

(* Failing, being killed and beginning again, in particular.               *)
LEMMA RestartKeeps ==
    ASSUME TypeOK, SchemaKnown, origin \notin {1, 2}, UNCHANGED <<origin, dbVars>>,
           NEW p \in Procs, NEW to \in {"down", "failed", "version"},
           pc' = [pc EXCEPT ![p] = to]
    PROVE  SchemaKnown'
<1>1. pc'[p] = to BY DEF TypeOK
<1>2. KnownTo(p)' BY <1>1 DEF KnownTo, Checked, Linking
<1>3. FreshKnown(p)' BY <1>1 DEF FreshKnown
<1> QED BY <1>2, <1>3, LookingKeeps

(* A statement that finds another schema than was checked changes nothing. *)
LEMMA FailKeeps ==
    ASSUME TypeOK, SchemaKnown, origin \notin {1, 2}, NEW p \in Procs, NEW from,
           Fails(p, from)
    PROVE  SchemaKnown'
  BY RestartKeeps DEF Fails, Check, Goto

(* A check that found a column leads where the column is relied on, and    *)
(* one that did not leads to the statement that adds it.                   *)
LEMMA ChecksKeep ==
    ASSUME TypeOK, SchemaKnown, origin \notin {1, 2}, NEW p \in Procs,
           \/ Check(p, "mode?", "mode" \in cols["machines"], "rename?", "mode")
           \/ CheckRenamed(p)
           \/ Check(p, "wsId?", "id" \in cols["workspaces"], "sessId?", "wsId")
           \/ Check(p, "sessId?", "id" \in cols["sessions"], "linkWithId?", "linkWithoutId?")
           \/ Check(p, "linkWithId?", "workspace_id" \in cols["sessions"], "state?", "addLink")
           \/ Check(p, "linkWithoutId?", "workspace_id" \in cols["sessions"], "addId", "addBoth")
           \/ Check(p, "state?", "state" \in cols["workspaces"], "head?", "state")
           \/ Check(p, "head?", "head_commit" \in cols["workspaces"], "clear", "head")
    PROVE  SchemaKnown'
<1>1. PICK to : pc' = [pc EXCEPT ![p] = to] BY DEF Check, CheckRenamed, Goto
<1>2. UNCHANGED <<origin, dbVars>> BY DEF Check, CheckRenamed, Goto
<1>3. KnownTo(p) /\ FreshKnown(p) BY DEF SchemaKnown
<1>4. cols' = cols /\ (Exists("workspaces")' <=> Exists("workspaces")) BY <1>2 DEF dbVars, Exists
<1>5. KnownTo(p)'
  BY <1>3, <1>4 DEF KnownTo, Checked, Linking, Check, CheckRenamed, Goto, TypeOK
<1>6. FreshKnown(p)'
  BY <1>2, <1>3 DEF FreshKnown, Check, CheckRenamed, Goto, TypeOK
<1> QED BY <1>1, <1>2, <1>5, <1>6, LookingKeeps

(* ALTER TABLE workspaces ADD COLUMN for state and head_commit.            *)
LEMMA AddColumnKeeps ==
    ASSUME TypeOK, SchemaKnown, origin \notin {1, 2}, NEW p \in Procs,
           \/ AddColumn(p, "mode", "machines", "mode", "backfill")
           \/ AddColumn(p, "state", "workspaces", "state", "head?")
           \/ AddColumn(p, "head", "workspaces", "head_commit", "clear")
    PROVE  SchemaKnown'
<1>1. CASE \E from \in Statements : Fails(p, from) BY <1>1, FailKeeps
<1>2. CASE ~\E from \in Statements : Fails(p, from)
  <2> USE DEF TypeOK, Tables, Columns
  <2>1. /\ \E to : pc' = [pc EXCEPT ![p] = to]
        /\ UNCHANGED <<origin, stamp>>
    BY <1>2 DEF AddColumn, Goto, Statements
  <2>2. \E t \in {"machines", "workspaces"}, c \in {"mode", "state", "head_commit"} :
            Exists(t) /\ cols' = [cols EXCEPT ![t] = @ \cup {c}]
    BY <1>2 DEF AddColumn, Goto, Statements, CanAdd
  <2>3. /\ \A t \in Tables : cols[t] \subseteq cols'[t]
        /\ \A t \in Tables : Exists(t)' <=> Exists(t)
        /\ cols'["sessions"] = cols["sessions"]
    BY <2>2 DEF Exists
  <2>4. Grows BY <2>3 DEF Grows
  <2>5. StampKnown' BY <2>1, <2>3 DEF SchemaKnown, StampKnown, Current
  <2>6. TablesKnown' BY <2>3 DEF SchemaKnown, TablesKnown
  <2>7. FreshTables' BY <2>1, <2>3 DEF SchemaKnown, FreshTables
  <2>8. KnownTo(p) /\ FreshKnown(p) BY DEF SchemaKnown
  <2>9. KnownTo(p)'
    BY <1>2, <2>3, <2>8 DEF AddColumn, Goto, Statements, KnownTo, Checked, Linking
  <2>10. FreshKnown(p)'
    BY <1>2, <2>8 DEF AddColumn, Goto, Statements, FreshKnown
  <2> QED BY <2>1, <2>4, <2>5, <2>6, <2>7, <2>9, <2>10, OthersStillKnow
<1> QED BY <1>1, <1>2

(* A database without a version gets whole tables, or has them already.    *)
LEMMA CreateAllKeeps ==
    ASSUME TypeOK, SchemaKnown, origin \notin {1, 2}, NEW p \in Procs, CreateAll(p)
    PROVE  SchemaKnown'
<1>1. CASE \E from \in Statements : Fails(p, from) BY <1>1, FailKeeps
<1>2. CASE ~\E from \in Statements : Fails(p, from)
  <2> USE DEF TypeOK, Tables, Columns
  <2> DEFINE Full(t) == IF t = "sessions" THEN {"key", "id", "workspace_id"}
                        ELSE {"key", "mode", "id", "state", "head_commit"}
  <2>1. PICK t \in {"sessions", "workspaces"} :
            cols' = [cols EXCEPT ![t] = IF @ = {} THEN Full(t) ELSE @]
    BY <1>2 DEF CreateAll, EnsureTable, CreateTable, Goto, Statements
  <2>2. /\ \E to : pc' = [pc EXCEPT ![p] = to]
        /\ UNCHANGED <<origin, stamp>>
        /\ pc[p] \in {"sessions0", "workspaces0"}
    BY <1>2 DEF CreateAll, EnsureTable, CreateTable, Goto, Statements
  <2>3. /\ \A s \in Tables : cols[s] \subseteq cols'[s]
        /\ \A s \in Tables : Exists(s) => cols'[s] = cols[s]
        /\ \A s \in Tables : Exists(s)' => cols'[s] \in {cols[s], Full(s)}
        /\ \A s \in Tables \ {t} : cols'[s] = cols[s]
    BY <2>1 DEF Exists
  <2>4. Grows BY <2>3 DEF Grows, Exists
  <2>5. StampKnown' BY <2>2, <2>3 DEF SchemaKnown, StampKnown, Current, Exists
  <2>6. TablesKnown' BY <2>3 DEF SchemaKnown, TablesKnown, Exists
  <2>7. FreshTables' BY <2>2, <2>3 DEF SchemaKnown, FreshTables, Exists
  <2>8. KnownTo(p) /\ FreshKnown(p) BY DEF SchemaKnown
  <2>9. KnownTo(p)' /\ FreshKnown(p)'
    <3>1. CASE pc[p] = "sessions0"
      <4>1. pc'[p] = "workspaces0" /\ cols' =
              [cols EXCEPT !["sessions"] = IF @ = {} THEN Full("sessions") ELSE @]
        BY <1>2, <3>1 DEF CreateAll, EnsureTable, CreateTable, Goto, Statements
      <4>2. cols["sessions"] # {} => {"id", "workspace_id"} \subseteq cols["sessions"]
        BY <2>8, <3>1 DEF FreshKnown, Current, SchemaKnown, FreshTables, Exists
      <4>3. {"id", "workspace_id"} \subseteq cols'["sessions"] BY <4>1, <4>2
      <4>4. KnownTo(p)' BY <4>1, <4>3 DEF KnownTo, Checked, Linking
      <4>5. Current => Current' BY <2>3 DEF Current
      <4>6. FreshKnown(p)' BY <2>2, <2>8, <3>1, <4>1, <4>5 DEF FreshKnown
      <4> QED BY <4>4, <4>6
    <3>2. CASE pc[p] = "workspaces0"
      <4>1. pc'[p] = "head?" /\ cols' =
              [cols EXCEPT !["workspaces"] = IF @ = {} THEN Full("workspaces") ELSE @]
        BY <1>2, <3>2 DEF CreateAll, EnsureTable, CreateTable, Goto, Statements
      <4>2. cols["workspaces"] # {} => {"id", "state"} \subseteq cols["workspaces"]
        BY <2>8, <3>2 DEF FreshKnown, Current, SchemaKnown, FreshTables, Exists
      <4>3. {"id", "state"} \subseteq cols'["workspaces"] BY <4>1, <4>2
      <4>4. KnownTo(p)' BY <2>3, <2>8, <3>2, <4>1, <4>3 DEF KnownTo, Checked, Linking
      <4>5. FreshKnown(p)' BY <2>2, <2>8, <4>1 DEF FreshKnown
      <4> QED BY <4>4, <4>5
    <3> QED BY <2>2, <3>1, <3>2
  <2> QED BY <2>2, <2>4, <2>5, <2>6, <2>7, <2>9, OthersStillKnow
<1> QED BY <1>1, <1>2

(* The machines of an old version: created, given their modes, renamed.    *)
LEMMA MachinesKeep ==
    ASSUME TypeOK, SchemaKnown, origin \notin {1, 2}, NEW p \in Procs,
           V3toV4(p) \/ BackfillModes(p) \/ RenameMachines(p)
    PROVE  SchemaKnown'
<1> USE DEF TypeOK, Tables, Columns
<1>1. CASE V3toV4(p)
  <2>1. /\ pc[p] = "machines" /\ pc' = [pc EXCEPT ![p] = "mode?"]
        /\ UNCHANGED <<origin, stamp>>
        /\ cols' = [cols EXCEPT !["machines"] = IF @ = {} THEN {"key"} ELSE @]
    BY <1>1 DEF V3toV4, CreateTable, Goto
  <2>2. /\ cols["machines"] \subseteq cols'["machines"]
        /\ cols'["sessions"] = cols["sessions"] /\ cols'["workspaces"] = cols["workspaces"]
    BY <2>1
  <2>3. Grows BY <2>2 DEF Grows
  <2>4. StampKnown' BY <2>1, <2>2 DEF SchemaKnown, StampKnown, Current, Exists
  <2>5. TablesKnown' BY <2>1 DEF SchemaKnown, TablesKnown, Exists
  <2>6. FreshTables' BY <2>1, <2>2 DEF SchemaKnown, FreshTables, Exists
  <2>7. KnownTo(p)' BY <2>1 DEF KnownTo, Checked, Linking
  <2>8. FreshKnown(p)' BY <2>1 DEF SchemaKnown, FreshKnown
  <2> QED BY <2>1, <2>3, <2>4, <2>5, <2>6, <2>7, <2>8, OthersStillKnow
<1>2. CASE BackfillModes(p)
  <2>1. CASE Fails(p, "backfill") BY <2>1, FailKeeps
  <2>2. CASE ~Fails(p, "backfill")
    <3>1. /\ pc[p] = "backfill" /\ pc' = [pc EXCEPT ![p] = "rename?"]
          /\ UNCHANGED <<origin, stamp, cols>>
      BY <1>2, <2>2 DEF BackfillModes, Goto
    <3>2. Grows BY <3>1 DEF Grows
    <3>3. StampKnown' /\ TablesKnown' /\ FreshTables'
      BY <3>1 DEF SchemaKnown, StampKnown, TablesKnown, FreshTables, Current, Exists
    <3>4. KnownTo(p)' BY <3>1 DEF SchemaKnown, KnownTo, Checked, Linking, Exists
    <3>5. FreshKnown(p)' BY <3>1 DEF SchemaKnown, FreshKnown
    <3> QED BY <3>1, <3>2, <3>3, <3>4, <3>5, OthersStillKnow
  <2> QED BY <2>1, <2>2
<1>3. CASE RenameMachines(p)
  <2>1. CASE Fails(p, "rename") BY <2>1, FailKeeps
  <2>2. CASE ~Fails(p, "rename")
    <3>1. /\ pc[p] = "rename" /\ pc' = [pc EXCEPT ![p] = "wsId?"]
          /\ UNCHANGED <<origin, stamp>>
          /\ cols["machines"] # {} /\ cols["workspaces"] = {}
          /\ cols' = [cols EXCEPT !["workspaces"] = cols["machines"], !["machines"] = {}]
      BY <1>3, <2>2 DEF RenameMachines, CanRename, Goto, Exists
    <3>2. /\ cols'["workspaces"] = cols["machines"] /\ cols'["machines"] = {}
          /\ cols'["sessions"] = cols["sessions"]
      BY <3>1
    <3>3. "mode" \in cols["machines"] /\ "key" \in cols["machines"]
      BY <3>1 DEF SchemaKnown, KnownTo, TablesKnown, Exists
    <3>4. Grows BY <3>1, <3>2 DEF Grows, Exists
    <3>5. StampKnown' BY <3>1, <3>2 DEF SchemaKnown, StampKnown, Current, Exists
    <3>6. TablesKnown' BY <3>2, <3>3 DEF SchemaKnown, TablesKnown, Exists
    <3>7. origin # 0 BY <3>1 DEF SchemaKnown, FreshKnown
    <3>8. FreshTables' BY <3>1, <3>7 DEF FreshTables
    <3>9. KnownTo(p)' BY <3>1 DEF KnownTo, Checked, Linking
    <3>10. FreshKnown(p)' BY <3>1, <3>7 DEF FreshKnown
    <3> QED BY <3>1, <3>4, <3>5, <3>6, <3>8, <3>9, <3>10, OthersStillKnow
  <2> QED BY <2>1, <2>2
<1> QED BY <1>1, <1>2, <1>3

(* The transactions that add ids and links.                                *)
LEMMA IdsKeep ==
    ASSUME TypeOK, SchemaKnown, origin \notin {1, 2}, NEW p \in Procs,
           \/ AddWorkspaceIds(p)
           \/ AddSessionColumns(p, "addLink", {"workspace_id"})
           \/ AddSessionColumns(p, "addId", {"id"})
           \/ AddSessionColumns(p, "addBoth", {"id", "workspace_id"})
    PROVE  SchemaKnown'
<1> USE DEF TypeOK, Tables, Columns
<1>1. CASE \E from \in Statements : Fails(p, from) BY <1>1, FailKeeps
<1>2. CASE ~\E from \in Statements : Fails(p, from)
  <2>1. /\ \E to : pc' = [pc EXCEPT ![p] = to]
        /\ UNCHANGED <<origin, stamp>>
    BY <1>2 DEF AddWorkspaceIds, AddSessionColumns, Goto, Statements
  <2>2. \E t \in {"sessions", "workspaces"}, new \in SUBSET {"id", "workspace_id"} :
            Exists(t) /\ cols' = [cols EXCEPT ![t] = @ \cup new]
    <3>1. CASE AddWorkspaceIds(p)
      BY <1>2, <3>1 DEF AddWorkspaceIds, Statements, CanAdd
    <3>2. ASSUME NEW from \in Statements, NEW missing \in SUBSET {"id", "workspace_id"},
                 missing # {}, AddSessionColumns(p, from, missing)
          PROVE  Exists("sessions") /\ cols' = [cols EXCEPT !["sessions"] = @ \cup missing]
      BY <1>2, <3>2 DEF AddSessionColumns, CanAdd
    <3> QED BY <3>1, <3>2 DEF Statements
  <2>3. /\ \A t \in Tables : cols[t] \subseteq cols'[t]
        /\ \A t \in Tables : Exists(t)' <=> Exists(t)
        /\ cols'["machines"] = cols["machines"]
    BY <2>2 DEF Exists
  <2>4. Grows BY <2>3 DEF Grows
  <2>5. StampKnown' BY <2>1, <2>3 DEF SchemaKnown, StampKnown, Current
  <2>6. TablesKnown' BY <2>3 DEF SchemaKnown, TablesKnown
  <2>7. FreshTables' BY <2>1, <2>3 DEF SchemaKnown, FreshTables
  <2>8. KnownTo(p) /\ FreshKnown(p) BY DEF SchemaKnown
  <2>9. KnownTo(p)' /\ FreshKnown(p)'
    <3>1. CASE AddWorkspaceIds(p)
      <4>1. pc'[p] = "sessId?" /\ "id" \in cols'["workspaces"] /\ pc[p] = "wsId"
        BY <1>2, <3>1 DEF AddWorkspaceIds, Goto, Statements
      <4> QED BY <2>1, <2>8, <4>1 DEF KnownTo, FreshKnown, Checked, Linking
    <3>2. CASE AddSessionColumns(p, "addLink", {"workspace_id"})
      <4>1. pc'[p] = "state?" /\ pc[p] = "addLink" /\ "workspace_id" \in cols'["sessions"]
        BY <1>2, <3>2 DEF AddSessionColumns, Goto, Statements
      <4> QED BY <2>1, <2>3, <2>8, <4>1 DEF KnownTo, FreshKnown, Checked, Linking
    <3>3. CASE AddSessionColumns(p, "addId", {"id"})
      <4>1. pc'[p] = "state?" /\ pc[p] = "addId" /\ "id" \in cols'["sessions"]
        BY <1>2, <3>3 DEF AddSessionColumns, Goto, Statements
      <4> QED BY <2>1, <2>3, <2>8, <4>1 DEF KnownTo, FreshKnown, Checked, Linking
    <3>4. CASE AddSessionColumns(p, "addBoth", {"id", "workspace_id"})
      <4>1. /\ pc'[p] = "state?" /\ pc[p] = "addBoth"
            /\ {"id", "workspace_id"} \subseteq cols'["sessions"]
        BY <1>2, <3>4 DEF AddSessionColumns, Goto, Statements
      <4> QED BY <2>1, <2>3, <2>8, <4>1 DEF KnownTo, FreshKnown, Checked, Linking
    <3> QED BY <3>1, <3>2, <3>3, <3>4
  <2> QED BY <2>1, <2>4, <2>5, <2>6, <2>7, <2>9, OthersStillKnow
<1> QED BY <1>1, <1>2

(* Reading the version and writing it.                                     *)
LEMMA StampKeeps ==
    ASSUME TypeOK, SchemaKnown, origin \notin {1, 2}, NEW p \in Procs,
           ReadVersion(p) \/ Consolidate(p)
    PROVE  SchemaKnown'
<1>1. CASE ReadVersion(p)
  <2>1. /\ pc[p] = "version" /\ pc' = [pc EXCEPT ![p] = FirstStatement(stamp)]
        /\ UNCHANGED <<origin, dbVars>>
    BY <1>1 DEF ReadVersion, Goto
  <2>2. pc'[p] = FirstStatement(stamp) /\ cols' = cols BY <2>1 DEF TypeOK, dbVars
  <2>3. StampKnown /\ stamp \in 0..8 BY DEF SchemaKnown, TypeOK, schemaVersion
  <2>4. KnownTo(p)'
    BY <2>2, <2>3 DEF KnownTo, StampKnown, FirstStatement, Checked, Linking, Exists, schemaVersion
  <2>5. FreshKnown(p)'
    BY <2>1, <2>2, <2>3 DEF FreshKnown, StampKnown, FirstStatement, Current, schemaVersion
  <2> QED BY <2>1, <2>4, <2>5, LookingKeeps
<1>2. CASE Consolidate(p)
  <2>1. /\ pc[p] \in {"clear", "stamp"} /\ stamp' \in {0, 8}
        /\ UNCHANGED <<origin, cols>>
    BY <1>2 DEF Consolidate, Goto, schemaVersion
  <2>2. PICK to \in {"stamp", "open"} : pc' = [pc EXCEPT ![p] = to]
    BY <1>2 DEF Consolidate, Goto
  <2>3. KnownTo(p) /\ FreshKnown(p) BY DEF SchemaKnown
  <2>4. Current
    BY <2>1, <2>3 DEF SchemaKnown, KnownTo, Checked, Current, TablesKnown, Exists, TypeOK, Tables
  <2>5. Grows BY <2>1 DEF Grows
  <2>6. StampKnown' BY <2>1, <2>4 DEF StampKnown, Current, schemaVersion
  <2>7. TablesKnown' /\ FreshTables'
    BY <2>1 DEF SchemaKnown, TablesKnown, FreshTables, Exists
  <2>8. pc'[p] = to BY <2>2 DEF TypeOK
  <2>9. KnownTo(p)' BY <2>1, <2>3, <2>4, <2>8 DEF KnownTo, Checked, Linking, Current
  <2>10. FreshKnown(p)' BY <2>1, <2>3, <2>8 DEF FreshKnown
  <2> QED BY <2>1, <2>2, <2>5, <2>6, <2>7, <2>9, <2>10, OthersStillKnow
<1> QED BY <1>1, <1>2

(* A step of the migration keeps what is known; the recreation of the      *)
(* sessions does not arise.                                                *)
LEMMA MigrateKeeps ==
    ASSUME TypeOK, SchemaKnown, origin \notin {1, 2}, NEW p \in Procs, Migrate(p)
    PROVE  SchemaKnown'
<1>1. ~V2toV3(p)
  BY DEF V2toV3, DropSessions, DropFails, EnsureTable, CreateTable, Fails, Check, Goto,
         SchemaKnown, FreshKnown
<1>2. CASE V4toV5(p)
  BY <1>2, ChecksKeep, AddColumnKeeps, MachinesKeep DEF V4toV5
<1>3. CASE V5toV6(p)
  BY <1>3, ChecksKeep, MachinesKeep, IdsKeep DEF V5toV6
<1>4. CASE V6toV7(p) \/ V7toV8(p)
  BY <1>4, ChecksKeep, AddColumnKeeps DEF V6toV7, V7toV8
<1> QED
  BY <1>1, <1>2, <1>3, <1>4, StampKeeps, CreateAllKeeps, MachinesKeep DEF Migrate

-----------------------------------------------------------------------------
(* The version the database had is not forgotten.                          *)
LEMMA OriginStays ==
    ASSUME [Next]_vars
    PROVE  UNCHANGED origin
<1>1. ASSUME NEW p \in Procs, Migrate(p) PROVE UNCHANGED origin
  BY <1>1 DEF Migrate, ReadVersion, CreateAll, V2toV3, DropSessions, DropFails, V3toV4, V4toV5,
      V5toV6, V6toV7, V7toV8, Consolidate, EnsureTable, CreateTable, Check, CheckRenamed, Fails,
      AddColumn, BackfillModes, RenameMachines, AddWorkspaceIds, AddSessionColumns, Goto
<1> QED BY <1>1 DEF Next, Insert, Kill, Reopen, vars

(* Whatever the interleaving and the interruptions, the version that was   *)
(* read and the checks that were made stay true of the schema.             *)
THEOREM SchemaStaysKnown == Spec => []SchemaKnown
<1>1. Init => SchemaKnown
  <2> SUFFICES ASSUME Init, origin \notin {1, 2} PROVE SchemaKnown
    BY DEF SchemaKnown
  <2>1. origin \in 0..8 /\ stamp = origin
    BY MigrationAssumption DEF Init, schemaVersion
  <2>2. /\ cols["sessions"] = SessionColumns(origin)
        /\ cols["machines"] = MachineColumns(origin)
        /\ cols["workspaces"] = WorkspaceColumns(origin)
    BY DEF Init, Tables
  <2>3. \A p \in Procs : pc[p] = "version" BY DEF Init
  <2> USE DEF SessionColumns, MachineColumns, WorkspaceColumns, Exists
  <2>4. StampKnown BY <2>1, <2>2 DEF StampKnown, Current, schemaVersion
  <2>5. TablesKnown BY <2>1, <2>2 DEF TablesKnown, Tables
  <2>6. FreshTables BY <2>1, <2>2 DEF FreshTables
  <2>7. \A p \in Procs : KnownTo(p) /\ FreshKnown(p)
    BY <2>3 DEF KnownTo, FreshKnown, Checked, Linking
  <2> QED BY <2>4, <2>5, <2>6, <2>7 DEF SchemaKnown
<1>2. TypeOK /\ SchemaKnown /\ [Next]_vars => SchemaKnown'
  <2> SUFFICES ASSUME TypeOK, SchemaKnown, [Next]_vars PROVE SchemaKnown' OBVIOUS
  <2>1. UNCHANGED origin BY OriginStays
  <2>2. CASE origin \in {1, 2} BY <2>1, <2>2 DEF SchemaKnown
  <2>3. CASE origin \notin {1, 2}
    <3>1. ASSUME NEW p \in Procs, Migrate(p) PROVE SchemaKnown'
      BY <2>3, <3>1, MigrateKeeps
    <3>2. ASSUME NEW p \in Procs, Kill(p) \/ Reopen(p) PROVE SchemaKnown'
      BY <2>3, <3>2, RestartKeeps DEF Kill, Reopen
    <3>3. CASE UNCHANGED <<origin, stamp, cols, pc>>
      BY <3>3 DEF SchemaKnown, StampKnown, TablesKnown, FreshTables, KnownTo, FreshKnown,
                  Current, Exists
    <3> QED BY <3>1, <3>2, <3>3 DEF Next, Insert, vars, dbVars
  <2> QED BY <2>2, <2>3
<1> QED BY <1>1, <1>2, TypeCorrect, PTL DEF Spec

(* Whoever has the store open finds the schema complete, whatever other    *)
(* processes are at with the same upgrade.                                 *)
THEOREM OpenedStoresAreCurrent == Spec => []OpenedIsCurrent
<1>1. TypeOK /\ SchemaKnown => OpenedIsCurrent
  BY DEF SchemaKnown, OpenedIsCurrent, KnownTo, Checked, Current, TablesKnown, Exists,
         TypeOK, Tables
<1> QED BY <1>1, TypeCorrect, SchemaStaysKnown, PTL

-----------------------------------------------------------------------------
(* What the upgrade does to the rows.                                      *)

\* Where a process is that has not yet recreated the sessions of version 1
\* or 2.
Before == {"version", "drop", "sessions2", "down", "failed"}

\* There are no sessions to link, or they have both columns.
Whole == Exists("sessions") => {"id", "workspace_id"} \subseteq cols["sessions"]

\* A column is there only together with its values.  The mode is the
\* exception (ModesKept).
Filled ==
    /\ cols["machines"] \subseteq {"key", "mode"}
    /\ ~Exists("sessions") \/ "id" \in cols["sessions"] => sess \subseteq ids["sessions"]
    /\ ~Exists("sessions") \/ "workspace_id" \in cols["sessions"] => sess \cap ws \subseteq linked
    /\ origin < 4 \/ "id" \in cols["workspaces"] => ws \subseteq ids["workspaces"]

\* Sessions of version 1 or 2 are never given columns: they are recreated
\* with both before anybody goes on.
Recreated ==
    origin \in {1, 2} =>
        /\ "id" \in cols["sessions"] => "workspace_id" \in cols["sessions"]
        /\ stamp # origin => Whole
        /\ \A p \in Procs : pc[p] \notin Before => Whole

RowsKnown == Filled /\ Recreated

(* A process that gets past the recreation finds the sessions whole, and   *)
(* nobody makes them less than that.                                       *)
LEMMA RecreatedKept ==
    ASSUME TypeOK, Recreated, UNCHANGED origin, NEW p \in Procs, NEW to,
           pc' = [pc EXCEPT ![p] = to],
           Whole => Whole',
           cols'["sessions"] = cols["sessions"] \/ Whole',
           stamp' = stamp \/ pc[p] \notin Before,
           to \in Before \/ pc[p] \notin Before \/ (origin \in {1, 2} => Whole')
    PROVE  Recreated'
<1> SUFFICES ASSUME origin \in {1, 2} PROVE Recreated' BY DEF Recreated
<1>1. pc[p] \notin Before => Whole BY DEF Recreated
<1>2. "id" \in cols'["sessions"] => "workspace_id" \in cols'["sessions"]
  BY DEF Recreated, Whole, Exists
<1>3. stamp' # origin => Whole' BY <1>1 DEF Recreated
<1>4. \A q \in Procs : pc'[q] \notin Before => Whole'
  BY <1>1 DEF Recreated, TypeOK
<1> QED BY <1>2, <1>3, <1>4 DEF Recreated

(* A step that leaves the database alone needs only to stay before the     *)
(* recreation or to be past it.                                            *)
LEMMA LookingKeepsRows ==
    ASSUME TypeOK, RowsKnown, UNCHANGED <<origin, dbVars>>, NEW p \in Procs, NEW to,
           pc' = [pc EXCEPT ![p] = to],
           to \in Before \/ pc[p] \notin Before \/ (origin \in {1, 2} => Whole)
    PROVE  RowsKnown'
<1>1. Filled' BY DEF RowsKnown, Filled, dbVars, Exists
<1>2. cols' = cols /\ stamp' = stamp /\ (Whole' <=> Whole) BY DEF dbVars, Whole, Exists
<1>3. Recreated' BY <1>2, RecreatedKept DEF RowsKnown
<1> QED BY <1>1, <1>3 DEF RowsKnown

(* So does a statement that fails.                                         *)
LEMMA FailKeepsRows ==
    ASSUME TypeOK, RowsKnown, NEW p \in Procs, NEW from, Fails(p, from)
    PROVE  RowsKnown'
<1>1. pc' = [pc EXCEPT ![p] = "failed"] /\ UNCHANGED <<origin, dbVars>>
  BY DEF Fails, Check, Goto
<1> QED BY <1>1, LookingKeepsRows DEF Before

(* So does a check past the recreation.                                    *)
LEMMA CheckKeepsRows ==
    ASSUME TypeOK, RowsKnown, NEW p \in Procs, NEW from, from \notin Before,
           NEW present, NEW yes, NEW no, Check(p, from, present, yes, no)
    PROVE  RowsKnown'
<1>1. pc[p] = from /\ UNCHANGED <<origin, dbVars>> BY DEF Check, Goto
<1>2. CASE present
  <2>1. pc' = [pc EXCEPT ![p] = yes] BY <1>2 DEF Check, Goto
  <2> QED BY <1>1, <2>1, LookingKeepsRows
<1>3. CASE ~present
  <2>1. pc' = [pc EXCEPT ![p] = no] BY <1>3 DEF Check, Goto
  <2> QED BY <1>1, <2>1, LookingKeepsRows
<1> QED BY <1>2, <1>3

(* The version that is read leads to the recreation, unless the sessions   *)
(* have been recreated already.                                            *)
LEMMA ReadVersionKeepsRows ==
    ASSUME TypeOK, RowsKnown, NEW p \in Procs, ReadVersion(p)
    PROVE  RowsKnown'
<1>1. pc' = [pc EXCEPT ![p] = FirstStatement(stamp)] /\ UNCHANGED <<origin, dbVars>>
  BY DEF ReadVersion, Goto
<1>2. CASE stamp = origin /\ origin \in {1, 2}
  <2>1. FirstStatement(stamp) = "drop" BY <1>2 DEF FirstStatement
  <2> QED BY <1>1, <2>1, LookingKeepsRows DEF Before
<1>3. CASE ~(stamp = origin /\ origin \in {1, 2})
  <2>1. origin \in {1, 2} => Whole BY <1>3 DEF RowsKnown, Recreated
  <2> QED BY <1>1, <2>1, LookingKeepsRows
<1> QED BY <1>2, <1>3

(* ALTER TABLE ADD COLUMN with a column that has no values to fill, and    *)
(* CREATE TABLE IF NOT EXISTS for the machines.                            *)
LEMMA AddColumnKeepsRows ==
    ASSUME TypeOK, RowsKnown, NEW p \in Procs,
           \/ AddColumn(p, "mode", "machines", "mode", "backfill")
           \/ AddColumn(p, "state", "workspaces", "state", "head?")
           \/ AddColumn(p, "head", "workspaces", "head_commit", "clear")
           \/ V3toV4(p)
    PROVE  RowsKnown'
<1>1. CASE \E from : Fails(p, from) BY <1>1, FailKeepsRows
<1>2. CASE ~\E from : Fails(p, from)
  <2> USE DEF TypeOK, Tables
  <2>1. PICK to : pc' = [pc EXCEPT ![p] = to]
    BY <1>2 DEF AddColumn, V3toV4, CreateTable, Goto
  <2>2. /\ pc[p] \notin Before
        /\ UNCHANGED <<origin, stamp, sess, ws, ids, linked, persistent>>
    BY <1>2 DEF AddColumn, V3toV4, CreateTable, Goto, Before
  <2>3. /\ cols'["sessions"] = cols["sessions"]
        /\ cols'["workspaces"] \subseteq cols["workspaces"] \cup {"state", "head_commit"}
        /\ cols'["machines"] \subseteq cols["machines"] \cup {"key", "mode"}
    <3>1. CASE V3toV4(p) BY <3>1 DEF V3toV4, CreateTable
    <3>2. CASE ~V3toV4(p) BY <1>2, <3>2 DEF AddColumn
    <3> QED BY <3>1, <3>2
  <2>4. Filled' BY <2>2, <2>3 DEF RowsKnown, Filled, Exists
  <2>5. Whole => Whole' BY <2>3 DEF Whole, Exists
  <2>6. Recreated' BY <2>1, <2>2, <2>3, <2>5, RecreatedKept DEF RowsKnown
  <2> QED BY <2>4, <2>6 DEF RowsKnown
<1> QED BY <1>1, <1>2

(* Sessions that are dropped leave none without an id, and the table that  *)
(* is created in their place has both columns.                             *)
LEMMA RecreationKeepsRows ==
    ASSUME TypeOK, RowsKnown, NEW p \in Procs, V2toV3(p)
    PROVE  RowsKnown'
<1> USE DEF TypeOK, Tables
<1>1. CASE DropSessions(p)
  <2>1. /\ pc' = [pc EXCEPT ![p] = "sessions2"]
        /\ UNCHANGED <<origin, stamp, ws, persistent>>
        /\ sess' = {}
        /\ cols'["sessions"] = {} /\ cols'["workspaces"] = cols["workspaces"]
        /\ cols'["machines"] = cols["machines"]
        /\ ids'["workspaces"] = ids["workspaces"]
    BY <1>1 DEF DropSessions, Goto
  <2>2. Filled' BY <2>1 DEF RowsKnown, Filled, Exists
  <2>3. Whole' BY <2>1 DEF Whole, Exists
  <2>4. Recreated' BY <2>1, <2>3, RecreatedKept DEF RowsKnown, Before
  <2> QED BY <2>2, <2>4 DEF RowsKnown
<1>2. CASE DropFails(p)
  <2>1. pc' = [pc EXCEPT ![p] = "sessions2"] /\ UNCHANGED <<origin, dbVars>>
    BY <1>2 DEF DropFails, Check, Goto
  <2> QED BY <2>1, LookingKeepsRows DEF Before
<1>3. CASE EnsureTable(p, "sessions2", "sessions", {"key", "id", "workspace_id"}, "machines")
  <2>1. CASE Fails(p, "sessions2") BY <2>1, FailKeepsRows
  <2>2. CASE ~Fails(p, "sessions2")
    <3>1. /\ Exists("sessions") => "id" \in cols["sessions"]
          /\ pc' = [pc EXCEPT ![p] = "machines"]
          /\ UNCHANGED <<origin, stamp, sess, ws, ids, linked, persistent>>
      BY <1>3, <2>2 DEF EnsureTable, CreateTable, Goto
    <3>2. /\ cols'["sessions"] = IF cols["sessions"] = {} THEN {"key", "id", "workspace_id"}
                                 ELSE cols["sessions"]
          /\ cols'["machines"] = cols["machines"]
          /\ cols'["workspaces"] = cols["workspaces"]
      BY <1>3, <2>2 DEF EnsureTable, CreateTable
    <3>3. Filled' BY <3>1, <3>2 DEF RowsKnown, Filled, Exists
    <3>4. Whole => Whole' BY <3>2 DEF Whole, Exists
    <3>5. origin \in {1, 2} => Whole'
      BY <3>1, <3>2 DEF RowsKnown, Recreated, Whole, Exists
    <3>6. cols'["sessions"] = cols["sessions"] \/ Whole' BY <3>2 DEF Whole
    <3>7. Recreated' BY <3>1, <3>4, <3>5, <3>6, RecreatedKept DEF RowsKnown
    <3> QED BY <3>3, <3>7 DEF RowsKnown
  <2> QED BY <2>1, <2>2
<1> QED BY <1>1, <1>2, <1>3 DEF V2toV3

(* A table is created with an id only where no row is without one: there   *)
(* are no sessions, and no machines of an older version.                   *)
LEMMA CreateAllKeepsRows ==
    ASSUME TypeOK, SchemaKnown, RowsKnown, NEW p \in Procs, CreateAll(p)
    PROVE  RowsKnown'
<1> USE DEF TypeOK, Tables
<1>1. CASE \E from : Fails(p, from) BY <1>1, FailKeepsRows
<1>2. CASE ~\E from : Fails(p, from)
  <2>1. PICK to : pc' = [pc EXCEPT ![p] = to]
    BY <1>2 DEF CreateAll, EnsureTable, CreateTable, Goto
  <2>2. /\ pc[p] \in {"sessions0", "workspaces0"}
        /\ UNCHANGED <<origin, stamp, sess, ws, ids, linked, persistent>>
    BY <1>2 DEF CreateAll, EnsureTable, CreateTable, Goto
  <2>3. /\ cols'["machines"] = cols["machines"]
        /\ \/ cols'["sessions"] = cols["sessions"]
           \/ cols["sessions"] = {} /\ cols'["sessions"] = {"key", "id", "workspace_id"}
        /\ cols'["workspaces"] = cols["workspaces"] \/ cols["workspaces"] = {}
    BY <1>2 DEF CreateAll, EnsureTable, CreateTable
  <2>4. cols["workspaces"] = {} => origin < 4
    BY <2>2 DEF SchemaKnown, FreshKnown, Current, schemaVersion
  <2>5. Filled' BY <2>2, <2>3, <2>4 DEF RowsKnown, Filled, Exists
  <2>6. Whole => Whole' BY <2>3 DEF Whole, Exists
  <2>7. cols'["sessions"] = cols["sessions"] \/ Whole' BY <2>3 DEF Whole
  <2>8. Recreated' BY <2>1, <2>2, <2>6, <2>7, RecreatedKept DEF RowsKnown, Before
  <2> QED BY <2>5, <2>8 DEF RowsKnown
<1> QED BY <1>1, <1>2

(* The modes are filled from the sessions, and a table of machines that is *)
(* renamed has no id yet.                                                  *)
LEMMA MachinesKeepRows ==
    ASSUME TypeOK, RowsKnown, NEW p \in Procs, BackfillModes(p) \/ RenameMachines(p)
    PROVE  RowsKnown'
<1> USE DEF TypeOK, Tables
<1>1. CASE \E from : Fails(p, from) BY <1>1, FailKeepsRows
<1>2. CASE ~\E from : Fails(p, from)
  <2>1. PICK to : pc' = [pc EXCEPT ![p] = to]
    BY <1>2 DEF BackfillModes, RenameMachines, Goto
  <2>2. /\ pc[p] \notin Before
        /\ UNCHANGED <<origin, stamp, sess, ws, ids, linked>>
        /\ cols'["sessions"] = cols["sessions"]
    BY <1>2 DEF BackfillModes, RenameMachines, Goto, Before
  <2>3. /\ cols'["machines"] \subseteq cols["machines"]
        /\ cols'["workspaces"] \in {cols["workspaces"], cols["machines"]}
    BY <1>2 DEF BackfillModes, RenameMachines
  <2>4. Filled' BY <2>2, <2>3 DEF RowsKnown, Filled, Exists
  <2>5. Whole => Whole' BY <2>2 DEF Whole, Exists
  <2>6. Recreated' BY <2>1, <2>2, <2>5, RecreatedKept DEF RowsKnown
  <2> QED BY <2>4, <2>6 DEF RowsKnown
<1> QED BY <1>1, <1>2

(* A column and its values are one transaction, for the workspaces ...     *)
LEMMA WorkspaceIdsKeepRows ==
    ASSUME TypeOK, RowsKnown, NEW p \in Procs, AddWorkspaceIds(p)
    PROVE  RowsKnown'
<1> USE DEF TypeOK, Tables
<1>1. CASE Fails(p, "wsId") BY <1>1, FailKeepsRows
<1>2. CASE ~Fails(p, "wsId")
  <2>1. /\ pc[p] \notin Before /\ pc' = [pc EXCEPT ![p] = "sessId?"]
        /\ UNCHANGED <<origin, stamp, sess, ws, linked, persistent>>
        /\ cols'["sessions"] = cols["sessions"] /\ cols'["machines"] = cols["machines"]
        /\ ids'["sessions"] = ids["sessions"] /\ ids'["workspaces"] = ws
    BY <1>2 DEF AddWorkspaceIds, Goto, Before
  <2>2. Filled' BY <2>1 DEF RowsKnown, Filled, Exists
  <2>3. Whole => Whole' BY <2>1 DEF Whole, Exists
  <2>4. Recreated' BY <2>1, <2>3, RecreatedKept DEF RowsKnown
  <2> QED BY <2>2, <2>4 DEF RowsKnown
<1> QED BY <1>1, <1>2

(* ... and for the sessions.                                               *)
LEMMA SessionColumnsKeepRows ==
    ASSUME TypeOK, RowsKnown, NEW p \in Procs, NEW from, from \notin Before,
           NEW missing \in SUBSET {"id", "workspace_id"},
           AddSessionColumns(p, from, missing)
    PROVE  RowsKnown'
<1> USE DEF TypeOK, Tables
<1>1. CASE Fails(p, from) BY <1>1, FailKeepsRows
<1>2. CASE ~Fails(p, from)
  <2>1. /\ pc[p] \notin Before /\ pc' = [pc EXCEPT ![p] = "state?"]
        /\ UNCHANGED <<origin, stamp, sess, ws, persistent>>
        /\ \A c \in missing : Exists("sessions") /\ c \notin cols["sessions"]
    BY <1>2 DEF AddSessionColumns, CanAdd, Goto
  <2>2. /\ cols'["sessions"] = cols["sessions"] \cup missing
        /\ cols'["machines"] = cols["machines"] /\ cols'["workspaces"] = cols["workspaces"]
        /\ ids'["workspaces"] = ids["workspaces"]
        /\ ids'["sessions"] = IF "id" \in missing THEN sess ELSE ids["sessions"]
        /\ linked' = IF "workspace_id" \in missing THEN sess \cap ws ELSE linked
    BY <1>2 DEF AddSessionColumns
  <2>3. Filled' BY <2>1, <2>2 DEF RowsKnown, Filled, Exists
  <2>4. origin \in {1, 2} => Whole BY <2>1 DEF RowsKnown, Recreated
  <2>5. Whole => missing = {} BY <2>1 DEF Whole
  <2>6. Whole => Whole' BY <2>2, <2>5 DEF Whole, Exists
  <2>7. Recreated'
    <3>1. CASE origin \in {1, 2} BY <3>1, <2>1, <2>4, <2>6, RecreatedKept DEF RowsKnown
    <3>2. CASE origin \notin {1, 2} BY <3>2, <2>1 DEF Recreated
    <3> QED BY <3>1, <3>2
  <2> QED BY <2>3, <2>7 DEF RowsKnown
<1> QED BY <1>1, <1>2

(* Writing the version.                                                    *)
LEMMA ConsolidateKeepsRows ==
    ASSUME TypeOK, RowsKnown, NEW p \in Procs, Consolidate(p)
    PROVE  RowsKnown'
<1>1. /\ pc[p] \notin Before
      /\ \E to : pc' = [pc EXCEPT ![p] = to]
      /\ UNCHANGED <<origin, cols, sess, ws, ids, linked, persistent>>
  BY DEF Consolidate, Goto, Before
<1>2. Filled' BY <1>1 DEF RowsKnown, Filled, Exists
<1>3. Whole => Whole' BY <1>1 DEF Whole, Exists
<1>4. Recreated' BY <1>1, <1>3, RecreatedKept DEF RowsKnown
<1> QED BY <1>2, <1>4 DEF RowsKnown

(* Rows that are inserted have everything.                                 *)
LEMMA InsertKeepsRows ==
    ASSUME TypeOK, RowsKnown, NEW p \in Procs, Insert(p)
    PROVE  RowsKnown'
<1>1. /\ UNCHANGED <<origin, stamp, cols, persistent, pc>>
      /\ sess' = sess \cup {p} /\ ws' = ws \cup {p} /\ linked' = linked \cup {p}
      /\ ids'["sessions"] = ids["sessions"] \cup {p}
      /\ ids'["workspaces"] = ids["workspaces"] \cup {p}
      /\ p \notin Names
  BY MigrationAssumption DEF Insert, TypeOK
<1>2. Filled' BY <1>1 DEF RowsKnown, Filled, Exists
<1>3. Recreated' BY <1>1 DEF RowsKnown, Recreated, Whole, Exists
<1> QED BY <1>2, <1>3 DEF RowsKnown

(* A step of the migration.                                                *)
LEMMA MigrateKeepsRows ==
    ASSUME TypeOK, SchemaKnown, RowsKnown, NEW p \in Procs, Migrate(p)
    PROVE  RowsKnown'
<1>1. CASE V4toV5(p)
  BY <1>1, CheckKeepsRows, AddColumnKeepsRows, MachinesKeepRows DEF V4toV5, Before
<1>2. CASE V5toV6(p)
  BY <1>2, CheckKeepsRows, MachinesKeepRows, WorkspaceIdsKeepRows, SessionColumnsKeepRows
  DEF V5toV6, CheckRenamed, Before
<1>3. CASE V6toV7(p) BY <1>3, CheckKeepsRows, AddColumnKeepsRows DEF V6toV7, Before
<1>4. CASE V7toV8(p) BY <1>4, CheckKeepsRows, AddColumnKeepsRows DEF V7toV8, Before
<1> QED
  BY <1>1, <1>2, <1>3, <1>4, ReadVersionKeepsRows, CreateAllKeepsRows, RecreationKeepsRows,
     AddColumnKeepsRows, ConsolidateKeepsRows DEF Migrate

(* Whatever the interleaving and the interruptions, a column is seen only  *)
(* together with its values, and whoever is past the recreation of the     *)
(* sessions of version 1 or 2 finds them with both columns.                *)
THEOREM RowsStayKnown == Spec => []RowsKnown
<1>1. Init => RowsKnown
  <2> SUFFICES ASSUME Init PROVE RowsKnown OBVIOUS
  <2>1. origin \in 0..8 /\ stamp = origin
    BY MigrationAssumption DEF Init, schemaVersion
  <2>2. /\ cols["sessions"] = SessionColumns(origin)
        /\ cols["machines"] = MachineColumns(origin)
        /\ cols["workspaces"] = WorkspaceColumns(origin)
    BY DEF Init, Tables
  <2>3. /\ ids["sessions"] = IF origin < 6 THEN {} ELSE sess
        /\ ids["workspaces"] = IF origin < 6 THEN {} ELSE ws
    BY DEF Init
  <2>4. /\ linked = IF origin < 6 THEN {} ELSE sess \cap ws
        /\ origin = 0 => sess = {}
        /\ origin < 4 => ws = {}
    BY DEF Init
  <2>5. Filled
    <3> USE <2>1, <2>2, <2>3, <2>4 DEF SessionColumns, MachineColumns, WorkspaceColumns, Exists
    <3>1. cols["machines"] \subseteq {"key", "mode"} OBVIOUS
    <3>2. ~Exists("sessions") \/ "id" \in cols["sessions"] => sess \subseteq ids["sessions"]
      OBVIOUS
    <3>3. ~Exists("sessions") \/ "workspace_id" \in cols["sessions"]
            => sess \cap ws \subseteq linked
      OBVIOUS
    <3>4. origin < 4 \/ "id" \in cols["workspaces"] => ws \subseteq ids["workspaces"]
      OBVIOUS
    <3> QED BY <3>1, <3>2, <3>3, <3>4 DEF Filled
  <2>6. Recreated
    BY <2>1, <2>2 DEF Init, Recreated, Before, SessionColumns
  <2> QED BY <2>5, <2>6 DEF RowsKnown
<1>2. TypeOK /\ SchemaKnown /\ RowsKnown /\ [Next]_vars => RowsKnown'
  <2> SUFFICES ASSUME TypeOK, SchemaKnown, RowsKnown, [Next]_vars PROVE RowsKnown' OBVIOUS
  <2>1. ASSUME NEW p \in Procs, Kill(p) PROVE RowsKnown'
    BY <2>1, LookingKeepsRows DEF Kill, Before
  <2>2. ASSUME NEW p \in Procs, Reopen(p) PROVE RowsKnown'
    BY <2>2, LookingKeepsRows DEF Reopen, Before
  <2>3. CASE UNCHANGED vars
    BY <2>3 DEF vars, dbVars, RowsKnown, Filled, Recreated, Whole, Exists
  <2> QED BY <2>1, <2>2, <2>3, MigrateKeepsRows, InsertKeepsRows DEF Next
<1> QED BY <1>1, <1>2, TypeCorrect, SchemaStaysKnown, PTL DEF Spec

(* From every old version, however many processes upgrade at once and      *)
(* wherever they are killed: who has the store open finds no row without   *)
(* its id and no session without the link to its workspace.  (Whether the  *)
(* rows of the old version are still there, and with the modes of their    *)
(* sessions, is not said: versions 1 and 2 lose their sessions, and an     *)
(* interrupted upgrade from version 4 the modes.)                          *)
THEOREM UpgradedRowsComplete == Spec => []UpgradedRows
<1>1. TypeOK /\ SchemaKnown /\ RowsKnown => UpgradedRows
  <2> SUFFICES ASSUME TypeOK, SchemaKnown, RowsKnown,
                      NEW p \in Procs, pc[p] = "open"
               PROVE  /\ sess \subseteq ids["sessions"]
                      /\ ws \subseteq ids["workspaces"]
                      /\ sess \cap ws \subseteq linked
    BY DEF UpgradedRows
  <2>1. CASE origin \in {1, 2}
    <3>1. Whole BY <2>1 DEF RowsKnown, Recreated, Before
    <3> QED BY <2>1, <3>1 DEF RowsKnown, Filled, Whole
  <2>2. CASE origin \notin {1, 2}
    <3>1. /\ {"id", "workspace_id"} \subseteq cols["sessions"]
          /\ "id" \in cols["workspaces"]
      BY <2>2 DEF SchemaKnown, KnownTo, Checked
    <3> QED BY <3>1 DEF RowsKnown, Filled
  <2> QED BY <2>1, <2>2
<1> QED BY <1>1, TypeCorrect, SchemaStaysKnown, RowsStayKnown, PTL DEF Spec
=============================================================================
