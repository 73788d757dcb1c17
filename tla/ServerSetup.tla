------------------------------ MODULE ServerSetup ------------------------------
(***************************************************************************)
(* podspawn server-setup: it appends a block to sshd_config, lets sshd     *)
(* check the file, writes the old one back if sshd refuses it, creates the *)
(* directories of podspawn, and reloads sshd.  It may be killed between    *)
(* any two calls, any of which may fail, and be run again; the host may be *)
(* restarted, and its administrator edits the file by hand.                *)
(*                                                                         *)
(* A file is the set of what it contains: "base" and "edit" are the        *)
(* settings of the administrator, "other" a command for keys among them,   *)
(* "ours" the block of podspawn, "torn" a part of it.                      *)
(***************************************************************************)
EXTENDS Naturals

CONSTANTS
    Setups,     \* the server-setup commands
    Harms,      \* how many kills, failures, overlaps and the like there may be
    None

Parts == {"base", "edit", "other", "ours", "torn"}
Files == SUBSET Parts

ASSUME ServerSetupAssumption == Harms \in Nat /\ \A f \in Files : f # None

VARIABLES
    config,     \* sshd_config
    backup,     \* sshd_config.podspawn.bak, or None
    running,    \* the configuration that sshd runs with, or None if it does not
    conflict,   \* whether an included file conflicts with the block
    dirs,       \* whether the directories and the files in them are there
    settings,   \* history: what the administrator has written
    pc,         \* next call of each process
    data,       \* the file as modifySSHDConfig has read it, or None
    append,     \* the process has found no block, and reloads sshd in the end
    harm,       \* history: what kills, failures and overlaps there were
    left        \* how many there may still be

files == <<config, backup>>
host == <<running, conflict, dirs, settings>>
memory == <<data, append>>
harmVars == <<harm, left>>
vars == <<files, host, pc, memory, harmVars>>

TypeOK ==
    /\ config \in Files
    /\ backup \in Files \cup {None}
    /\ running \in Files \cup {None}
    /\ conflict \in BOOLEAN
    /\ dirs \in BOOLEAN
    /\ settings \subseteq {"base", "edit", "other"}
    /\ pc \in [Setups -> {"idle", "read", "backup", "copying", "append", "validate",
                          "restore", "restoring", "dirs", "reload"}]
    /\ data \in [Setups -> Files \cup {None}]
    /\ append \in [Setups -> BOOLEAN]
    /\ harm \subseteq {"kill", "failure", "write", "overlap", "again", "edit"}
    /\ left \in 0..Harms

Init ==
    /\ config \in {{"base"}, {"base", "other"}}
    /\ backup = None
    /\ running = config
    /\ conflict \in BOOLEAN
    /\ dirs = FALSE
    /\ settings = config
    /\ pc = [p \in Setups |-> "idle"]
    /\ data = [p \in Setups |-> None]
    /\ append = [p \in Setups |-> FALSE]
    /\ harm = {}
    /\ left = Harms

Goto(p, from, to) ==
    /\ pc[p] = from
    /\ pc' = [pc EXCEPT ![p] = to]

Return(p, from) ==
    /\ Goto(p, from, "idle")
    /\ data' = [data EXCEPT ![p] = None]
    /\ append' = [append EXCEPT ![p] = FALSE]

Harm(kind) ==
    /\ left > 0
    /\ left' = left - 1
    /\ harm' = harm \cup {kind}

HarmIf(condition, kind) == IF condition THEN Harm(kind) ELSE UNCHANGED harmVars

Fails(p, from, kind) == Return(p, from) /\ Harm(kind)

Busy == {p \in Setups : pc[p] # "idle"}

HasOurs(file) == "ours" \in file
HasOther(file) == "other" \in file

\* sshd -t
Valid(file) == "torn" \notin file /\ ~(conflict /\ "ours" \in file)

-----------------------------------------------------------------------------
(* Run.                                                                    *)

\* The file must be valid before anything is changed.
Check(p) ==
    /\ Valid(config)
    /\ Goto(p, "idle", "read")
    /\ IF Busy # {} THEN Harm("overlap") ELSE HarmIf(~(settings \subseteq config), "again")
    /\ UNCHANGED <<files, host, memory>>

ReadConfig(p) ==
    /\ \/ /\ HasOurs(config)
          /\ Goto(p, "read", "dirs")
          /\ UNCHANGED memory
       \/ /\ ~HasOurs(config) /\ HasOther(config)
          /\ Return(p, "read")
       \/ /\ ~HasOurs(config) /\ ~HasOther(config)
          /\ Goto(p, "read", "backup")
          /\ append' = [append EXCEPT ![p] = TRUE]
          /\ UNCHANGED data
    /\ UNCHANGED <<files, host, harmVars>>

\* Mutant: no copy is made.
BackupNothing(p) ==
    /\ Goto(p, "backup", "append")
    /\ data' = [data EXCEPT ![p] = config]
    /\ UNCHANGED <<files, host, append, harmVars>>

\* os.WriteFile truncates the file, then writes it.
Backup(p) ==
    /\ Goto(p, "backup", "copying")
    /\ data' = [data EXCEPT ![p] = config]
    /\ backup' = {}
    /\ UNCHANGED <<config, host, append, harmVars>>

WriteBackup(p) ==
    /\ \/ /\ Goto(p, "copying", "append")
          /\ backup' = data[p]
          /\ UNCHANGED <<memory, harmVars>>
       \/ Fails(p, "copying", "failure") /\ UNCHANGED backup
    /\ UNCHANGED <<config, host>>

\* What could be written of the block stays: nothing that matters, all that matters, or a
\* part that sshd refuses.
AppendBlock(p) ==
    /\ \/ /\ Goto(p, "append", "validate")
          /\ config' = config \cup {"ours"}
          /\ UNCHANGED <<memory, harmVars>>
       \/ /\ Fails(p, "append", "write")
          /\ config' \in {config, config \cup {"ours"}, config \cup {"torn"}}
    /\ UNCHANGED <<backup, host>>

\* Mutant: a file that sshd refuses stays.
ValidateOnly(p) ==
    /\ IF Valid(config)
       THEN Goto(p, "validate", "dirs") /\ UNCHANGED memory
       ELSE Return(p, "validate")
    /\ UNCHANGED <<files, host, harmVars>>

Validate(p) ==
    /\ Goto(p, "validate", IF Valid(config) THEN "dirs" ELSE "restore")
    /\ UNCHANGED <<files, host, memory, harmVars>>

Restore(p) ==
    /\ \/ /\ Goto(p, "restore", "restoring")
          /\ config' = {}
          /\ UNCHANGED <<memory, harmVars>>
       \/ Fails(p, "restore", "write") /\ UNCHANGED config
    /\ UNCHANGED <<backup, host>>

WriteRestored(p) ==
    /\ Return(p, "restoring")
    /\ config' = data[p]
    /\ UNCHANGED <<backup, host, harmVars>>

\* Mutant: a directory that cannot be made is passed over.
CreateDirectoriesHeedless(p) ==
    /\ Goto(p, "dirs", "reload")
    /\ dirs' \in {dirs, TRUE}
    /\ UNCHANGED <<files, running, conflict, settings, memory, harmVars>>

\* createDirectories makes what is missing; the block stays if it fails.
CreateDirectories(p) ==
    /\ \/ /\ Goto(p, "dirs", "reload")
          /\ dirs' = TRUE
          /\ UNCHANGED <<memory, harmVars>>
       \/ Fails(p, "dirs", "failure") /\ UNCHANGED dirs
    /\ UNCHANGED <<files, running, conflict, settings>>

\* A failed reload leaves the block where it is.
ReloadSSHD(p) ==
    /\ append[p]
    /\ \/ Valid(config) /\ running' = config /\ Return(p, "reload") /\ UNCHANGED harmVars
       \/ Fails(p, "reload", "failure") /\ UNCHANGED running
    /\ UNCHANGED <<files, conflict, dirs, settings>>

\* Nothing is reloaded for a block that was found.
AlreadyConfigured(p) ==
    /\ ~append[p]
    /\ Return(p, "reload")
    /\ UNCHANGED <<files, host, harmVars>>

Run(p) ==
    \/ Check(p) \/ ReadConfig(p) \/ Backup(p) \/ WriteBackup(p) \/ AppendBlock(p)
    \/ Validate(p) \/ Restore(p) \/ WriteRestored(p) \/ CreateDirectories(p)
    \/ ReloadSSHD(p) \/ AlreadyConfigured(p)

-----------------------------------------------------------------------------
Kill(p) ==
    /\ p \in Busy
    /\ Return(p, pc[p])
    /\ Harm("kill")
    /\ UNCHANGED <<files, host>>

\* sshd is started anew, with the file as it is, if it accepts it.
Reboot ==
    /\ running' = IF Valid(config) THEN config ELSE None
    /\ running' # running
    /\ pc' = [p \in Setups |-> "idle"]
    /\ data' = [p \in Setups |-> None]
    /\ append' = [p \in Setups |-> FALSE]
    /\ HarmIf(Busy # {}, "kill")
    /\ UNCHANGED <<files, conflict, dirs, settings>>

\* The administrator adds a setting; during a server-setup, it may be overwritten.
Edit ==
    /\ "edit" \notin settings
    /\ settings' = settings \cup {"edit"}
    /\ config' = config \cup {"edit"}
    /\ HarmIf(Busy # {}, "edit")
    /\ UNCHANGED <<backup, running, conflict, dirs, pc, memory>>

Next ==
    \/ \E p \in Setups : Run(p) \/ Kill(p)
    \/ Reboot
    \/ Edit

Spec == Init /\ [][Next]_vars

-----------------------------------------------------------------------------
(* Properties.                                                             *)

Spared(kinds) == harm \cap kinds = {}

\* A restart of the host finds an sshd_config that sshd accepts, wherever a server-setup
\* fails, sshd's own check of the file included: one that appends what sshd refuses puts
\* back what was there.  Excepted are a server-setup that is killed, or a host
\* that restarts, between the two; one that cannot write sshd_config; and two at once.
SshdStarts ==
    running = None => ~Spared({"kill", "write", "overlap"})

\* The settings of the administrator are in sshd_config or its copy, wherever a
\* server-setup fails or is killed, and after any number of them.  Excepted are one that
\* is started on the file that another has truncated, one that runs next to another, and
\* what the administrator writes to sshd_config while one is at work.
SettingsKept ==
    Spared({"overlap", "again", "edit"}) =>
        settings \subseteq config \cup (IF backup = None THEN {} ELSE backup)

\* When server-setup says that it is complete, the directories are there and a valid
\* sshd_config has the block, whatever failed or was killed before, as long as no two of
\* them overlap; and sshd has loaded it, if nothing failed and none was killed before
\* (one that finds the block there does not reload sshd).
Completes(p) ==
    pc[p] = "reload" /\ pc'[p] = "idle" /\ left' = left

TakesEffect ==
    [][\A p \in Setups :
         Completes(p) /\ Spared({"overlap"})
         => /\ dirs'
            /\ "ours" \in config'
            /\ Valid(config)
            /\ Spared({"kill", "failure", "write"}) => "ours" \in running']_vars
=============================================================================
