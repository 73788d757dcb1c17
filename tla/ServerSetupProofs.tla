-------------------------- MODULE ServerSetupProofs --------------------------
(***************************************************************************)
(* Proofs about ServerSetup, for every number of commands and of harms.    *)
(***************************************************************************)
EXTENDS ServerSetup, TLAPS

Steps == {"idle", "read", "backup", "copying", "append", "validate", "restore", "restoring",
          "dirs", "reload"}

\* What a command writes into a file leaves it a file.
LEMMA FilesGrow ==
    /\ {} \in Files /\ {} # None
    /\ \A f \in Files : f # None
    /\ \A f \in Files : /\ f \cup {"ours"} \in Files
                       /\ f \cup {"torn"} \in Files
                       /\ f \cup {"edit"} \in Files
    BY ServerSetupAssumption DEF Files, Parts

\* A harm that happens is one of those there are, and leaves fewer.
LEMMA HarmTyped ==
    ASSUME TypeOK, NEW kind \in {"kill", "failure", "write", "overlap", "again", "edit"}, Harm(kind)
    PROVE  /\ harm' \subseteq {"kill", "failure", "write", "overlap", "again", "edit"}
           /\ left' \in 0..Harms
<1>1. left \in 0..Harms /\ left > 0 /\ left' = left - 1 /\ Harms \in Nat
    BY ServerSetupAssumption DEF TypeOK, Harm
<1>2. left' \in 0..Harms
    BY ONLY <1>1
<1>3. harm \subseteq {"kill", "failure", "write", "overlap", "again", "edit"} /\ harm' = harm \cup {kind}
    BY DEF TypeOK, Harm
<1>4. QED
    BY <1>2, <1>3

\* What is written back is what was read.
DataRead ==
    \A p \in Setups :
        pc[p] \in {"copying", "append", "validate", "restore", "restoring"} => data[p] \in Files

\* A step keeps the types: only what has been read is ever written.
LEMMA TypeKept == ASSUME TypeOK, DataRead, [Next]_vars PROVE TypeOK'
<1> USE ServerSetupAssumption, FilesGrow DEF HasOurs, HasOther, TypeOK, DataRead
<1> USE HarmTyped DEF Goto, Return, HarmIf, Fails, files, host, memory, harmVars
<1>1. ASSUME NEW p \in Setups, Run(p) PROVE TypeOK'
    <2>1. CASE Check(p)
        <3>1. harm' \subseteq {"kill", "failure", "write", "overlap", "again", "edit"} /\ left' \in 0..Harms
            BY <2>1 DEF Check
        <3>2. data' \in [Setups -> Files \cup {None}] /\ append' \in [Setups -> BOOLEAN]
            BY <2>1 DEF Check
        <3>3. config' \in Files /\ backup' \in Files \cup {None} /\ running' \in Files \cup {None}
            BY <2>1 DEF Check
        <3>4. pc' \in [Setups -> Steps]
            BY <2>1 DEF Check, Steps
        <3>5. dirs' \in BOOLEAN /\ conflict' \in BOOLEAN /\ settings' \subseteq {"base", "edit", "other"}
            BY <2>1 DEF Check
        <3>6. QED
            BY ONLY <3>1, <3>2, <3>3, <3>4, <3>5 DEF TypeOK, Steps
    <2>2. CASE ReadConfig(p)
        BY <2>2 DEF ReadConfig
    <2>3. CASE Backup(p)
        BY <2>3 DEF Backup
    <2>4. CASE WriteBackup(p)
        <3>1. harm' \subseteq {"kill", "failure", "write", "overlap", "again", "edit"} /\ left' \in 0..Harms
            BY <2>4 DEF WriteBackup
        <3>2. data' \in [Setups -> Files \cup {None}] /\ append' \in [Setups -> BOOLEAN]
            BY <2>4 DEF WriteBackup
        <3>3. config' \in Files /\ backup' \in Files \cup {None} /\ running' \in Files \cup {None}
            BY <2>4 DEF WriteBackup
        <3>4. pc' \in [Setups -> Steps]
            BY <2>4 DEF WriteBackup, Steps
        <3>5. dirs' \in BOOLEAN /\ conflict' \in BOOLEAN /\ settings' \subseteq {"base", "edit", "other"}
            BY <2>4 DEF WriteBackup
        <3>6. QED
            BY ONLY <3>1, <3>2, <3>3, <3>4, <3>5 DEF TypeOK, Steps
    <2>5. CASE AppendBlock(p)
        <3>1. harm' \subseteq {"kill", "failure", "write", "overlap", "again", "edit"} /\ left' \in 0..Harms
            BY <2>5 DEF AppendBlock
        <3>2. data' \in [Setups -> Files \cup {None}] /\ append' \in [Setups -> BOOLEAN]
            BY <2>5 DEF AppendBlock
        <3>3. config' \in Files /\ backup' \in Files \cup {None} /\ running' \in Files \cup {None}
            <4>1. config' \in {config, config \cup {"ours"}, config \cup {"torn"}}
                BY ONLY <2>5 DEF AppendBlock
            <4>2. config' \in Files
                BY ONLY TypeOK, FilesGrow, <4>1 DEF TypeOK
            <4>3. UNCHANGED <<backup, running>>
                BY ONLY <2>5 DEF AppendBlock, host
            <4>4. QED
                BY <4>2, <4>3
        <3>4. pc' \in [Setups -> Steps]
            BY <2>5 DEF AppendBlock, Steps
        <3>5. dirs' \in BOOLEAN /\ conflict' \in BOOLEAN /\ settings' \subseteq {"base", "edit", "other"}
            BY <2>5 DEF AppendBlock
        <3>6. QED
            BY ONLY <3>1, <3>2, <3>3, <3>4, <3>5 DEF TypeOK, Steps
    <2>6. CASE Validate(p)
        BY <2>6 DEF Validate
    <2>7. CASE Restore(p)
        <3>1. harm' \subseteq {"kill", "failure", "write", "overlap", "again", "edit"} /\ left' \in 0..Harms
            BY <2>7 DEF Restore
        <3>2. data' \in [Setups -> Files \cup {None}] /\ append' \in [Setups -> BOOLEAN]
            BY <2>7 DEF Restore
        <3>3. config' \in Files /\ backup' \in Files \cup {None} /\ running' \in Files \cup {None}
            BY <2>7 DEF Restore
        <3>4. pc' \in [Setups -> Steps]
            BY <2>7 DEF Restore, Steps
        <3>5. dirs' \in BOOLEAN /\ conflict' \in BOOLEAN /\ settings' \subseteq {"base", "edit", "other"}
            BY <2>7 DEF Restore
        <3>6. QED
            BY ONLY <3>1, <3>2, <3>3, <3>4, <3>5 DEF TypeOK, Steps
    <2>8. CASE WriteRestored(p)
        <3>1. harm' \subseteq {"kill", "failure", "write", "overlap", "again", "edit"} /\ left' \in 0..Harms
            BY <2>8 DEF WriteRestored
        <3>2. data' \in [Setups -> Files \cup {None}] /\ append' \in [Setups -> BOOLEAN]
            BY <2>8 DEF WriteRestored
        <3>3. config' \in Files /\ backup' \in Files \cup {None} /\ running' \in Files \cup {None}
            BY <2>8 DEF WriteRestored
        <3>4. pc' \in [Setups -> Steps]
            BY <2>8 DEF WriteRestored, Steps
        <3>5. dirs' \in BOOLEAN /\ conflict' \in BOOLEAN /\ settings' \subseteq {"base", "edit", "other"}
            BY <2>8 DEF WriteRestored
        <3>6. QED
            BY ONLY <3>1, <3>2, <3>3, <3>4, <3>5 DEF TypeOK, Steps
    <2>9. CASE CreateDirectories(p)
        <3>1. harm' \subseteq {"kill", "failure", "write", "overlap", "again", "edit"} /\ left' \in 0..Harms
            BY <2>9 DEF CreateDirectories
        <3>2. data' \in [Setups -> Files \cup {None}] /\ append' \in [Setups -> BOOLEAN]
            BY <2>9 DEF CreateDirectories
        <3>3. config' \in Files /\ backup' \in Files \cup {None} /\ running' \in Files \cup {None}
            BY <2>9 DEF CreateDirectories
        <3>4. pc' \in [Setups -> Steps]
            BY <2>9 DEF CreateDirectories, Steps
        <3>5. dirs' \in BOOLEAN /\ conflict' \in BOOLEAN /\ settings' \subseteq {"base", "edit", "other"}
            BY <2>9 DEF CreateDirectories
        <3>6. QED
            BY ONLY <3>1, <3>2, <3>3, <3>4, <3>5 DEF TypeOK, Steps
    <2>10. CASE ReloadSSHD(p)
        <3>1. harm' \subseteq {"kill", "failure", "write", "overlap", "again", "edit"} /\ left' \in 0..Harms
            BY <2>10 DEF ReloadSSHD
        <3>2. data' \in [Setups -> Files \cup {None}] /\ append' \in [Setups -> BOOLEAN]
            BY <2>10 DEF ReloadSSHD
        <3>3. config' \in Files /\ backup' \in Files \cup {None} /\ running' \in Files \cup {None}
            BY <2>10 DEF ReloadSSHD
        <3>4. pc' \in [Setups -> Steps]
            BY <2>10 DEF ReloadSSHD, Steps
        <3>5. dirs' \in BOOLEAN /\ conflict' \in BOOLEAN /\ settings' \subseteq {"base", "edit", "other"}
            BY <2>10 DEF ReloadSSHD
        <3>6. QED
            BY ONLY <3>1, <3>2, <3>3, <3>4, <3>5 DEF TypeOK, Steps
    <2>11. CASE AlreadyConfigured(p)
        BY <2>11 DEF AlreadyConfigured
    <2>12. QED
        BY <1>1, <2>1, <2>2, <2>3, <2>4, <2>5, <2>6, <2>7, <2>8, <2>9, <2>10, <2>11 DEF Run
<1>2. ASSUME NEW p \in Setups, Kill(p) PROVE TypeOK'
    BY <1>2 DEF Kill
<1>3. CASE Reboot
    <2>1. harm' \subseteq {"kill", "failure", "write", "overlap", "again", "edit"} /\ left' \in 0..Harms
        BY <1>3 DEF Reboot
    <2>2. data' \in [Setups -> Files \cup {None}] /\ append' \in [Setups -> BOOLEAN]
        BY <1>3 DEF Reboot
    <2>3. config' \in Files /\ backup' \in Files \cup {None} /\ running' \in Files \cup {None}
        BY <1>3 DEF Reboot
    <2>4. pc' \in [Setups -> Steps]
        BY <1>3 DEF Reboot, Steps
    <2>5. dirs' \in BOOLEAN /\ conflict' \in BOOLEAN /\ settings' \subseteq {"base", "edit", "other"}
        BY <1>3 DEF Reboot
    <2>6. QED
        BY ONLY <2>1, <2>2, <2>3, <2>4, <2>5 DEF TypeOK, Steps
<1>4. CASE Edit
    <2>1. harm' \subseteq {"kill", "failure", "write", "overlap", "again", "edit"} /\ left' \in 0..Harms
        BY <1>4 DEF Edit
    <2>2. data' \in [Setups -> Files \cup {None}] /\ append' \in [Setups -> BOOLEAN]
        BY <1>4 DEF Edit
    <2>3. config' \in Files /\ backup' \in Files \cup {None} /\ running' \in Files \cup {None}
        BY <1>4 DEF Edit
    <2>4. pc' \in [Setups -> Steps]
        BY <1>4 DEF Edit, Steps
    <2>5. dirs' \in BOOLEAN /\ conflict' \in BOOLEAN /\ settings' \subseteq {"base", "edit", "other"}
        BY <1>4 DEF Edit
    <2>6. QED
        BY ONLY <2>1, <2>2, <2>3, <2>4, <2>5 DEF TypeOK, Steps
<1>5. CASE UNCHANGED vars
    BY <1>5 DEF vars
<1>6. QED
    BY <1>1, <1>2, <1>3, <1>4, <1>5 DEF Next

\* A step keeps what has been read at hand until it is written.
LEMMA DataKept == ASSUME TypeOK, DataRead, [Next]_vars PROVE DataRead'
<1> USE FilesGrow DEF HasOurs, HasOther, TypeOK, DataRead, Goto, Return, Harm, HarmIf, Fails, files, host,
       memory, harmVars
<1>1. ASSUME NEW p \in Setups, Run(p) PROVE DataRead'
    <2>1. CASE Check(p)
        BY <2>1 DEF Check
    <2>2. CASE ReadConfig(p)
        BY <2>2 DEF ReadConfig
    <2>3. CASE Backup(p)
        BY <2>3 DEF Backup
    <2>4. CASE WriteBackup(p)
        BY <2>4 DEF WriteBackup
    <2>5. CASE AppendBlock(p)
        BY <2>5 DEF AppendBlock
    <2>6. CASE Validate(p)
        BY <2>6 DEF Validate
    <2>7. CASE Restore(p)
        BY <2>7 DEF Restore
    <2>8. CASE WriteRestored(p)
        BY <2>8 DEF WriteRestored
    <2>9. CASE CreateDirectories(p)
        BY <2>9 DEF CreateDirectories
    <2>10. CASE ReloadSSHD(p)
        BY <2>10 DEF ReloadSSHD
    <2>11. CASE AlreadyConfigured(p)
        BY <2>11 DEF AlreadyConfigured
    <2>12. QED
        BY <1>1, <2>1, <2>2, <2>3, <2>4, <2>5, <2>6, <2>7, <2>8, <2>9, <2>10, <2>11 DEF Run
<1>2. ASSUME NEW p \in Setups, Kill(p) PROVE DataRead'
    BY <1>2 DEF Kill
<1>3. CASE Reboot
    BY <1>3 DEF Reboot
<1>4. CASE Edit
    BY <1>4 DEF Edit
<1>5. CASE UNCHANGED vars
    BY <1>5 DEF vars
<1>6. QED
    BY <1>1, <1>2, <1>3, <1>4, <1>5 DEF Next

\* Every variable of the server setup keeps its type, whatever fails or is killed: what
\* is written to sshd_config and to its copy has been read before.
THEOREM TypeCorrect == Spec => [](TypeOK /\ DataRead)
<1>1. Init => TypeOK /\ DataRead
    <2> SUFFICES ASSUME Init PROVE TypeOK /\ DataRead
        OBVIOUS
    <2>1. config \in Files /\ running \in Files \cup {None}
        BY DEF Init, Files, Parts
    <2>2. settings \subseteq {"base", "edit", "other"}
        BY DEF Init
    <2>3. pc \in [Setups -> {"idle", "read", "backup", "copying", "append", "validate",
                           "restore", "restoring", "dirs", "reload"}]
        BY DEF Init
    <2>4. left = Harms /\ harm = {} /\ backup = None /\ dirs = FALSE /\ conflict \in BOOLEAN
        BY ONLY Init DEF Init
    <2>5. data \in [Setups -> Files \cup {None}] /\ append \in [Setups -> BOOLEAN]
        BY DEF Init
    <2>6. left \in 0..Harms /\ harm \subseteq {}
        BY ONLY <2>4, ServerSetupAssumption
    <2>7. DataRead
        <3>1. pc = [p \in Setups |-> "idle"]
            BY DEF Init
        <3>2. QED
            BY ONLY <3>1 DEF DataRead
    <2>8. QED
        BY ONLY <2>1, <2>2, <2>3, <2>4, <2>5, <2>6, <2>7 DEF TypeOK
<1>2. TypeOK /\ DataRead /\ [Next]_vars => (TypeOK /\ DataRead)'
    BY TypeKept, DataKept
<1>3. QED
    BY <1>1, <1>2, PTL DEF Spec

-----------------------------------------------------------------------------
(* The inductive invariant: what each command has found still holds, as    *)
(* long as no other runs beside it.                                        *)

OneAtATime ==
    Spared({"overlap"}) => \A p, q \in Busy : p = q

\* Wherever sshd is started without a kill or a failed write, it accepts sshd_config,
\* but for the moments between the append and the restore.
Startable ==
    Spared({"kill", "write", "overlap"}) =>
        /\ running # None
        /\ (\A p \in Setups : pc[p] \notin {"validate", "restore"}) => Valid(config)
        /\ \A p \in Setups :
             /\ pc[p] = "backup" => "ours" \notin config
             /\ pc[p] \in {"copying", "append", "validate", "restore", "restoring"} =>
                   Valid(data[p])

Saved == IF backup = None THEN {} ELSE backup

\* The settings are in the file until it is truncated, and in the copy before that.
Preserved ==
    Spared({"overlap", "again", "edit"}) =>
        /\ settings \subseteq config \cup Saved
        /\ \A p \in Setups :
             /\ pc[p] \in {"read", "backup", "copying", "append", "validate"} =>
                   settings \subseteq config
             /\ pc[p] \in {"copying", "append", "validate", "restore", "restoring"} =>
                   settings \subseteq data[p]
             /\ pc[p] \in {"append", "validate", "restore", "restoring"} =>
                   settings \subseteq Saved

\* What a command that is about to end relies on.
Effective ==
    Spared({"overlap"}) =>
        /\ \A p \in Setups :
             /\ pc[p] \in {"validate", "dirs", "reload"} => "ours" \in config
             /\ pc[p] \in {"read", "dirs", "reload"} => Valid(config)
             /\ pc[p] = "reload" => dirs
        /\ Spared({"kill", "failure", "write"}) =>
             \/ "ours" \notin config
             \/ running # None /\ "ours" \in running
             \/ \E p \in Setups : append[p] /\ pc[p] \in {"validate", "restore", "dirs", "reload"}
        /\ \A p \in Setups :
             /\ pc[p] \in {"backup", "copying", "append"} => append[p] /\ "ours" \notin config
             /\ pc[p] \in {"copying", "append", "validate", "restore", "restoring"} =>
                   "ours" \notin data[p]

SetupInvariant == OneAtATime /\ Startable /\ Preserved /\ Effective

\* Whoever starts beside another is recorded, so that the others wait to begin.
LEMMA OneAtATimeKept ==
    ASSUME TypeOK, OneAtATime, [Next]_vars
    PROVE  OneAtATime'
<1> USE DEF TypeOK, OneAtATime, Goto, Return, Harm, HarmIf, Fails, files, host, memory,
       harmVars, Spared, Busy
<1>1. ASSUME NEW p \in Setups, Run(p) PROVE OneAtATime'
    <2>1. CASE Check(p)
        BY <2>1 DEF Check
    <2>2. CASE ReadConfig(p)
        BY <2>2 DEF ReadConfig
    <2>3. CASE Backup(p)
        BY <2>3 DEF Backup
    <2>4. CASE WriteBackup(p)
        BY <2>4 DEF WriteBackup
    <2>5. CASE AppendBlock(p)
        BY <2>5 DEF AppendBlock
    <2>6. CASE Validate(p)
        BY <2>6 DEF Validate
    <2>7. CASE Restore(p)
        BY <2>7 DEF Restore
    <2>8. CASE WriteRestored(p)
        BY <2>8 DEF WriteRestored
    <2>9. CASE CreateDirectories(p)
        BY <2>9 DEF CreateDirectories
    <2>10. CASE ReloadSSHD(p)
        BY <2>10 DEF ReloadSSHD
    <2>11. CASE AlreadyConfigured(p)
        BY <2>11 DEF AlreadyConfigured
    <2>12. QED
        BY <1>1, <2>1, <2>2, <2>3, <2>4, <2>5, <2>6, <2>7, <2>8, <2>9, <2>10, <2>11 DEF Run
<1>2. ASSUME NEW p \in Setups, Kill(p) PROVE OneAtATime'
    BY <1>2 DEF Kill
<1>3. CASE Reboot
    BY <1>3 DEF Reboot
<1>4. CASE Edit
    BY <1>4 DEF Edit
<1>5. CASE UNCHANGED vars
    BY <1>5 DEF vars
<1>6. QED
    BY <1>1, <1>2, <1>3, <1>4, <1>5 DEF Next

\* A step keeps what sshd finds in sshd_config valid.
LEMMA StartableKept ==
    ASSUME TypeOK, DataRead, OneAtATime, Startable, [Next]_vars
    PROVE  Startable'
<1> USE FilesGrow DEF HasOurs, HasOther, TypeOK, DataRead, OneAtATime, Startable, Valid, Goto, Return, Harm,
       HarmIf, Fails, files, host, memory, harmVars, Spared, Busy
<1>1. ASSUME NEW p \in Setups, Run(p) PROVE Startable'
    <2>0. Spared({"overlap"}) /\ pc[p] # "idle" => \A q \in Setups : q = p \/ pc[q] = "idle"
        OBVIOUS
    <2>1. CASE Check(p)
        BY <2>1, <2>0 DEF Check
    <2>2. CASE ReadConfig(p)
        BY <2>2, <2>0 DEF ReadConfig
    <2>3. CASE Backup(p)
        BY <2>3, <2>0 DEF Backup
    <2>4. CASE WriteBackup(p)
        BY <2>4, <2>0 DEF WriteBackup
    <2>5. CASE AppendBlock(p)
        BY <2>5, <2>0 DEF AppendBlock
    <2>6. CASE Validate(p)
        BY <2>6, <2>0 DEF Validate
    <2>7. CASE Restore(p)
        BY <2>7, <2>0 DEF Restore
    <2>8. CASE WriteRestored(p)
        BY <2>8, <2>0 DEF WriteRestored
    <2>9. CASE CreateDirectories(p)
        BY <2>9, <2>0 DEF CreateDirectories
    <2>10. CASE ReloadSSHD(p)
        BY <2>10, <2>0 DEF ReloadSSHD
    <2>11. CASE AlreadyConfigured(p)
        BY <2>11, <2>0 DEF AlreadyConfigured
    <2>12. QED
        BY <1>1, <2>1, <2>2, <2>3, <2>4, <2>5, <2>6, <2>7, <2>8, <2>9, <2>10, <2>11 DEF Run
<1>2. ASSUME NEW p \in Setups, Kill(p) PROVE Startable'
    BY <1>2 DEF Kill
<1>3. CASE Reboot
    BY <1>3 DEF Reboot
<1>4. CASE Edit
    BY <1>4 DEF Edit
<1>5. CASE UNCHANGED vars
    BY <1>5 DEF vars
<1>6. QED
    BY <1>1, <1>2, <1>3, <1>4, <1>5 DEF Next

\* A step keeps the settings of the administrator.
LEMMA PreservedKept ==
    ASSUME TypeOK, DataRead, OneAtATime, Preserved, [Next]_vars
    PROVE  Preserved'
<1> USE FilesGrow DEF HasOurs, HasOther, TypeOK, DataRead, OneAtATime, Preserved, Saved, Goto, Return, Harm,
       HarmIf, Fails, files, host, memory, harmVars, Spared, Busy
<1>1. ASSUME NEW p \in Setups, Run(p) PROVE Preserved'
    <2>0. Spared({"overlap"}) /\ pc[p] # "idle" => \A q \in Setups : q = p \/ pc[q] = "idle"
        OBVIOUS
    <2>1. CASE Check(p)
        BY <2>1, <2>0 DEF Check
    <2>2. CASE ReadConfig(p)
        BY <2>2, <2>0 DEF ReadConfig
    <2>3. CASE Backup(p)
        BY <2>3, <2>0 DEF Backup
    <2>4. CASE WriteBackup(p)
        BY <2>4, <2>0 DEF WriteBackup
    <2>5. CASE AppendBlock(p)
        BY <2>5, <2>0 DEF AppendBlock
    <2>6. CASE Validate(p)
        BY <2>6, <2>0 DEF Validate
    <2>7. CASE Restore(p)
        BY <2>7, <2>0 DEF Restore
    <2>8. CASE WriteRestored(p)
        BY <2>8, <2>0 DEF WriteRestored
    <2>9. CASE CreateDirectories(p)
        BY <2>9, <2>0 DEF CreateDirectories
    <2>10. CASE ReloadSSHD(p)
        BY <2>10, <2>0 DEF ReloadSSHD
    <2>11. CASE AlreadyConfigured(p)
        BY <2>11, <2>0 DEF AlreadyConfigured
    <2>12. QED
        BY <1>1, <2>1, <2>2, <2>3, <2>4, <2>5, <2>6, <2>7, <2>8, <2>9, <2>10, <2>11 DEF Run
<1>2. ASSUME NEW p \in Setups, Kill(p) PROVE Preserved'
    BY <1>2 DEF Kill
<1>3. CASE Reboot
    BY <1>3 DEF Reboot
<1>4. CASE Edit
    BY <1>4 DEF Edit
<1>5. CASE UNCHANGED vars
    BY <1>5 DEF vars
<1>6. QED
    BY <1>1, <1>2, <1>3, <1>4, <1>5 DEF Next

\* A step keeps what a command that is about to end relies on.
LEMMA EffectiveKept ==
    ASSUME TypeOK, DataRead, OneAtATime, Startable, Effective, [Next]_vars
    PROVE  Effective'
<1> USE FilesGrow DEF HasOurs, HasOther, TypeOK, DataRead, OneAtATime, Effective, Valid, Goto, Return, Harm,
       HarmIf, Fails, files, host, memory, harmVars, Spared, Busy
<1>1. ASSUME NEW p \in Setups, Run(p) PROVE Effective'
    <2>0. Spared({"overlap"}) /\ pc[p] # "idle" => \A q \in Setups : q = p \/ pc[q] = "idle"
        OBVIOUS
    <2>1. CASE Check(p)
        BY <2>1, <2>0 DEF Check, Startable
    <2>2. CASE ReadConfig(p)
        <3>1. CASE "ours" \in config /\ Goto(p, "read", "dirs") /\ UNCHANGED memory
            BY <2>2, <2>0, <3>1 DEF ReadConfig
        <3>2. CASE "ours" \notin config /\ Return(p, "read")
            BY <2>2, <2>0, <3>2 DEF ReadConfig
        <3>3. CASE /\ "ours" \notin config
                   /\ Goto(p, "read", "backup")
                   /\ append' = [append EXCEPT ![p] = TRUE]
                   /\ UNCHANGED data
            BY <2>2, <2>0, <3>3 DEF ReadConfig
        <3>4. QED
            BY <2>2, <3>1, <3>2, <3>3 DEF ReadConfig
    <2>3. CASE Backup(p)
        BY <2>3, <2>0 DEF Backup
    <2>4. CASE WriteBackup(p)
        BY <2>4, <2>0 DEF WriteBackup
    <2>5. CASE AppendBlock(p)
        BY <2>5, <2>0 DEF AppendBlock
    <2>6. CASE Validate(p)
        BY <2>6, <2>0 DEF Validate
    <2>7. CASE Restore(p)
        <3>1. CASE Fails(p, "restore", "write") /\ UNCHANGED config
            BY <2>7, <2>0, <3>1 DEF Restore
        <3>2. CASE Goto(p, "restore", "restoring") /\ config' = {}
            BY <2>7, <2>0, <3>2 DEF Restore
        <3>3. QED
            BY <2>7, <3>1, <3>2 DEF Restore
    <2>8. CASE WriteRestored(p)
        BY <2>8, <2>0 DEF WriteRestored
    <2>9. CASE CreateDirectories(p)
        BY <2>9, <2>0 DEF CreateDirectories
    <2>10. CASE ReloadSSHD(p)
        BY <2>10, <2>0 DEF ReloadSSHD
    <2>11. CASE AlreadyConfigured(p)
        BY <2>11, <2>0 DEF AlreadyConfigured
    <2>12. QED
        BY <1>1, <2>1, <2>2, <2>3, <2>4, <2>5, <2>6, <2>7, <2>8, <2>9, <2>10, <2>11 DEF Run
<1>2. ASSUME NEW p \in Setups, Kill(p) PROVE Effective'
    BY <1>2 DEF Kill
<1>3. CASE Reboot
    BY <1>3 DEF Reboot, Startable
<1>4. CASE Edit
    BY <1>4 DEF Edit
<1>5. CASE UNCHANGED vars
    BY <1>5 DEF vars
<1>6. QED
    BY <1>1, <1>2, <1>3, <1>4, <1>5 DEF Next

-----------------------------------------------------------------------------
(* The theorems.                                                           *)

\* The invariant holds in every state that the commands can lead to.
THEOREM InvariantHolds == Spec => [](TypeOK /\ DataRead /\ SetupInvariant)
<1>1. Init => SetupInvariant
    <2> SUFFICES ASSUME Init PROVE SetupInvariant
        OBVIOUS
    <2>1. /\ \A p \in Setups : pc[p] = "idle"
          /\ running = config /\ settings = config /\ backup = None
          /\ config \in Files /\ "ours" \notin config /\ "torn" \notin config
        BY DEF Init, Files, Parts
    <2>2. OneAtATime
        BY <2>1 DEF OneAtATime, Busy
    <2>3. Startable
        BY <2>1, FilesGrow DEF Startable, Valid
    <2>4. Preserved
        BY <2>1 DEF Preserved, Saved
    <2>5. Effective
        BY <2>1 DEF Effective
    <2>6. QED
        BY <2>2, <2>3, <2>4, <2>5 DEF SetupInvariant
<1>2. TypeOK /\ DataRead /\ SetupInvariant /\ [Next]_vars => SetupInvariant'
    BY OneAtATimeKept, StartableKept, PreservedKept, EffectiveKept DEF SetupInvariant
<1>3. QED
    BY <1>1, <1>2, TypeCorrect, PTL DEF Spec

\* For any number of commands, each of which may fail at any call but the writes of
\* sshd_config: sshd starts with the file that they leave, as long as none has been killed
\* (or the host restarted under it) or run beside another.
THEOREM FailedSetupsLeaveSshd == Spec => []SshdStarts
<1>1. SetupInvariant => SshdStarts
    BY DEF SetupInvariant, Startable, SshdStarts
<1>2. QED
    BY <1>1, InvariantHolds, PTL

\* The administrator's settings outlive a server-setup that fails or is killed anywhere,
\* as long as none is started on what another left truncated or runs beside another, and
\* the file is not edited meanwhile.
THEOREM SettingsAreKept == Spec => []SettingsKept
<1>1. SetupInvariant => SettingsKept
    BY DEF SetupInvariant, Preserved, Saved, SettingsKept
<1>2. QED
    BY <1>1, InvariantHolds, PTL

\* What server-setup reports as complete is in place, whatever was interrupted before, as
\* long as none ran beside another; sshd has loaded it if nothing was interrupted.
THEOREM CompleteTakesEffect == Spec => TakesEffect
<1>1. TypeOK /\ SetupInvariant /\ [Next]_vars 
        => [\A p \in Setups :
                   Completes(p) /\ Spared({"overlap"})
                   => /\ dirs'
                      /\ "ours" \in config'
                      /\ Valid(config)
                      /\ Spared({"kill", "failure", "write"}) => "ours" \in running']_vars
    <2> SUFFICES ASSUME TypeOK, SetupInvariant, Next, NEW p \in Setups, Completes(p),
                        Spared({"overlap"})
                 PROVE  /\ dirs'
                        /\ "ours" \in config'
                        /\ Valid(config)
                        /\ Spared({"kill", "failure", "write"}) => "ours" \in running'
        BY DEF vars
    <2> USE DEF TypeOK
    <2>1. pc[p] = "reload" /\ pc'[p] = "idle" /\ left' = left
        BY DEF Completes
    <2>2. dirs /\ "ours" \in config /\ Valid(config)
        BY <2>1 DEF SetupInvariant, Effective
    <2>3. \A q \in Setups : q = p \/ pc[q] = "idle"
        BY <2>1 DEF SetupInvariant, OneAtATime, Busy
    <2>4. ~Edit /\ ~Reboot /\ \A q \in Setups : ~Kill(q)
        BY <2>1 DEF Edit, Reboot, Kill, Harm, HarmIf, Busy
    <2>5. PICK q \in Setups : Run(q)
        BY <2>4 DEF Next
    <2>6. ReloadSSHD(p) \/ AlreadyConfigured(p)
        <3>1. q = p
            <4>1. Run(q) => pc'[p] = pc[p] \/ q = p
                BY DEF Run, Check, ReadConfig, Backup, WriteBackup, AppendBlock, Validate, Restore,
                   WriteRestored, CreateDirectories, ReloadSSHD, AlreadyConfigured, Goto, Return, Fails
            <4>2. QED
                BY <2>1, <2>5, <4>1
        <3>2. /\ ~Check(p) /\ ~ReadConfig(p) /\ ~Backup(p) /\ ~WriteBackup(p) /\ ~AppendBlock(p)
              /\ ~Validate(p) /\ ~Restore(p) /\ ~WriteRestored(p) /\ ~CreateDirectories(p)
            BY <2>1 DEF Check, ReadConfig, Backup, WriteBackup, AppendBlock, Validate, Restore,
               WriteRestored, CreateDirectories, Goto, Return, Fails
        <3>3. QED
            BY <2>5, <3>1, <3>2 DEF Run
    <2>7. CASE ReloadSSHD(p)
        <3>1. ~Harm("failure")
            BY <2>1, ServerSetupAssumption DEF Harm
        <3>2. running' = config /\ config' = config /\ dirs' = dirs
            BY <2>7, <3>1 DEF ReloadSSHD, Fails, files
        <3>3. QED
            BY <2>2, <3>2
    <2>8. CASE AlreadyConfigured(p)
        <3>1. running' = running /\ config' = config /\ dirs' = dirs /\ ~append[p]
            BY <2>8 DEF AlreadyConfigured, files, host
        <3>2. Spared({"kill", "failure", "write"}) =>
                 "ours" \in running \/ \E s \in Setups : append[s] /\ pc[s] # "idle"
            BY <2>2 DEF SetupInvariant, Effective
        <3>3. QED
            BY <2>2, <2>3, <3>1, <3>2
    <2>9. QED
        BY <2>6, <2>7, <2>8
<1>2. QED
    BY <1>1, InvariantHolds, PTL DEF TakesEffect, Spec
=============================================================================
